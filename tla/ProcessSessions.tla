-------------------------- MODULE ProcessSessions --------------------------
(***************************************************************************)
(* ProcessSessionManager of integrations/tools/process_sessions.py for one *)
(* durable Session, and the Bash and Process tools that drive it.  Each    *)
(* process has its own asyncio tasks: pumps of its output, a watcher of    *)
(* its exit, perhaps a timeout.  They and the tools interleave at awaits;  *)
(* what the operating system does to the child is nondeterministic.        *)
(*                                                                         *)
(* A termination is run by one of three callers: a tool (Process.stop, a   *)
(* cancelled Bash call, the end of a cancelled Turn), the timeout task, or *)
(* the close of the Session.                                               *)
(***************************************************************************)
EXTENDS OutputRing, SequencesExt

CONSTANTS
    Processes,
    MaxProcesses,   \* max_processes_per_session
    MaxFinished,    \* max_finished_per_session
    MaxExpired,     \* max_expired_per_session
    Windows,        \* os.name = "nt"
    Kind,           \* what a process was started as: a pipe or a PTY
    Timed,          \* the processes started with a timeout
    MaxWritten      \* bound: bytes a process writes

Kinds == {"pipe", "pty"}

ASSUME QuotaAssumption == {MaxProcesses, MaxFinished, MaxExpired} \subseteq Nat
ASSUME CallAssumption ==
    Kind \in [Processes -> Kinds] /\ Timed \subseteq Processes /\ Windows \in BOOLEAN
ASSUME BoundAssumption == MaxWritten \in [Processes -> Nat]

Callers == {"tool", "timeout", "close"}

VARIABLES
    proc,      \* the _ManagedProcess of each process and its child
    stop,      \* where each caller's _terminate_managed stands
    listed,    \* _processes, in order of registration
    expired,   \* _expired, oldest first
    starting,  \* the process inside _start_pipe or _start_pty
    closing,   \* shutdown_session: "no", "running", "done"
    todo,      \* its snapshot of _processes
    cursor     \* the next_cursor a reader got last

vars == <<proc, stop, listed, expired, starting, closing, todo, cursor>>

States == {"running", "exited", "unknown"}

\* held: the bytes of the output that the redactor keeps back, for a secret
\* may go on in the next ones.  cut is history, read by properties alone: a
\* tool was cancelled between the verdict of its stop and the report of it.
Managed ==
    [child |-> "alive", pump |-> TRUE, eof |-> FALSE,
     state |-> "running", watcher |-> "waiting", lock |-> "free",
     requested |-> FALSE, confirmed |-> FALSE,
     out |-> NoOutput, held |-> 0, cut |-> FALSE]

\* at: the await; ok: what terminate, and for a PTY the reader, confirmed.
Stages == {"idle", "armed", "locking", "killing", "draining", "reporting"}
AtRest == [at |-> "idle", ok |-> FALSE]

TypeOK ==
    /\ proc \in [Processes ->
          [child : {"alive", "dead"}, pump : BOOLEAN,
           eof : BOOLEAN, state : States,
           watcher : {"waiting", "draining", "closing", "done"},
           lock : {"free", "watcher"} \union Callers,
           requested : BOOLEAN, confirmed : BOOLEAN,
           out : [chunks : Seq(Chunk), next : Nat],
           held : Nat, cut : BOOLEAN]]
    /\ stop \in [Processes -> [Callers -> [at : Stages, ok : BOOLEAN]]]
    /\ listed \in Seq(Processes) /\ expired \in Seq(Processes)
    /\ starting \subseteq Processes
    /\ closing \in {"no", "running", "done"}
    /\ todo \in Seq(Processes)
    /\ cursor \in [Processes -> Nat]

Init ==
    /\ proc = [p \in Processes |-> Managed]
    /\ stop = [p \in Processes |-> [c \in Callers |-> AtRest]]
    /\ listed = <<>> /\ expired = <<>> /\ starting = {}
    /\ closing = "no" /\ todo = <<>>
    /\ cursor = [p \in Processes |-> 0]

Known(p)   == p \in Range(listed)
Launched   == Range(listed) \union Range(expired)
Pty(p)     == Kind[p] = "pty"
Running(p) == proc[p].state = "running"

\* --------------------------------------------------- records and eviction

\* The finished records beyond the quota, oldest first, but not `protected`.
Surplus(ps, protected) ==
    LET finished   == Selected(listed, {p \in Processes : ps[p].state # "running"})
        candidates == Selected(finished, Processes \ protected)
        excess     == IF Len(finished) > MaxFinished
                      THEN Len(finished) - MaxFinished ELSE 0
    IN  SubSeq(candidates, 1, IF excess < Len(candidates)
                              THEN excess ELSE Len(candidates))

LastOf(s, n) == SubSeq(s, IF Len(s) > n THEN Len(s) - n + 1 ELSE 1, Len(s))

\* _discard_managed: the tasks are cancelled, a stop of a tool goes on.
Discarded(q) == [q EXCEPT !.pump = FALSE, !.watcher = "done",
                          !.lock = IF @ = "tool" THEN @ ELSE "free"]
Disarmed(s)  == [s EXCEPT !["timeout"] = AtRest]

\* _evict_finished with the records ps and the stops ss as they now are.
EvictFinished(ps, ss, protected) ==
    \E gone \in {Surplus(ps, protected)} :
        /\ listed' = Selected(listed, Processes \ Range(gone))
        /\ expired' = LastOf(expired \o gone, MaxExpired)
        /\ proc' = [p \in Processes |->
                      IF p \in Range(gone) THEN Discarded(ps[p]) ELSE ps[p]]
        /\ stop' = [p \in Processes |->
                      IF p \in Range(gone) THEN Disarmed(ss[p]) ELSE ss[p]]

\* _cancel_timeout_task, not by the timeout task itself; a lock it held or
\* waited for is free again.
WithoutTimeout(s, c) == IF c = "timeout" THEN s ELSE Disarmed(s)
Unlocked(q, c) ==
    IF c # "timeout" /\ q.lock = "timeout" THEN [q EXCEPT !.lock = "free"] ELSE q

\* _append_output of what the redactor lets go, which may be nothing.
Filed(out, n) == IF n = 0 THEN out ELSE Appended(out, n)

\* _flush_output_projection: what the redactor keeps back is filed.
Flushed(q) == [q EXCEPT !.out = Filed(@, q.held), !.held = 0]

\* Mutant: the end of a process forgets what the redactor keeps back.
FinishUnflushed(p, q, c) ==
    \E ps \in {[proc EXCEPT ![p] = Unlocked(q, c)]},
       ss \in {[stop EXCEPT ![p] = WithoutTimeout(
                 IF c \in Callers THEN [@ EXCEPT ![c] = AtRest] ELSE @, c)]} :
        EvictFinished(ps, ss, {p})

\* _finish_state of p with the record q, reached by c, whose stop ends.
Finish(p, q, c) ==
    \E ps \in {[proc EXCEPT ![p] = Unlocked(Flushed(q), c)]},
       ss \in {[stop EXCEPT ![p] = WithoutTimeout(
                 IF c \in Callers THEN [@ EXCEPT ![c] = AtRest] ELSE @, c)]} :
        EvictFinished(ps, ss, {p})

\* ------------------------------------------------------------------ start

\* The checks of start, up to the await of the launch.
BeginStart(p) ==
    /\ starting = {} /\ closing = "no"
    /\ p \notin Launched /\ proc[p] = Managed
    /\ EvictFinished(proc, stop, {})
    /\ Len(listed') < MaxProcesses
    /\ starting' = {p}
    /\ UNCHANGED <<closing, todo, cursor>>

\* The launch is registered, with a timeout task if the call asked for one.
EndStart(p) ==
    /\ p \in starting
    /\ starting' = {}
    /\ listed' = Append(listed, p)
    /\ stop' = [stop EXCEPT ![p]["timeout"].at =
                    IF p \in Timed THEN "armed" ELSE "idle"]
    /\ UNCHANGED <<proc, expired, closing, todo, cursor>>

FailStart(p) ==
    /\ p \in starting
    /\ starting' = {}
    /\ UNCHANGED <<proc, stop, listed, expired, closing, todo, cursor>>

\* ------------------------------------------------------- child and pumps

Change(p, q) == /\ proc' = [proc EXCEPT ![p] = q]
                /\ UNCHANGED <<stop, listed, expired, starting,
                               closing, todo, cursor>>

ChildExits(p) ==
    /\ Known(p) /\ proc[p].child = "alive"
    /\ Change(p, [proc[p] EXCEPT !.child = "dead"])

\* _append_output of a pump: the child wrote before it died, if it is dead.
\* The redactor keeps any end of it back while the process is said to run.
WriteOutput(p, n) ==
    /\ Known(p) /\ proc[p].pump
    /\ proc[p].out.next + proc[p].held + n <= MaxWritten[p]
    /\ \E keep \in 0 .. (proc[p].held + n) :
          /\ ~Running(p) => keep = 0
          /\ Change(p, [proc[p] EXCEPT !.out  = Filed(@, proc[p].held + n - keep),
                                      !.held = keep])

\* The end of a stream, or a read error; of a PTY the difference is kept.
EndPump(p) ==
    /\ Known(p) /\ proc[p].pump
    /\ \E eof \in BOOLEAN :
          /\ eof => Pty(p) /\ proc[p].child = "dead"
          /\ Change(p, [proc[p] EXCEPT !.pump = FALSE, !.eof = eof])

\* A read hands out the retained chunks and the next cursor.
Read(p) ==
    /\ Known(p) /\ closing = "no"
    /\ cursor' = [cursor EXCEPT ![p] = proc[p].out.next]
    /\ UNCHANGED <<proc, stop, listed, expired, starting, closing, todo>>

\* ---------------------------------------------------------------- watcher

\* The exit code, then the rest of the output, then the published state.
WatchPipe(p) ==
    /\ ~Pty(p) /\ proc[p].child = "dead"
    /\ \/ /\ proc[p].watcher = "waiting"
          /\ Change(p, [proc[p] EXCEPT !.watcher = "draining"])
       \/ /\ proc[p].watcher = "draining" /\ ~proc[p].pump
          /\ Finish(p, [proc[p] EXCEPT !.state = "exited", !.watcher = "done"],
                    "watcher")
          /\ UNCHANGED <<starting, closing, todo, cursor>>

\* The exit of a PTY is finalized under its lock, unless a stop wants to.
LockPty(p) ==
    /\ Pty(p) /\ proc[p].child = "dead" /\ proc[p].watcher = "waiting"
    /\ proc[p].lock = "free"
    /\ Change(p, IF proc[p].requested \/ ~Running(p)
                 THEN [proc[p] EXCEPT !.watcher = "done"]
                 ELSE [proc[p] EXCEPT !.watcher = "draining", !.lock = "watcher"])

\* The pump has ended, or has not within five seconds.
DrainPty(p) ==
    /\ Pty(p) /\ proc[p].watcher = "draining"
    /\ Change(p, IF proc[p].requested
                 THEN [proc[p] EXCEPT !.watcher = "done", !.lock = "free"]
                 ELSE [proc[p] EXCEPT !.watcher = "closing",
                                      !.eof = @ /\ ~proc[p].pump])

\* The adapter is closed; only output that ended makes it an exit.
FinalizePty(p) ==
    /\ Pty(p) /\ proc[p].watcher = "closing"
    /\ \E closed \in BOOLEAN :
          LET verdict == IF closed /\ proc[p].eof /\ ~proc[p].pump
                         THEN "exited" ELSE "unknown"
          IN  Finish(p, [proc[p] EXCEPT !.state = verdict, !.watcher = "done",
                                        !.lock = "free"], "watcher")
    /\ UNCHANGED <<starting, closing, todo, cursor>>

\* ------------------------------------------------------------ termination

\* The first lines of _terminate_managed, for a process that runs.
BeginStop(p, c) ==
    /\ Running(p)
    /\ IF Pty(p)
       THEN /\ proc' = [proc EXCEPT ![p].requested = TRUE]
            /\ stop' = [stop EXCEPT ![p][c].at = "locking"]
       ELSE /\ stop' = [stop EXCEPT ![p][c].at = "killing"]
            /\ UNCHANGED proc
    /\ UNCHANGED <<listed, expired>>

\* And for one that does not: Windows may not confirm a PTY that is gone.
StopNothing(p, c) ==
    /\ ~Running(p)
    /\ LET q == proc[p]
       IN  IF Windows /\ Pty(p) /\ q.state = "exited" /\ ~q.confirmed
           THEN Finish(p, [q EXCEPT !.state = "unknown"], c)
           ELSE /\ stop' = [stop EXCEPT ![p][c] = AtRest]
                /\ UNCHANGED <<proc, listed, expired>>

\* A tool asks for the end of a listed process, also of one it reads about.
StopByTool(p) ==
    /\ Known(p) /\ stop[p]["tool"].at = "idle" /\ closing = "no"
    /\ BeginStop(p, "tool") \/ StopNothing(p, "tool")
    /\ UNCHANGED <<starting, closing, todo, cursor>>

TimeOut(p) ==
    /\ stop[p]["timeout"].at = "armed"
    /\ \/ BeginStop(p, "timeout")
       \/ /\ ~Running(p)
          /\ stop' = [stop EXCEPT ![p]["timeout"] = AtRest]
          /\ UNCHANGED <<proc, listed, expired>>
    /\ UNCHANGED <<starting, closing, todo, cursor>>

\* The finalize lock of a PTY; the state is looked at again behind it.
LockForStop(p, c) ==
    /\ stop[p][c].at = "locking" /\ proc[p].lock = "free"
    /\ \/ /\ Running(p)
          /\ proc' = [proc EXCEPT ![p].lock = c]
          /\ stop' = [stop EXCEPT ![p][c].at = "killing"]
          /\ UNCHANGED <<listed, expired>>
       \/ StopNothing(p, c)
    /\ UNCHANGED <<starting, closing, todo, cursor>>

\* control.terminate of a process tree: confirmed only when all of it is gone.
TreeOutcomes(child) ==
    {o \in [ok : BOOLEAN, child : {"alive", "dead"}] :
        (o.ok \/ child = "dead") => o.child = "dead"}

\* A Windows PTY that has exited is not killed: its number may be used again.
PtyOutcomes(child) ==
    {o \in TreeOutcomes(child) : Windows /\ child = "dead" => ~o.ok}

Kill(p, c) ==
    /\ stop[p][c].at = "killing"
    /\ \E o \in IF Pty(p) THEN PtyOutcomes(proc[p].child)
                          ELSE TreeOutcomes(proc[p].child) :
          /\ proc' = [proc EXCEPT ![p].child = o.child]
          /\ stop' = [stop EXCEPT ![p][c] = [at |-> "draining", ok |-> o.ok]]
    /\ UNCHANGED <<listed, expired, starting, closing, todo, cursor>>

\* A pipe waits for both pumps without a limit.
DrainPipe(p, c) ==
    /\ ~Pty(p) /\ stop[p][c].at = "draining" /\ ~proc[p].pump
    /\ Finish(p, [proc[p] EXCEPT !.state =
                    IF stop[p][c].ok THEN "exited" ELSE "unknown"], c)
    /\ UNCHANGED <<starting, closing, todo, cursor>>

\* A PTY waits five seconds; all of child, output and adapter must be gone.
DrainPtyStop(p, c) ==
    /\ Pty(p) /\ stop[p][c].at = "draining"
    /\ \E closed \in BOOLEAN :
          LET ok == /\ stop[p][c].ok /\ closed
                    /\ proc[p].child = "dead" /\ proc[p].eof /\ ~proc[p].pump
          IN  /\ proc' = [proc EXCEPT
                    ![p].state = IF ok THEN "exited" ELSE "unknown",
                    ![p].confirmed = ok, ![p].lock = "free"]
              /\ stop' = [stop EXCEPT ![p][c] = [at |-> "reporting", ok |-> ok]]
    /\ UNCHANGED <<listed, expired, starting, closing, todo, cursor>>

\* Mutant: the caller that waits for the watcher holds on to the lock.
ReportPtyStopLocked(p, c) ==
    /\ stop[p][c].at = "reporting"
    /\ Finish(p, [proc[p] EXCEPT !.watcher = "done", !.lock = c], c)
    /\ UNCHANGED <<starting, closing, todo, cursor>>

\* After a second for the watcher, which is cancelled then.
ReportPtyStop(p, c) ==
    /\ stop[p][c].at = "reporting"
    /\ Finish(p, [proc[p] EXCEPT !.watcher = "done",
                    !.lock = IF @ = "watcher" THEN "free" ELSE @], c)
    /\ UNCHANGED <<starting, closing, todo, cursor>>

\* An exception in a termination makes the state unknown.
FailStop(p, c) ==
    /\ stop[p][c].at = "killing"
    /\ Finish(p, [proc[p] EXCEPT !.state = "unknown",
                    !.lock = IF @ = c THEN "free" ELSE @], c)
    /\ UNCHANGED <<starting, closing, todo, cursor>>

\* The tool's task is cancelled in the middle of a stop: nothing is undone,
\* and a stop whose verdict is out is never reported.
AbortStop(p) ==
    /\ stop[p]["tool"].at \in {"locking", "killing", "draining", "reporting"}
    /\ stop' = [stop EXCEPT ![p]["tool"] = AtRest]
    /\ proc' = [proc EXCEPT
                  ![p].lock = IF @ = "tool" THEN "free" ELSE @,
                  ![p].cut  = @ \/ stop[p]["tool"].at = "reporting"]
    /\ UNCHANGED <<listed, expired, starting, closing, todo, cursor>>

\* ------------------------------------------------------- shutdown_session

\* The bridge closes an Application only when its Turns have ended, so no
\* tool is in the middle of a call.
BeginClose ==
    /\ closing = "no" /\ starting = {}
    /\ \A p \in Processes : stop[p]["tool"].at = "idle"
    /\ closing' = "running" /\ todo' = listed
    /\ UNCHANGED <<proc, stop, listed, expired, starting, cursor>>

\* Mutant: a process whose end has been asked for is left to others.
CloseNextUnrequested ==
    /\ closing = "running" /\ todo # <<>>
    /\ stop[Head(todo)]["close"].at = "idle"
    /\ IF Running(Head(todo)) /\ ~proc[Head(todo)].requested
       THEN BeginStop(Head(todo), "close")
       ELSE UNCHANGED <<proc, stop, listed, expired>>
    /\ todo' = IF Running(Head(todo)) /\ ~proc[Head(todo)].requested
               THEN todo ELSE Tail(todo)
    /\ UNCHANGED <<starting, closing, cursor>>

\* One after the other; a process that runs is terminated before the next.
CloseNext ==
    /\ closing = "running" /\ todo # <<>>
    /\ stop[Head(todo)]["close"].at = "idle"
    /\ \/ BeginStop(Head(todo), "close") /\ UNCHANGED todo
       \/ /\ ~Running(Head(todo))
          /\ todo' = Tail(todo)
          /\ UNCHANGED <<proc, stop, listed, expired>>
    /\ UNCHANGED <<starting, closing, cursor>>

\* _close_finished: what does not run is discarded and forgotten.
EndClose ==
    /\ closing = "running" /\ todo = <<>>
    /\ closing' = "done"
    /\ listed' = Selected(listed, {p \in Processes : Running(p)})
    /\ proc' = [p \in Processes |->
                  IF Known(p) /\ ~Running(p) THEN Discarded(proc[p]) ELSE proc[p]]
    /\ stop' = [p \in Processes |->
                  IF Known(p) /\ ~Running(p) THEN Disarmed(stop[p]) ELSE stop[p]]
    /\ UNCHANGED <<expired, starting, todo, cursor>>

\* -------------------------------------------------------------- next-state

Launch(p)  == BeginStart(p) \/ EndStart(p) \/ FailStart(p)
Outside(p) == ChildExits(p) \/ (\E n \in 1..2 : WriteOutput(p, n)) \/ Read(p)
Watch(p)   == WatchPipe(p) \/ LockPty(p) \/ DrainPty(p) \/ FinalizePty(p)
Terminate(p, c) ==
    \/ LockForStop(p, c) \/ Kill(p, c) \/ DrainPipe(p, c)
    \/ DrainPtyStop(p, c) \/ ReportPtyStop(p, c) \/ FailStop(p, c)
Close      == BeginClose \/ CloseNext \/ EndClose

Next == \/ \E p \in Processes :
              \/ Launch(p) \/ Outside(p) \/ EndPump(p) \/ Watch(p)
              \/ StopByTool(p) \/ TimeOut(p) \/ AbortStop(p)
              \/ \E c \in Callers : Terminate(p, c)
        \/ Close

Spec == Init /\ [][Next]_vars

\* The tasks of a process run, a killed child's pipes end, and no termination
\* waits forever for the operating system; tools, children and timeouts are
\* free, and no task has a claim to a turn of its own.
Progress(p) == EndPump(p) \/ Watch(p) \/ \E c \in Callers : Terminate(p, c)

FairSpec ==
    /\ Spec
    /\ \A p \in Processes : WF_vars(Progress(p))
    /\ WF_vars(CloseNext \/ EndClose)

\* -------------------------------------------------------------- properties

(* A reader that goes on from the cursor it was given gets every byte since,
   in order, or is told that it is too late and gets all that is retained
   (read, _ManagedProcess.append). *)
ReadIsHonest ==
    \A p \in Range(listed) :
        LET out  == proc[p].out
            got  == Entries(out, cursor[p])
            from == IF Lost(out, cursor[p]) THEN Earliest(out) ELSE cursor[p]
        IN  /\ \A i \in DOMAIN got :
                  got[i].at = IF i = 1 THEN from ELSE got[i-1].at + got[i-1].len
            /\ out.next = IF got = <<>> THEN from ELSE Last(got).at + Last(got).len
            /\ out.next - Earliest(out) <= MaxBytes

\* The stop of a PTY has its verdict and has not reported it, or never will.
Reporting(p) == \E c \in Callers : stop[p][c].at = "reporting"
Unreported(p) == Pty(p) /\ (Reporting(p) \/ proc[p].cut)

(* "exited" is only said of a process whose child is gone and whose pumps
   have read everything, whoever ended it and whatever raced with it; and as
   long as its record is kept all of it can be read, save for one case: the
   stop of a PTY publishes its verdict up to a second before it files what
   the redactor kept back, and never files it if the tool is cancelled in
   between (_watch_pipe, _watch_pty, _terminate_managed, _finish_state). *)
ExitedIsDrained ==
    /\ \A p \in Launched : proc[p].state = "exited" =>
          proc[p].child = "dead" /\ ~proc[p].pump
    /\ \A p \in Range(listed) :
          proc[p].state = "exited" /\ proc[p].held # 0 => Unreported(p)

(* A closed Session leaves no process running of which nobody says that its
   state is unknown, and only ended processes are ever forgotten
   (shutdown_session, _evict_finished). *)
NothingRunsUnwatched ==
    /\ TypeOK
    /\ closing = "done" => \A p \in Processes :
          proc[p].child = "dead" \/ proc[p].state = "unknown"
                                 \/ proc[p] = Managed
    /\ \A p \in Range(expired) : ~Running(p)

(* Closing a Session ends, though stops of tools, timeouts and natural exits
   run on the same processes. *)
CloseEnds == (closing = "running") ~> (closing = "done")

(* Both: no output is lost without being told so.                              *)
OutputIsWhole == ReadIsHonest /\ ExitedIsDrained
=============================================================================
