----------------------------- MODULE Compaction -----------------------------
(***************************************************************************)
(* Compaction of one Session: the passes of application/context.py with    *)
(* their callbacks in application/generation.py, the writer of the         *)
(* Timeline in integrations/session_files.py, and what may happen around   *)
(* them: cancellation, navigation to another Session, a second trigger,    *)
(* failing appends and crashes.                                            *)
(*                                                                         *)
(* At most one pass holds the Session's single-flight lock.  "planning",   *)
(* "committing" and "ending" are stretches of code without an await;       *)
(* nothing else acts while a pass is in one of them.                       *)
(***************************************************************************)
EXTENDS Timeline

CONSTANTS
    MaxUnits,    \* bound: complete Turns of the Transcript
    MaxEpochs,   \* L4 epochs of one pass (4 in the code)
    MaxFaults    \* bound: appends with a fault, and crashes

ASSUME BoundAssumption == MaxUnits \in Nat /\ MaxEpochs \in Nat \ {0} /\ MaxFaults \in Nat

VARIABLES
    units,    \* complete units of the Transcript on disk
    file,     \* records of timeline.jsonl
    view,     \* the Timeline the open writer believes in
    writer,   \* "open", "unknown" (quarantined) or "closed"
    active,   \* the Application's active Session: "owner", "other" or "none"
    turn,     \* the automatic passes the running Turn has used, or NoTurn
    job,      \* the pass under way
    token,    \* its cancellation token is set
    lock,     \* single-flight lock of the Session
    status,   \* public lifecycle: state and "changed"
    partial,  \* _compaction_committed_any
    faults

vars == <<units, file, view, writer, active, turn, job, token, lock, status, partial, faults>>
store == <<units, file, view, writer, faults>>
public == <<status, partial>>

NoTurn == {"none"}
Automatic == {"auto", "overflow", "aging"}
\* owns: the Session object the pass captured is still the active one;
\* start: the coverage when it began; rival: another trigger was turned away.
Idle == [phase |-> "idle", trigger |-> "none", owns |-> TRUE, timeline |-> <<>>, plan |-> {},
         epoch |-> 0, attempt |-> 0, success |-> FALSE, failure |-> "none",
         start |-> 0, rival |-> FALSE]

AtAwait == job.phase \in {"idle", "limits", "summarize", "validate", "continue"}
Running == job.phase \in {"summarize", "validate", "continue"}
EpochLimit == IF job.trigger = "overflow" THEN 1 ELSE MaxEpochs

Init ==
    /\ units = 0 /\ file = <<>> /\ view = <<>> /\ writer = "open"
    /\ active = "owner" /\ turn = NoTurn
    /\ job = Idle /\ token = FALSE /\ lock = FALSE
    /\ status = [state |-> "idle", changed |-> FALSE] /\ partial = FALSE
    /\ faults = 0

(***************************************************************************)
(* The end of a pass                                                       *)
(***************************************************************************)
Terminal(state, changed) == [state |-> state, changed |-> changed]

StateOf(changed, failure) ==
    CASE failure = "cancelled" -> "cancelled"
      [] failure = "none" -> IF changed THEN "completed" ELSE "no_change"
      [] OTHER -> "failed"

(* finish_compaction: with a result, or with none after an exception.      *)
FinishedLocked(state, changed) ==
    /\ status' = Terminal(state, changed)
    /\ job' = [job EXCEPT !.phase = "idle"]
    /\ UNCHANGED <<store, active, turn, token, lock, partial>>

Finished(state, changed) ==
    /\ status' = Terminal(state, changed)
    /\ job' = [job EXCEPT !.phase = "idle", !.timeline = <<>>, !.plan = {},
                          !.epoch = 0, !.attempt = 0]
    /\ lock' = FALSE
    /\ UNCHANGED <<store, active, turn, token, partial>>

(* A manual pass that found nothing to do is a success without change.     *)
Surfaced(failure) ==
    IF job.trigger = "manual" /\ failure \in {"no_safe_epoch", "no_reduction", "epoch_limit"}
    THEN "none" ELSE failure

EndPass ==
    /\ job.phase = "ending"
    /\ Finished(StateOf(job.success, Surfaced(job.failure)), job.success)

(* compact_session's cancelled_result looks at the Session active now.     *)
CurrentGrew(otherGrew) ==
    IF active = "other" THEN otherGrew ELSE CoveredEnd(file) > job.start

(* An exception of the Provider, or of the owner that was closed, ends the  *)
(* pass with what it had noted as committed.                               *)
PassRaises ==
    /\ job.phase \in {"validate", "continue"}
    /\ Finished("failed", partial)

(* So does the cancellation of its task; L4 takes a cancellation behind a  *)
(* set token for its own, except while it summarises.                      *)
TaskCancelled ==
    /\ Running
    /\ token => job.phase = "summarize" \/ job.trigger = "aging"
    /\ IF token /\ job.trigger \in {"manual", "image"}
         THEN \E otherGrew \in BOOLEAN : Finished("cancelled", CurrentGrew(otherGrew))
         ELSE Finished("cancelled", partial)

Ending(failure) == [job EXCEPT !.phase = "ending", !.failure = failure]

(***************************************************************************)
(* Starting                                                                *)
(***************************************************************************)
NewJob(trigger, phase) ==
    [Idle EXCEPT !.phase = phase, !.trigger = trigger, !.timeline = view, !.start = CoveredEnd(view)]

(* /compact, or the summary of images before a switch of models.           *)
BeginManual ==
    /\ job.phase = "idle" /\ turn = NoTurn
    /\ active = "owner" /\ writer = "open"
    /\ \E trigger \in {"manual", "image"} : job' = NewJob(trigger, "limits")
    /\ token' = FALSE
    /\ UNCHANGED <<store, active, turn, lock, public>>

Lifecycle(trigger) ==
    /\ ~ lock
    /\ status' = Terminal("running", FALSE)
    /\ partial' = FALSE
    /\ lock' = TRUE

(* The limits of the model were awaited; only now does the pass begin.     *)
LimitsKnown ==
    /\ job.phase = "limits"
    /\ \/ /\ ~ token /\ job.owns
          /\ Lifecycle(job.trigger)
          /\ job' = [NewJob(job.trigger, "planning") EXCEPT !.epoch = 1,
                                      !.start = job.start]
          /\ UNCHANGED <<store, active, turn, token>>
       \/ /\ ~ token /\ ~ job.owns
          /\ job' = Idle
          /\ UNCHANGED <<store, active, turn, token, lock, public>>
       \/ /\ token
          /\ \E otherGrew \in BOOLEAN : Finished("cancelled", CurrentGrew(otherGrew))

(* A Turn runs each automatic pass at most once.                           *)
BeginAutomatic(trigger) ==
    /\ job.phase = "idle" /\ turn # NoTurn /\ ~ token
    /\ active = "owner" /\ writer = "open"
    /\ trigger \notin turn
    /\ turn' = turn \cup {trigger}
    /\ Lifecycle(trigger)
    /\ job' = [NewJob(trigger, "planning") EXCEPT !.epoch = 1]
    /\ UNCHANGED <<store, active, token>>

(* The counted request is above the trigger of L4.                         *)
BeginAuto == BeginAutomatic("auto")

(* The Provider refused the request as too long.                           *)
BeginOverflow == BeginAutomatic("overflow")

(* Fine summaries take more than their share of the request.               *)
BeginAging == ActiveFine(view) # {} /\ BeginAutomatic("aging")

(* Another trigger of the Application meets the lock: it has marked the    *)
(* lifecycle as its own before, and puts back only the status.             *)
Rival ==
    /\ Running /\ lock
    /\ partial' = FALSE
    /\ job' = [job EXCEPT !.rival = TRUE]
    /\ UNCHANGED <<store, active, turn, token, lock, status>>

(***************************************************************************)
(* One epoch                                                               *)
(***************************************************************************)
Plans ==
    IF job.trigger = "aging" THEN {AgingEpoch(job.timeline)} \ {{}}
    ELSE Epochs(units, job.timeline)

Planned ==
    IF token THEN {Ending("cancelled")}
    ELSE IF Plans = {} THEN {Ending("no_safe_epoch")}
    ELSE {[job EXCEPT !.phase = "summarize", !.plan = us, !.attempt = 1] : us \in Plans}

PlanEpoch ==
    /\ job.phase = "planning" /\ job.trigger # "aging"
    /\ job' \in IF ~ token /\ job.epoch > EpochLimit THEN {Ending("epoch_limit")} ELSE Planned
    /\ UNCHANGED <<store, active, turn, token, lock, public>>

(* L5 is one epoch and has no limit to reach.                              *)
PlanAging ==
    /\ job.phase = "planning" /\ job.trigger = "aging"
    /\ job' \in Planned
    /\ UNCHANGED <<store, active, turn, token, lock, public>>

(* A summary that does not parse, or does not cover its epoch: once more.  *)
Rejected ==
    IF job.attempt = 1 THEN [job EXCEPT !.attempt = 2] ELSE Ending("repeated_failure")

Summarised(kind) ==
    /\ job.phase = "summarize" /\ ~ token
    /\ kind
    /\ job' \in {[job EXCEPT !.phase = "validate"], Rejected}
    /\ UNCHANGED <<store, active, turn, token, lock, public>>

SummarizeEpoch == Summarised(job.trigger # "aging")

(* One Turn too large for a request: its subpasses, and at most eight      *)
(* rounds that fold their results into one, are a single summary.          *)
SummarizeOversized == Summarised(job.trigger # "aging" /\ Cardinality(job.plan) = 1)

SummarizeAging == Summarised(job.trigger = "aging")

(* Cancelled while it was summarised: L4 ends with a result, L5 raises.    *)
SummaryCancelled ==
    /\ job.phase = "summarize" /\ token
    /\ job.trigger # "aging"
    /\ job' = Ending("cancelled")
    /\ UNCHANGED <<store, active, turn, token, lock, public>>

Candidate ==
    LET derived == IF job.trigger = "aging" THEN <<Macro(job.plan)>> ELSE EpochRecords(job.plan)
    IN  job.timeline \o Transaction(job.timeline, derived)

(* The ordinary request is counted with and without the candidate.  L4     *)
(* looks at the token again, L5 does not.                                  *)
Verdicts(failures) ==
    /\ job.phase = "validate"
    /\ job' \in IF "cancelled" \in failures THEN {Ending("cancelled")}
                ELSE {Ending(failure) : failure \in failures \cup {"no_reduction"}}
                       \cup {[job EXCEPT !.phase = "committing"]}
    /\ UNCHANGED <<store, active, turn, token, lock, public>>

Cancelled == IF token THEN {"cancelled"} ELSE {}

(* The Session a manual pass captured cannot be read once it is released;  *)
(* it may be released while the requests are counted.                      *)
ValidateManual ==
    /\ job.trigger \in {"manual", "image"}
    /\ Verdicts(IF job.owns THEN Cancelled ELSE Cancelled \cup {"commit_failed"})

ValidateAutomatic == job.trigger \in {"auto", "overflow"} /\ Verdicts(Cancelled)

ValidateAging == job.trigger = "aging" /\ Verdicts({})

(* A rebuilt request decides whether another epoch is needed.              *)
Decided ==
    /\ job.phase = "continue"
    /\ job' \in IF token THEN {Ending("cancelled")}
                ELSE {Ending("none"), [job EXCEPT !.phase = "planning", !.epoch = @ + 1]}
    /\ UNCHANGED <<store, active, turn, token, lock, public>>

ContinueManual == job.trigger \in {"manual", "image"} /\ Decided
ContinueAutomatic == job.trigger = "auto" /\ Decided

(***************************************************************************)
(* The commit, one stretch of code without an await                        *)
(***************************************************************************)
(* What the pass does with the outcome: L5 is over, L4 goes on.            *)
Aged == [Ending("none") EXCEPT !.success = TRUE]
Accepted ==
    IF job.trigger = "aging" THEN Aged
    ELSE [job EXCEPT !.success = TRUE, !.timeline = Candidate,
                     !.failure = IF token THEN "cancelled" ELSE "none",
                     !.phase = IF token \/ job.trigger = "overflow" THEN "ending" ELSE "continue"]

CommittingSilently(after, accepted) ==
    /\ job' = after
    /\ UNCHANGED <<units, turn, token, lock, status, partial>>

Committing(after, accepted) ==
    /\ job' = after
    /\ partial' = (partial \/ (accepted /\ job.trigger # "aging"))
    /\ UNCHANGED <<units, turn, token, lock, status>>

(* The owner was released, or the candidate does not extend the Timeline.  *)
CommitRefused ==
    /\ job.phase = "committing"
    /\ ~ job.owns \/ ~ IsPrefix(view, Candidate) \/ writer # "open"
    /\ Committing(Ending("commit_failed"), FALSE)
    /\ UNCHANGED <<file, view, writer, active, faults>>

Appending ==
    /\ job.phase = "committing"
    /\ job.owns /\ writer = "open" /\ IsPrefix(view, Candidate)

CommitDurable ==
    /\ Appending
    /\ file' = Candidate /\ view' = Candidate
    /\ Committing(Accepted, TRUE)
    /\ UNCHANGED <<writer, active, faults>>

(* The append raised and nothing reached the file.                         *)
CommitAbsent ==
    /\ Appending /\ faults < MaxFaults
    /\ faults' = faults + 1
    /\ Committing(Ending("append_failed"), FALSE)
    /\ UNCHANGED <<file, view, writer, active>>

Written(n) == SubSeq(Candidate, 1, Len(job.timeline) + n)

(* The append raised and the file could not be told: the quarantined       *)
(* writer is released and the Session opened again, or that fails too.     *)
CommitUnknown ==
    /\ Appending /\ faults < MaxFaults
    /\ faults' = faults + 1
    /\ \E n \in 0 .. Len(Candidate) - Len(job.timeline) :
        /\ file' = Written(n)
        /\ \/ /\ view' = Written(n) /\ writer' = "open"
              /\ active' = active
              /\ IF Written(n) = Candidate
                 THEN Committing(Accepted, TRUE)
                 ELSE Committing(Ending("durability_unknown"), FALSE)
           \/ /\ view' = view /\ writer' = "closed"
              /\ active' = "none"
              /\ Committing([Ending("durability_unknown") EXCEPT !.owns = FALSE], FALSE)

(***************************************************************************)
(* What happens around a pass                                              *)
(***************************************************************************)
Crash ==
    /\ faults < MaxFaults /\ job.phase \in {"committing", "idle"}
    /\ faults' = faults + 1
    /\ \E n \in IF Appending THEN 0 .. Len(Candidate) - Len(job.timeline) ELSE {0} :
          file' = IF Appending THEN Written(n) ELSE file
    /\ view' = file /\ writer' = "closed" /\ active' = "none"
    /\ turn' = NoTurn /\ job' = Idle /\ token' = FALSE /\ lock' = FALSE
    /\ status' = Terminal("idle", FALSE) /\ partial' = FALSE
    /\ UNCHANGED units

(* The user opens the Session; the writer reads its file.                  *)
Open ==
    /\ AtAwait /\ active # "owner"
    /\ active' = "owner" /\ writer' = "open" /\ view' = file
    /\ UNCHANGED <<units, file, faults, turn, job, token, lock, public>>

(* The user goes to another Session: no Turn may run, a manual pass may.   *)
Navigate ==
    /\ AtAwait /\ turn = NoTurn /\ active = "owner"
    /\ job.phase # "idle"
    /\ active' = "other" /\ writer' = "closed"
    /\ job' = [job EXCEPT !.owns = FALSE]
    /\ UNCHANGED <<units, file, view, faults, turn, token, lock, public>>

Cancel ==
    /\ AtAwait /\ ~ token
    /\ job.phase # "idle"
    /\ token' = TRUE
    /\ UNCHANGED <<store, active, turn, job, lock, public>>

StartTurn ==
    /\ job.phase = "idle" /\ turn = NoTurn /\ units < MaxUnits
    /\ active = "owner" /\ writer = "open"
    /\ turn' = {} /\ token' = FALSE
    /\ UNCHANGED <<store, active, job, lock, public>>

(* The Turn's last message is durable: its unit is complete.               *)
EndTurn ==
    /\ job.phase = "idle" /\ turn # NoTurn
    /\ turn' = NoTurn
    /\ units' = units + 1
    /\ UNCHANGED <<file, view, writer, faults, active, job, token, lock, public>>

Pass ==
    \/ LimitsKnown \/ PlanEpoch \/ PlanAging
    \/ SummarizeEpoch \/ SummarizeOversized \/ SummarizeAging \/ SummaryCancelled
    \/ ValidateManual \/ ValidateAutomatic \/ ValidateAging
    \/ CommitRefused \/ CommitDurable \/ CommitAbsent \/ CommitUnknown
    \/ ContinueManual \/ ContinueAutomatic \/ PassRaises \/ TaskCancelled \/ EndPass

Next ==
    \/ Pass
    \/ BeginManual \/ BeginAuto \/ BeginOverflow \/ BeginAging \/ Rival
    \/ Crash \/ Open \/ Navigate \/ Cancel \/ StartTurn \/ EndTurn

Spec == Init /\ [][Next]_vars

(* Every await of a pass watches the token or is cancelled with its task.  *)
Fairness == WF_vars(token /\ Pass) /\ WF_vars(~ AtAwait /\ Pass)
FairSpec == Spec /\ Fairness
=============================================================================
