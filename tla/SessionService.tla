--------------------------- MODULE SessionService ---------------------------
(* ApplicationSessionService (application/sessions.py) of several Applications *)
(* over one store of Sessions (integrations/session_files.py): creating,       *)
(* resuming, switching, renaming, archiving, moving and closing Sessions under *)
(* the exclusive writer lock of each, with metadata writes that fail in every  *)
(* way and processes that die between two steps.                               *)
(*                                                                             *)
(* A Session is prepared first (its lock taken, its files read, its            *)
(* instruction scopes rebuilt) and replaces the active one in a second step;   *)
(* everything the other Applications do may come between.                      *)
EXTENDS Naturals, FiniteSets

CONSTANTS Services, SessionIds, Projects,
          ProjectOf,              \* the project of each Application
          Nobody, MaxTrouble      \* no Application or Session; bound on faults

ASSUME ServiceAssumption ==
  /\ ProjectOf \in [Services -> Projects]
  /\ Nobody \notin Services \cup SessionIds /\ MaxTrouble \in Nat

VARIABLES
  disk,       \* a Session's directory: made, its owner, whose scopes it stores
  lock,       \* writer.lock
  active,     \* _active of each Application's service
  unknown,    \* _durability_unknown of the active writer
  loader,     \* the Session whose scopes the InstructionLoader holds
  staged,     \* _StagedSession: the Session that was prepared, and for what
  receipts,   \* _move_receipts
  told,       \* the move the latest operation reported as done, if it was one
  trouble     \* faults so far (bounded)

serviceVars == <<disk, lock, active, unknown, loader, staged, receipts, told, trouble>>

Silent == <<Nobody, Nobody>>

Unmade == [made |-> "no", own |-> Nobody, scopes |-> Nobody]

ServiceInit ==
  /\ disk = [s \in SessionIds |-> Unmade] /\ lock = [s \in SessionIds |-> Nobody]
  /\ active = [a \in Services |-> Nobody] /\ unknown = [a \in Services |-> FALSE]
  /\ loader = [a \in Services |-> Nobody]
  /\ staged = [a \in Services |-> [kind |-> "none", ses |-> Nobody]]
  /\ receipts = [a \in Services |-> {}] /\ told = Silent /\ trouble = 0

----------------------------------------------------------------------------
(* _atomic_write_json and the reading that follows a failure: the new record   *)
(* is on disk or the old one, and after a failed reading nobody knows.         *)
Outcomes == [new : BOOLEAN, ok : BOOLEAN, known : BOOLEAN]
Writes == {o \in Outcomes : (o.ok => o.new /\ o.known) /\ (~o.ok => trouble < MaxTrouble)}

Spent(o) == trouble' = IF o.ok THEN trouble ELSE trouble + 1
Stored(s, record, o) == [disk EXCEPT ![s] = IF o.new THEN record ELSE @]
Idle(a) == staged[a].kind = "none"
Trouble == trouble < MaxTrouble /\ trouble' = trouble + 1

(* What _load_snapshot and the owner check accept, under the lock.            *)
Opens(s, p) == lock[s] = Nobody /\ disk[s].made = "yes" /\ disk[s].own = p

----------------------------------------------------------------------------
(* Preparing a new Session: the directory is there before its metadata.       *)
MakeDirectory(a, s) ==
  /\ Idle(a) /\ disk[s].made = "no"
  /\ disk' = [disk EXCEPT ![s].made = "bare"]
  /\ staged' = [staged EXCEPT ![a] = [kind |-> "making", ses |-> s]]
  /\ told' = Silent
  /\ UNCHANGED <<lock, active, unknown, loader, receipts, trouble>>

Record(a, s) == [made |-> "yes", own |-> ProjectOf[a], scopes |-> s]

StageCreate(a) ==
  LET s == staged[a].ses IN
  /\ staged[a].kind = "making"
  /\ \/ /\ disk' = [disk EXCEPT ![s] = Record(a, s)]
        /\ lock' = [lock EXCEPT ![s] = a]
        /\ staged' = [staged EXCEPT ![a].kind = "create"]
        /\ told' = Silent /\ UNCHANGED trouble
     \/ /\ Trouble                            \* the metadata or the opening failed
        /\ disk' \in {disk, [disk EXCEPT ![s] = Record(a, s)]}
        /\ staged' = [staged EXCEPT ![a] = [kind |-> "none", ses |-> Nobody]]
        /\ told' = Silent /\ UNCHANGED lock
  /\ UNCHANGED <<active, unknown, loader, receipts>>

(* Preparing a known Session: any failure gives the lock back.                *)
StageResume(a, s) ==
  /\ Idle(a) /\ active[a] # s
  /\ \/ /\ Opens(s, ProjectOf[a])
        /\ \E o \in Writes :
             /\ disk' = Stored(s, [disk[s] EXCEPT !.scopes = s], o) /\ Spent(o)
             /\ lock' = [lock EXCEPT ![s] = IF o.ok THEN a ELSE Nobody]
             /\ staged' = [staged EXCEPT ![a] = IF o.ok THEN [kind |-> "resume", ses |-> s] ELSE @]
             /\ told' = Silent
     \/ /\ ~Opens(s, ProjectOf[a])
        /\ told' = Silent /\ UNCHANGED <<disk, lock, staged, trouble>>
  /\ UNCHANGED <<active, unknown, loader, receipts>>

(* _sync_instruction_state of the Session that is left, then the switch.      *)
Abandon(a) ==
  /\ lock' = [lock EXCEPT ![staged[a].ses] = Nobody]
  /\ staged' = [staged EXCEPT ![a] = [kind |-> "none", ses |-> Nobody]]
  /\ told' = Silent

Switch(a, old) ==
  LET s == staged[a].ses IN
  /\ lock' = [t \in SessionIds |-> IF t = old THEN Nobody ELSE lock[t]]
  /\ active' = [active EXCEPT ![a] = s]
  /\ unknown' = [unknown EXCEPT ![a] = FALSE]
  /\ loader' = [loader EXCEPT ![a] = s]
  /\ staged' = [staged EXCEPT ![a] = [kind |-> "none", ses |-> Nobody]]
  /\ told' = Silent

CommitAdoptFirst(a) ==
  LET old == active[a] IN
  /\ staged[a].kind \in {"create", "resume"}
  /\ IF old = Nobody
     THEN Switch(a, Nobody) /\ UNCHANGED <<disk, trouble>>
     ELSE IF unknown[a] THEN Abandon(a) /\ UNCHANGED <<disk, trouble, active, unknown, loader>>
     ELSE \E o \in Writes :
            /\ disk' = Stored(old, [disk[old] EXCEPT !.scopes = staged[a].ses], o) /\ Spent(o)
            /\ IF o.ok THEN Switch(a, old)
               ELSE /\ Abandon(a) /\ unknown' = [unknown EXCEPT ![a] = ~o.known]
                    /\ loader' = [loader EXCEPT ![a] = staged[a].ses] /\ UNCHANGED active
  /\ UNCHANGED receipts

Commit(a) ==
  LET old == active[a] IN
  /\ staged[a].kind \in {"create", "resume"}
  /\ IF old = Nobody
     THEN Switch(a, Nobody) /\ UNCHANGED <<disk, trouble>>
     ELSE IF unknown[a] THEN Abandon(a) /\ UNCHANGED <<disk, trouble, active, unknown, loader>>
     ELSE \E o \in Writes :
            /\ disk' = Stored(old, [disk[old] EXCEPT !.scopes = loader[a]], o) /\ Spent(o)
            /\ IF o.ok THEN Switch(a, old)
               ELSE Abandon(a) /\ unknown' = [unknown EXCEPT ![a] = ~o.known] /\ UNCHANGED <<active, loader>>
  /\ UNCHANGED receipts

----------------------------------------------------------------------------
(* What is done to the Session that is open: resuming it again, changing its   *)
(* title or archive flag, which nothing here depends on and which are left     *)
(* out; the writer is the one that holds the lock.                             *)
Written(a, s, record, o) ==
  /\ disk' = Stored(s, record, o) /\ Spent(o)
  /\ unknown' = [unknown EXCEPT ![a] = ~o.known]

Refused == UNCHANGED <<disk, unknown, trouble>>

Refresh(a) ==
  LET s == active[a] IN
  /\ Idle(a) /\ s # Nobody
  /\ IF unknown[a] THEN Refused /\ UNCHANGED loader
     ELSE \E o \in Writes :
            Written(a, s, disk[s], o) /\ loader' = IF o.ok THEN [loader EXCEPT ![a] = disk[s].scopes] ELSE loader
  /\ told' = Silent
  /\ UNCHANGED <<lock, active, staged, receipts>>

UpdateMetadata(a, s) ==
  /\ Idle(a)
  /\ IF active[a] = s
     THEN IF unknown[a] THEN Refused ELSE \E o \in Writes : Written(a, s, disk[s], o)
     ELSE IF Opens(s, ProjectOf[a])
          THEN \E o \in Writes : Spent(o) /\ UNCHANGED <<disk, unknown>>
          ELSE Refused
  /\ told' = Silent
  /\ UNCHANGED <<lock, active, loader, staged, receipts>>

----------------------------------------------------------------------------
(* move_session: an open Session is synchronized, moved under its lock and     *)
(* given up; a receipt answers a repeated request, once the owner was checked. *)
Moved(s, p) == <<s, p>>
Receive(a, s, p) == receipts' = [receipts EXCEPT ![a] = @ \cup {<<s, p>>}]

MoveOpen(a, p) ==
  LET s == active[a] IN
  /\ Idle(a) /\ s # Nobody
  /\ IF unknown[a] \/ (disk[s].own # p /\ disk[s].own # ProjectOf[a])
     THEN Refused /\ told' = Silent /\ UNCHANGED <<active, lock, receipts>>
     ELSE \E o \in Writes :
            LET record == [disk[s] EXCEPT !.scopes = loader[a], !.own = p]
            IN /\ disk' = Stored(s, record, o) /\ Spent(o)
               /\ IF ~o.ok
                  THEN told' = Silent /\ unknown' = [unknown EXCEPT ![a] = ~o.known]
                       /\ UNCHANGED <<active, lock, receipts>>
                  ELSE /\ told' = Moved(s, p) /\ Receive(a, s, p) /\ UNCHANGED unknown
                       /\ IF disk[s].own = p THEN UNCHANGED <<active, lock>>
                          ELSE /\ active' = [active EXCEPT ![a] = Nobody]
                               /\ lock' = [lock EXCEPT ![s] = Nobody]
  /\ UNCHANGED <<loader, staged>>

MoveByReceipt(a, s, p) ==
  /\ Idle(a) /\ active[a] # s /\ <<s, p>> \in receipts[a]
  /\ told' = IF Opens(s, p) THEN Moved(s, p) ELSE Silent
  /\ UNCHANGED <<disk, lock, active, unknown, loader, staged, receipts, trouble>>

MoveClosed(a, s, p) ==
  /\ Idle(a) /\ active[a] # s /\ <<s, p>> \notin receipts[a]
  /\ IF Opens(s, ProjectOf[a])
     THEN \E o \in IF p = ProjectOf[a] THEN {o \in Writes : o.ok} ELSE Writes :
            /\ disk' = Stored(s, [disk[s] EXCEPT !.own = p], o) /\ Spent(o) /\ UNCHANGED unknown
            /\ told' = IF o.ok THEN Moved(s, p) ELSE Silent
            /\ IF o.ok THEN Receive(a, s, p) ELSE UNCHANGED receipts
     ELSE Refused /\ told' = Silent /\ UNCHANGED receipts
  /\ UNCHANGED <<lock, active, loader, staged>>

MoveSession(a, s, p) == (active[a] = s /\ MoveOpen(a, p)) \/ MoveByReceipt(a, s, p) \/ MoveClosed(a, s, p)

----------------------------------------------------------------------------
(* Closing; a quarantined Session is released without another write.          *)
Close(a) ==
  LET s == active[a] IN
  /\ Idle(a) /\ s # Nobody
  /\ \/ /\ unknown[a] \/ \E o \in Writes : o.ok /\ disk' = Stored(s, [disk[s] EXCEPT !.scopes = loader[a]], o)
        /\ unknown[a] => UNCHANGED disk
        /\ lock' = [lock EXCEPT ![s] = Nobody]
        /\ active' = [active EXCEPT ![a] = Nobody]
        /\ unknown' = [unknown EXCEPT ![a] = FALSE]
        /\ told' = Silent /\ UNCHANGED trouble
     \/ /\ ~unknown[a]
        /\ \E o \in Writes :
             /\ ~o.ok /\ disk' = Stored(s, [disk[s] EXCEPT !.scopes = loader[a]], o) /\ Spent(o)
             /\ unknown' = [unknown EXCEPT ![a] = ~o.known]
        /\ told' = Silent /\ UNCHANGED <<lock, active>>
  /\ UNCHANGED <<loader, staged, receipts>>

(* A Turn cannot tell whether its append is durable (_quarantine_...).        *)
Quarantine(a) ==
  /\ active[a] # Nobody /\ Idle(a) /\ ~unknown[a] /\ Trouble
  /\ unknown' = [unknown EXCEPT ![a] = TRUE] /\ told' = Silent
  /\ UNCHANGED <<disk, lock, active, loader, staged, receipts>>

(* The process dies and another one starts: the system drops its locks.       *)
Crash(a) ==
  /\ Trouble
  /\ lock' = [s \in SessionIds |-> IF lock[s] = a THEN Nobody ELSE lock[s]]
  /\ active' = [active EXCEPT ![a] = Nobody] /\ unknown' = [unknown EXCEPT ![a] = FALSE]
  /\ loader' = [loader EXCEPT ![a] = Nobody] /\ receipts' = [receipts EXCEPT ![a] = {}]
  /\ staged' = [staged EXCEPT ![a] = [kind |-> "none", ses |-> Nobody]]
  /\ told' = Silent
  /\ UNCHANGED disk

ServiceStep(a) ==
  \/ StageCreate(a) \/ Commit(a) \/ Refresh(a) \/ Close(a) \/ Quarantine(a) \/ Crash(a)
  \/ \E s \in SessionIds :
       \/ MakeDirectory(a, s) \/ StageResume(a, s) \/ UpdateMetadata(a, s)
       \/ \E p \in Projects : MoveSession(a, s, p)

ServiceNext == \E a \in Services : ServiceStep(a)
ServiceSpec == ServiceInit /\ [][ServiceNext]_serviceVars

----------------------------------------------------------------------------
(* A Session is locked exactly while an Application has it open or is about    *)
(* to: after every failure, crash and switch no lock stays behind, and nobody  *)
(* writes without one.                                                         *)
Uses(a) == {active[a]} \cup (IF staged[a].kind \in {"create", "resume"} THEN {staged[a].ses} ELSE {})
LocksAreInUse == \A s \in SessionIds, a \in Services : lock[s] = a <=> s \in Uses(a)

(* The instruction scopes stored with a Session, and those an Application      *)
(* works with, are those of this Session, however a switch ends.               *)
ScopesFollowSession ==
  /\ \A s \in SessionIds : disk[s].made = "yes" => disk[s].scopes = s
  /\ \A a \in Services : active[a] # Nobody => loader[a] = active[a]

(* A move that is reported as done is true when it is reported, also when the  *)
(* answer comes from the receipt of an earlier one.                            *)
MovesAreTrue == told # Silent => disk[told[1]].own = told[2]

(* All three: Sessions, locks, scopes and projects agree.                      *)
SessionsAgree == LocksAreInUse /\ ScopesFollowSession /\ MovesAreTrue
=============================================================================
