---------------------------- MODULE DesktopReads ----------------------------
(* The two reads that the desktop bridge lets run while it goes on: the review *)
(* of a workspace (workspace.diff) and the search in Sessions.  Each has a task *)
(* of the bridge, a thread that reads and a token; the window gets the answer  *)
(* as one event.  In between the window selects another project, mode or       *)
(* Session, changes the catalogue of registered projects, cancels, or closes.  *)
EXTENDS Naturals, FiniteSets

CONSTANTS
  ReadOwners, General,      \* the projects, and the owner of the Sessions of General mode
  Found, OwnerOf, LastUsed, \* Sessions that match, their owners, when they were last used
  MaxHits, MaxDiffs, MaxSearches,
  NoEvent,
  MaxOps, MaxApps, MaxErrors, MaxRevisions  \* bounds: reads, Applications, failing threads

ASSUME ReadsAssumption ==
  /\ General \in ReadOwners /\ OwnerOf \in [Found -> ReadOwners] /\ MaxHits \in Nat \ {0}
  /\ IsFiniteSet(Found) /\ LastUsed \in [Found -> Nat]
  /\ \A s, t \in Found : LastUsed[s] = LastUsed[t] => s = t
  /\ NoEvent \notin {"completed", "stale", "cancelled", "failed"}

VARIABLES
  bridge,     \* "open", "closing" (the shutdown waits for the tasks), "closed", or
              \* "failed" (an Application could not be closed, and nothing more is done)
  selected,   \* _application
  ownerOfApp, \* the owner that an Application was built for
  catalogue,  \* _catalog_project_keys
  revision,   \* _owner_revision
  reads,      \* the operations, by number; they leave the bridge's tables when done
  serving,    \* the read whose end the request being served waits for, or 0
  errors
readsVars == <<bridge, selected, ownerOfApp, catalogue, revision, reads, serving, errors>>

Numbers == DOMAIN reads
Ongoing(kind) == {o \in Numbers : reads[o].kind = kind /\ reads[o].event = NoEvent}
Live == Ongoing("diff") \cup Ongoing("search")
CurrentOwner == ownerOfApp[selected]
Mode(app) == IF ownerOfApp[app] = General THEN "general" ELSE "coding"

CurrentSearchScope == IF CurrentOwner = General THEN {General} \cap catalogue ELSE catalogue \ {General}

Open == bridge = "open" /\ serving = 0

SetCatalogue(c, bump) ==
  /\ catalogue' = c
  /\ revision' = IF bump THEN revision + 1 ELSE revision
  /\ revision' <= MaxRevisions

(* silent: the catalogue was changed under the running reads without a new     *)
(* revision.                                                                   *)
Silently(c) ==
  [o \in Numbers |-> IF o \in Live /\ c # catalogue THEN [reads[o] EXCEPT !.silent = TRUE] ELSE reads[o]]

NewRead(kind, scope) ==
  [kind |-> kind, app |-> selected, owner |-> CurrentOwner, revision |-> revision', scope |-> scope,
   token |-> FALSE, asked |-> FALSE, abandoned |-> FALSE, worker |-> "reading",
   left |-> IF kind = "search" THEN {s \in Found : OwnerOf[s] \in scope} ELSE {},
   unread |-> {}, hits |-> {}, matched |-> 0, more |-> FALSE, event |-> NoEvent, silent |-> FALSE]

\* What remains of a read is its answer, which carries what it found only when it was completed.
Answered(r, event) ==
  [kind |-> r.kind, event |-> event, hits |-> IF event = "completed" THEN r.hits ELSE {},
   unread |-> IF event = "completed" THEN r.unread ELSE {},
   more |-> event = "completed" /\ r.more, worker |-> "done"]

Add(table, read) == [o \in DOMAIN table \cup {Cardinality(DOMAIN table) + 1} |->
                       IF o \in DOMAIN table THEN table[o] ELSE read]

----------------------------------------------------------------------------
ReadsInit ==
  /\ bridge = "open" /\ selected = 1
  /\ \E p \in ReadOwners : /\ ownerOfApp = [a \in {1} |-> p]
                          /\ catalogue = (ReadOwners \ {General}) \cup {p}
  /\ revision = 1 /\ reads = [o \in {} |-> NoEvent] /\ serving = 0 /\ errors = 0

\* workspace.diff brings the catalogue; a review of what is not in it is refused after that.
WorkspaceDiff(c, p) ==
  /\ Open /\ Mode(selected) = "coding" /\ Cardinality(Numbers) < MaxOps
  /\ SetCatalogue(c, c # catalogue)
  /\ reads' = IF p \in c \ {General} /\ Cardinality(Ongoing("diff")) < MaxDiffs
                THEN Add(reads, NewRead("diff", {p})) ELSE reads
  /\ UNCHANGED <<bridge, selected, ownerOfApp, serving, errors>>

\* session.search may bring one as well, and does not count it as a change.
SessionSearch(c) ==
  /\ Open /\ Cardinality(Numbers) < MaxOps
  /\ SetCatalogue(c, FALSE)
  /\ LET scope == IF CurrentOwner = General THEN {General} \cap c ELSE c \ {General}
         refused == (CurrentOwner = General /\ General \notin c) \/ Cardinality(Ongoing("search")) >= MaxSearches
     IN reads' = IF refused THEN Silently(c) ELSE Add(Silently(c), NewRead("search", scope))
  /\ UNCHANGED <<bridge, selected, ownerOfApp, serving, errors>>

\* workspace.diff.cancel answers when the review has ended, session.search.cancel at once.
CancelRead(o) ==
  /\ Open /\ o \in Live
  /\ reads' = [reads EXCEPT ![o].token = TRUE, ![o].asked = TRUE]
  /\ serving' = IF reads[o].kind = "diff" THEN o ELSE 0
  /\ UNCHANGED <<bridge, selected, ownerOfApp, catalogue, revision, errors>>

SelectNew(p) ==
  /\ Cardinality(DOMAIN ownerOfApp) < MaxApps
  /\ ownerOfApp' = [a \in DOMAIN ownerOfApp \cup {Cardinality(DOMAIN ownerOfApp) + 1} |->
                      IF a \in DOMAIN ownerOfApp THEN ownerOfApp[a] ELSE p]
  /\ selected' = Cardinality(DOMAIN ownerOfApp) + 1
  /\ UNCHANGED <<bridge, reads, serving, errors>>

NewApp(p, c) == SelectNew(p) /\ SetCatalogue(c \cup {p}, TRUE)

ProjectOpen(p, c) == Open /\ p # General /\ NewApp(p, c)

\* general.open in General mode only takes over the catalogue.
GeneralOpen(c) ==
  /\ Open
  /\ IF Mode(selected) = "general"
       THEN /\ SetCatalogue(c \cup {General}, FALSE) /\ reads' = Silently(c \cup {General})
            /\ UNCHANGED <<bridge, selected, ownerOfApp, serving, errors>>
       ELSE NewApp(General, c)

(* runtime.initialize takes over the catalogue first.  Of the mode that is     *)
(* selected it does no more; to the other it goes as general.open and          *)
(* project.open do, which may fail and leave the catalogue as it is by then.   *)
RuntimeInitialize(c, mode) ==
  /\ Open
  /\ LET all == IF mode = "general" THEN c \cup {General} ELSE c
     IN SetCatalogue(all, all # catalogue)
  /\ UNCHANGED <<bridge, selected, ownerOfApp, reads, serving, errors>>

InitializeOther(p, c) ==
  /\ Open /\ (p = General) # (Mode(selected) = "general")
  /\ SelectNew(p) /\ catalogue' = c \cup {p}
  /\ revision' = revision + (IF c \cup {p} = catalogue THEN 1 ELSE 2) /\ revision' <= MaxRevisions

\* session.new, or a resumed Session that was prepared: an Application of its own, and
\* neither counts as a new revision.
SessionNew == Open /\ SelectNew(CurrentOwner) /\ UNCHANGED <<catalogue, revision>>

\* A Session of another Application is resumed: that one is selected again.
ActivateRuntime(a) ==
  /\ Open /\ a # selected /\ selected' = a
  /\ UNCHANGED <<bridge, ownerOfApp, catalogue, revision, reads, serving, errors>>

----------------------------------------------------------------------------
(* The threads look at the token between two steps, and once more at the end.  *)
ThreadOf(o) == o \in Live /\ reads[o].worker = "reading"

Newest(hits) == {s \in hits : Cardinality({t \in hits : LastUsed[t] > LastUsed[s]}) < MaxHits}

ScanOne(o) ==
  /\ ThreadOf(o) /\ ~reads[o].token
  /\ \E s \in reads[o].left :
       reads' = [reads EXCEPT ![o].left = @ \ {s}, ![o].hits = Newest(@ \cup {s}), ![o].matched = @ + 1]
  /\ UNCHANGED <<bridge, selected, ownerOfApp, catalogue, revision, serving, errors>>

\* The history of a Session cannot be read: the search counts it and goes on.
ScanFails(o) ==
  /\ ThreadOf(o) /\ ~reads[o].token /\ errors < MaxErrors /\ errors' = errors + 1
  /\ \E s \in reads[o].left :
       reads' = [reads EXCEPT ![o].left = @ \ {s}, ![o].unread = @ \cup {s}]
  /\ UNCHANGED <<bridge, selected, ownerOfApp, catalogue, revision, serving>>

ThreadEnds(o) ==
  /\ ThreadOf(o) /\ reads[o].left = {} /\ ~reads[o].token
  /\ reads' = [reads EXCEPT ![o].worker = "read", ![o].more = reads[o].matched > MaxHits]
  /\ UNCHANGED <<bridge, selected, ownerOfApp, catalogue, revision, serving, errors>>

ThreadIsCancelled(o) ==
  /\ ThreadOf(o) /\ reads[o].token
  /\ reads' = [reads EXCEPT ![o].worker = "cancelled"]
  /\ UNCHANGED <<bridge, selected, ownerOfApp, catalogue, revision, serving, errors>>

ThreadFails(o) ==
  /\ ThreadOf(o) /\ errors < MaxErrors /\ errors' = errors + 1
  /\ reads' = [reads EXCEPT ![o].worker = "failed"]
  /\ UNCHANGED <<bridge, selected, ownerOfApp, catalogue, revision, serving>>

----------------------------------------------------------------------------
\* Mutant: only another Application makes a read stale.
IsStaleByApp(r) == selected # r.app

IsStale(r) == revision # r.revision \/ selected # r.app \/ CurrentOwner # r.owner

(* A failing search is not asked whether it is stale.                          *)
Outcome(r) ==
  IF r.abandoned \/ r.token THEN "cancelled"
  ELSE IF r.worker = "read" THEN IF IsStale(r) THEN "stale" ELSE "completed"
  ELSE IF r.kind = "diff" /\ IsStale(r) THEN "stale" ELSE "failed"

\* Mutant: a cancelled task answers without its thread.
TaskEndsAtOnce(o) ==
  /\ o \in Live /\ (reads[o].worker # "reading" \/ reads[o].abandoned)
  /\ reads' = [reads EXCEPT ![o] = [Answered(reads[o], Outcome(reads[o])) EXCEPT !.worker = reads[o].worker]]
  /\ serving' = IF serving = o THEN 0 ELSE serving
  /\ UNCHANGED <<bridge, selected, ownerOfApp, catalogue, revision, errors>>

\* The task goes on when the thread has ended: it decides and publishes in one step.
TaskEnds(o) ==
  /\ o \in Live /\ reads[o].worker # "reading"
  /\ reads' = [reads EXCEPT ![o] = Answered(reads[o], Outcome(reads[o]))]
  /\ serving' = IF serving = o THEN 0 ELSE serving
  /\ UNCHANGED <<bridge, selected, ownerOfApp, catalogue, revision, errors>>

Shutdown ==
  /\ Open /\ bridge' = "closing"
  /\ reads' = [o \in Numbers |-> IF o \in Live THEN [reads[o] EXCEPT !.token = TRUE] ELSE reads[o]]
  /\ UNCHANGED <<selected, ownerOfApp, catalogue, revision, serving, errors>>

\* A task that does not end in time is cancelled; it cancels its thread and waits for it.
ShutdownTimesOut(o) ==
  /\ bridge = "closing" /\ o \in Live /\ ~reads[o].abandoned
  /\ reads' = [reads EXCEPT ![o].abandoned = TRUE, ![o].token = TRUE]
  /\ UNCHANGED <<bridge, selected, ownerOfApp, catalogue, revision, serving, errors>>

\* The Applications are closed when every task has ended; the first that cannot be is the last.
CloseApplications ==
  /\ bridge = "closing" /\ Live = {}
  /\ bridge' \in {"closed", "failed"}
  /\ UNCHANGED <<selected, ownerOfApp, catalogue, revision, reads, serving, errors>>

ReadsNext ==
  \/ \E c \in SUBSET ReadOwners :
        \/ \E p \in ReadOwners : WorkspaceDiff(c, p) \/ ProjectOpen(p, c) \/ InitializeOther(p, c)
        \/ \E mode \in {"coding", "general"} : RuntimeInitialize(c, mode)
        \/ SessionSearch(c) \/ GeneralOpen(c)
  \/ SessionNew
  \/ \E a \in DOMAIN ownerOfApp : ActivateRuntime(a)
  \/ \E o \in Numbers : \/ CancelRead(o) \/ ScanOne(o) \/ ScanFails(o) \/ ThreadEnds(o) \/ ThreadIsCancelled(o)
                        \/ ThreadFails(o) \/ TaskEnds(o) \/ ShutdownTimesOut(o)
  \/ Shutdown \/ CloseApplications

ReadsSpec == ReadsInit /\ [][ReadsNext]_readsVars

----------------------------------------------------------------------------
(* A read is answered as completed only if nobody cancelled it and what it     *)
(* shows is of the Application and of projects that are still selected and     *)
(* registered, unless a request changed the catalogue without saying so        *)
(* (bridge.py 2192 and 2765); a search shows the newest of all that match and  *)
(* could be read, and says so when there are more (bridge.py 2118 and 2266,    *)
(* sessions.py 1285).                                                          *)
AnswersAreCurrent ==
  [][\A o \in Live : reads'[o].event = "completed" =>
       /\ ~reads[o].asked /\ selected = reads[o].app
       /\ \/ reads[o].silent
          \/ {OwnerOf[s] : s \in reads'[o].hits} \cup (IF reads[o].kind = "diff" THEN reads[o].scope ELSE {})
               \subseteq CurrentSearchScope
       /\ reads[o].kind = "search" =>
            LET all == {s \in Found \ reads'[o].unread : OwnerOf[s] \in reads[o].scope}
                hits == reads'[o].hits
            IN /\ \A s \in all \ hits : Cardinality({t \in hits : LastUsed[t] > LastUsed[s]}) = MaxHits
               /\ reads'[o].more = (hits # all)]_readsVars

(* When the bridge closes its Applications, no thread of a read is running and *)
(* every read was answered (bridge.py 5318, generation.py 1374).               *)
NoReaderOutlives ==
  bridge \in {"closed", "failed"} => Live = {} /\ \A o \in Numbers : reads[o].worker # "reading"
=============================================================================
