--------------------------- MODULE DesktopRuntimes ---------------------------
(* The runtime registry of the Desktop bridge (interfaces/desktop/bridge.py):  *)
(* which Application serves the Session on screen, which Applications live on  *)
(* in the background, and when one of them is closed.                          *)
(*                                                                             *)
(* Everything runs on one event loop.  Requests are handled one at a time, so  *)
(* a handler is one action; what interleaves with requests are the tasks the   *)
(* bridge has started: one per Turn (_consume_turn), one per manual compaction *)
(* and one per cold Session that is being prepared.  _active_handle and        *)
(* _turn_task are set and cleared together and are the one variable handle.    *)
EXTENDS Naturals, FiniteSets, Functions

CONSTANTS Sessions, Projects, General, Null,
          Home,                   \* the project the first Sessions belong to
          MaxApps, MaxTurns, MaxSaves, MaxFaults    \* bounds of the model

ASSUME DesktopAssumption ==
  /\ Home \in Projects /\ General \notin Projects /\ Null \notin Sessions \cup Projects \cup {General}
  /\ {MaxApps, MaxTurns, MaxSaves, MaxFaults} \subseteq Nat /\ MaxApps > 0
  /\ Sessions \cap 1..MaxApps = {}       \* no Session is called "@application:..."

Apps == 1..MaxApps
NoApp == 0
Turns == 1..MaxTurns
NoTurn == 0
Owners == Projects \cup {General}
Keys == Sessions \cup Apps       \* a Session, or "@application:<id>"

VARIABLES
  bridge,     \* _state: new, ready, stopping, closing, stopped, failed
  current,    \* _application
  workdir,    \* _workdir, the project opened last
  handle,     \* _active_handle and _turn_task
  bg,         \* _background_runtimes: key -> entry
  apps,       \* every Application ever built: open, closed or stuck, its Session
  procs,      \* has_live_processes() of an Application
  applied,    \* _configuration_application_states
  saves,      \* settings.save requests so far (bounded)
  turns,      \* Turns and the tasks that consume them
  comp,       \* _compaction_operations: Session -> the Application, while it runs
  prep,       \* preparation tasks, named by the Application they build
  cut,        \* tasks that shutdown has cancelled after its bounded wait
  waiting,    \* what shutdown still waits for or has to close
  store       \* the durable Sessions: their owner, or Null

vars == <<bridge, current, workdir, handle, bg, apps, procs, applied, saves, turns, comp, prep, cut, waiting, store>>

TurnEnd == {"completed", "failed", "cancelled"}
NoRun == [st |-> "none", app |-> NoApp, key |-> Null, stop |-> FALSE]
Live(n) == turns[n].st \in {"running", "paused", "ending"}
Preparing(c) == c # NoApp /\ prep[c].st \in {"cloning", "opening", "installing"}

Init ==
  /\ bridge = "new" /\ current = NoApp /\ workdir = Home
  /\ handle = NoTurn /\ bg = <<>> /\ cut = {} /\ waiting = {} /\ saves = 0
  /\ apps = [a \in Apps |-> [st |-> "none", ses |-> Null, own |-> Home, bad |-> FALSE]]
  /\ procs = [a \in Apps |-> FALSE] /\ applied = [a \in Apps |-> "none"]
  /\ turns = [n \in Turns |-> NoRun]
  /\ comp = [s \in Sessions |-> NoApp]
  /\ prep = [a \in Apps |-> [st |-> "none", ses |-> Null]]
  /\ \E old \in SUBSET Sessions : store = [s \in Sessions |-> IF s \in old THEN Home ELSE Null]

----------------------------------------------------------------------------
(* The registry as a value: the helpers of the handlers map one to the next.  *)
Here == [current |-> current, handle |-> handle, bg |-> bg, apps |-> apps, procs |-> procs, comp |-> comp]

Become(S) ==
  /\ current' = S.current /\ handle' = S.handle /\ bg' = S.bg
  /\ apps' = S.apps /\ procs' = S.procs /\ comp' = S.comp

Entry(a, h, status, keep, own) ==
  [app |-> a, handle |-> h, prep |-> NoApp, status |-> status, retain |-> keep, own |-> own, told |-> FALSE]

Put(registry, k, e) == [j \in DOMAIN registry \cup {k} |-> IF j = k THEN e ELSE registry[j]]

(* Remember files the selected runtime under its Session, or under its own    *)
(* name while it has none; an entry filed there before gives way.             *)
KeyOf(S) == IF S.apps[S.current].ses = Null THEN S.current ELSE S.apps[S.current].ses

StatusAt(S, k, reset) ==
  IF ~reset /\ k \in DOMAIN S.bg THEN S.bg[k].status
  ELSE IF S.handle = NoTurn THEN "idle" ELSE "running"

RememberRunning(S, reset) ==
  IF S.current = NoApp \/ S.handle = NoTurn THEN S
  ELSE LET e == Entry(S.current, S.handle, StatusAt(S, KeyOf(S), reset), FALSE, S.apps[S.current].own)
       IN [S EXCEPT !.bg = Put(@, KeyOf(S), e)]

Remember(S, reset) ==
  IF S.current = NoApp THEN S
  ELSE LET k == KeyOf(S)
           e == Entry(S.current, S.handle, StatusAt(S, k, reset), S.procs[S.current], S.apps[S.current].own)
       IN [S EXCEPT !.bg = Put(@, k, e)]

Activate(S, k) ==
  [S EXCEPT !.current = S.bg[k].app, !.handle = S.bg[k].handle, !.bg[k].retain = FALSE]

(* Application.close: the Session's instruction state is saved first; if that *)
(* raises, the Session stays open and its file stays locked.                  *)
Closed(app) ==
  IF app.bad /\ app.ses # Null THEN [app EXCEPT !.st = "stuck"] ELSE [app EXCEPT !.st = "closed", !.ses = Null]

Close(S, A) ==
  [S EXCEPT !.apps = [a \in Apps |-> IF a \in A THEN Closed(@[a]) ELSE @[a]],
            !.procs = [a \in Apps |-> @[a] /\ a \notin A]]

Compacting(S, k) == k \in Sessions /\ S.comp[k] # NoApp

IdleByStatus(S, k) ==
  LET e == S.bg[k] IN
  /\ e.app # S.current /\ ~e.retain
  /\ ~Compacting(S, k)
  /\ ~Preparing(e.prep)
  /\ e.status \in {"idle"} \cup TurnEnd

Idle(S, k) ==
  LET e == S.bg[k] IN
  /\ e.app # S.current /\ ~e.retain /\ e.handle = NoTurn
  /\ ~(e.app # NoApp /\ S.procs[e.app])
  /\ ~Compacting(S, k)
  /\ ~Preparing(e.prep)
  /\ e.status \in {"idle"} \cup TurnEnd

Reclaim(S) ==
  LET K == {k \in DOMAIN S.bg : Idle(S, k)}
  IN Close([S EXCEPT !.bg = Restrict(@, DOMAIN @ \ K)], {S.bg[k].app : k \in K})

CurrentCompaction(S) ==
  S.current # NoApp /\ \E s \in Sessions : S.apps[S.current].ses = s /\ S.comp[s] = S.current

----------------------------------------------------------------------------
(* Configuration reaches an Application between its Turns.                    *)
Loaded(S) == ({S.current} \cup {S.bg[k].app : k \in DOMAIN S.bg}) \ {NoApp}

Busy(S, a) ==
  \/ S.current = a /\ S.handle # NoTurn
  \/ \E k \in DOMAIN S.bg : S.bg[k].app = a /\ (S.bg[k].handle # NoTurn \/ Preparing(S.bg[k].prep))
  \/ \E s \in Sessions : S.comp[s] = a

(* Each loaded Application for which a write is outstanding: busy ones wait,  *)
(* the others reload, which may fail; the states of unloaded ones are dropped.*)
Applied(S, due, ok) ==
  [a \in Apps |-> IF a \notin Loaded(S) THEN "none"
                  ELSE IF a \notin due THEN applied[a]
                  ELSE IF Busy(S, a) THEN "pending"
                  ELSE IF ok THEN "applied" ELSE "failed"]

Due == {a \in Apps : applied[a] \in {"pending", "failed"}}
Drain(S) == \E ok \in BOOLEAN : applied' = Applied(S, Due, ok) /\ (Due = {} => ok)

SettingsSave ==
  /\ bridge = "ready" /\ saves < MaxSaves
  /\ saves' = saves + 1
  /\ \E ok \in BOOLEAN : applied' = Applied(Here, Loaded(Here), ok)
  /\ UNCHANGED <<bridge, current, workdir, handle, bg, apps, procs, turns, comp, prep, cut, waiting, store>>

SettingsRetryApply ==
  /\ bridge = "ready" /\ \E a \in Loaded(Here) : applied[a] = "failed"
  /\ Drain(Here)
  /\ UNCHANGED <<bridge, current, workdir, handle, bg, apps, procs, saves, turns, comp, prep, cut, waiting, store>>

----------------------------------------------------------------------------
(* Opening a project or General, and new Sessions.                            *)
Ready == bridge = "ready" /\ current # NoApp
Fresh == CHOOSE a \in Apps : apps[a].st = "none" /\ prep[a].st = "none"
AppLeft == \E a \in Apps : apps[a].st = "none" /\ prep[a].st = "none"
SessionLeft == \E s \in Sessions : store[s] = Null
NewSession == CHOOSE s \in Sessions : store[s] = Null
Faults == Cardinality({a \in Apps : apps[a].bad})
Flaky == IF Faults < MaxFaults THEN BOOLEAN ELSE {FALSE}
Built(own, ses, bad) == [st |-> "open", ses |-> ses, own |-> own, bad |-> bad]

RuntimeInitialize ==
  /\ bridge = "new"
  /\ \/ bridge' = "failed" /\ UNCHANGED <<current, apps>>
     \/ \E bad \in Flaky :
          /\ bridge' = "ready" /\ current' = Fresh
          /\ apps' = [apps EXCEPT ![Fresh] = Built(Home, Null, bad)]
  /\ UNCHANGED <<workdir, handle, bg, procs, applied, saves, turns, comp, prep, cut, waiting, store>>

(* The old Application is parked while anything runs, else closed, and the    *)
(* candidate is dropped if that close fails.                                  *)
MustPark == handle # NoTurn \/ CurrentCompaction(Here) \/ \E k \in DOMAIN bg : bg[k].handle # NoTurn

OpenOwner(own) ==
  /\ Ready /\ AppLeft
  /\ own = General => apps[current].own # General
  /\ \E bad \in Flaky :
       LET c == Fresh
           S0 == [Here EXCEPT !.apps[c] = Built(own, Null, bad)]
           S1 == IF MustPark THEN Remember(S0, FALSE) ELSE Close(S0, {current})
           kept == ~MustPark /\ S1.apps[current].st = "stuck"
       IN IF kept THEN Become([Here EXCEPT !.apps[c] = Closed(S0.apps[c])]) /\ UNCHANGED <<workdir>>
          ELSE /\ Become(Reclaim([S1 EXCEPT !.current = c, !.handle = NoTurn]))
               /\ workdir' = IF own = General THEN workdir ELSE own
  /\ UNCHANGED <<bridge, applied, saves, turns, prep, cut, waiting, store>>

ProjectOpen == \E p \in Projects : OpenOwner(p)
GeneralOpen == OpenOwner(General)

SessionNew ==
  /\ Ready /\ AppLeft /\ SessionLeft
  /\ \E bad \in Flaky :
       LET c == Fresh
           s == NewSession
           S0 == Remember([Here EXCEPT !.apps[c] = Built(apps[current].own, s, bad)], FALSE)
           S1 == [S0 EXCEPT !.bg = Put(@, s, Entry(c, NoTurn, "idle", FALSE, apps[current].own))]
       IN Become(Reclaim(Activate(S1, s))) /\ store' = [store EXCEPT ![s] = apps[current].own]
  /\ UNCHANGED <<bridge, workdir, applied, saves, turns, prep, cut, waiting>>

----------------------------------------------------------------------------
(* Going back to a Session: it is on screen, in the background, or cold.      *)
Serves(s) == apps[current].ses = s

ResumeShown(s) ==
  /\ Ready /\ Serves(s)
  /\ Become(Reclaim(Here))
  /\ UNCHANGED <<bridge, workdir, applied, saves, turns, prep, cut, waiting, store>>

Known(s) == s \in DOMAIN bg /\ bg[s].own = store[s]

ResumeBackground(s) ==
  /\ Ready /\ ~Serves(s) /\ Known(s)
  /\ bg[s].status \notin {"preparing", "failed", "cancelled"}
  /\ bg[s].app # NoApp
  /\ Become(Reclaim(Activate(Remember(Here, FALSE), s)))
  /\ UNCHANGED <<bridge, workdir, applied, saves, turns, prep, cut, waiting, store>>

ResumeTold(s) ==                          \* a failure is reported once
  /\ Ready /\ ~Serves(s) /\ Known(s)
  /\ bg[s].status \in {"failed", "cancelled"} /\ ~bg[s].told
  /\ bg' = [bg EXCEPT ![s].told = TRUE]
  /\ UNCHANGED <<bridge, current, workdir, handle, apps, procs, applied, saves, turns, comp, prep, cut, waiting, store>>

(* The placeholder of a cold Session; its task builds the Application for the *)
(* project opened last, or for General.                                       *)
PreparedOwner == IF apps[current].own = General THEN General ELSE workdir

ResumeCold(s) ==
  /\ Ready /\ AppLeft /\ ~Serves(s)
  /\ IF s \in DOMAIN bg
     THEN Known(s) /\ bg[s].status \in {"failed", "cancelled"} /\ bg[s].told
     ELSE store[s] = apps[current].own
  /\ LET S == Remember([Here EXCEPT !.bg = Restrict(@, DOMAIN @ \ {s})], FALSE)
         e == [Entry(NoApp, NoTurn, "preparing", TRUE, apps[current].own) EXCEPT !.prep = Fresh]
     IN Become([S EXCEPT !.bg = Put(@, s, e), !.apps[Fresh].own = PreparedOwner])
  /\ prep' = [prep EXCEPT ![Fresh] = [st |-> "cloning", ses |-> s]]
  /\ UNCHANGED <<bridge, workdir, applied, saves, turns, cut, waiting, store>>

----------------------------------------------------------------------------
(* The task of a cold Session.  A step that runs in a worker thread finishes  *)
(* even when the task is cancelled; the candidate is then closed.             *)
Locked(s) == \E a \in Apps : apps[a].st \in {"open", "stuck"} /\ apps[a].ses = s
Placeholder(c) == prep[c].ses \in DOMAIN bg /\ bg[prep[c].ses].prep = c
Task(c) == <<"prep", c>>

PrepEnds(c, status) ==
  /\ prep' = [prep EXCEPT ![c] = [st |-> "done", ses |-> Null]]
  /\ apps' = IF apps[c].st = "open" THEN [apps EXCEPT ![c] = Closed(@)] ELSE apps
  /\ bg' = IF Placeholder(c)
           THEN [bg EXCEPT ![prep[c].ses].status = status, ![prep[c].ses].prep = NoApp] ELSE bg

PrepClone(c) ==
  /\ prep[c].st = "cloning"
  /\ \/ /\ Task(c) \notin cut
        /\ \E bad \in Flaky : apps' = [apps EXCEPT ![c] = Built(apps[c].own, Null, bad)]
        /\ prep' = [prep EXCEPT ![c].st = "opening"] /\ UNCHANGED bg
     \/ PrepEnds(c, IF Task(c) \in cut THEN "cancelled" ELSE "failed")
  /\ UNCHANGED <<bridge, current, workdir, handle, procs, applied, saves, turns, comp, cut, waiting, store>>

PrepOpen(c) ==
  /\ prep[c].st = "opening"
  /\ \/ /\ Task(c) \notin cut /\ ~Locked(prep[c].ses) /\ store[prep[c].ses] = apps[c].own
        /\ apps' = [apps EXCEPT ![c].ses = prep[c].ses]
        /\ prep' = [prep EXCEPT ![c].st = "installing"] /\ UNCHANGED bg
     \/ PrepEnds(c, IF Task(c) \in cut THEN "cancelled" ELSE "failed")
  /\ UNCHANGED <<bridge, current, workdir, handle, procs, applied, saves, turns, comp, cut, waiting, store>>

PrepInstall(c) ==
  /\ prep[c].st = "installing"
  /\ IF Placeholder(c) /\ Task(c) \notin cut
     THEN /\ bg' = [bg EXCEPT ![prep[c].ses] = [@ EXCEPT !.app = c, !.prep = NoApp, !.status = "idle"]]
          /\ prep' = [prep EXCEPT ![c] = [st |-> "done", ses |-> Null]] /\ UNCHANGED apps
     ELSE PrepEnds(c, "cancelled")
  /\ UNCHANGED <<bridge, current, workdir, handle, procs, applied, saves, turns, comp, cut, waiting, store>>

----------------------------------------------------------------------------
(* Turns.                                                                     *)
NextTurn == CHOOSE n \in Turns : turns[n].st = "none"
TurnLeft == \E n \in Turns : turns[n].st = "none"

(* ensure_session gives the Application a Session before its first Turn.      *)
Ensured(S, s) == [S EXCEPT !.apps[S.current].ses = s, !.apps[S.current].st = "open"]

TurnStart ==
  /\ Ready /\ handle = NoTurn /\ ~CurrentCompaction(Here) /\ TurnLeft
  /\ apps[current].ses = Null => SessionLeft
  /\ LET s == IF apps[current].ses = Null THEN NewSession ELSE apps[current].ses
         n == NextTurn
     IN /\ Become(Remember([Ensured(Here, s) EXCEPT !.handle = n], TRUE))
        /\ turns' = [turns EXCEPT ![n] = [st |-> "running", app |-> current, key |-> s, stop |-> FALSE]]
       
        /\ store' = IF apps[current].ses = Null THEN [store EXCEPT ![s] = apps[current].own] ELSE store
  /\ UNCHANGED <<bridge, workdir, applied, saves, prep, cut, waiting>>

TurnCancel ==
  /\ Ready /\ handle # NoTurn /\ turns[handle].st \in {"running", "paused"}
  /\ turns' = [turns EXCEPT ![handle].stop = TRUE]
  /\ UNCHANGED <<bridge, current, workdir, handle, bg, apps, procs, applied, saves, comp, prep, cut, waiting, store>>

TurnResume ==
  /\ Ready /\ handle # NoTurn /\ turns[handle].st = "paused"
  /\ turns' = [turns EXCEPT ![handle].st = "running"]
  /\ bg' = IF turns[handle].key \in DOMAIN bg THEN [bg EXCEPT ![turns[handle].key].status = "running"] ELSE bg
  /\ UNCHANGED <<bridge, current, workdir, handle, apps, procs, applied, saves, comp, prep, cut, waiting, store>>

(* Events of a Turn are written to the entry of the Session it started in.    *)
TurnPauses(n) ==
  /\ turns[n].st = "running" /\ ~turns[n].stop
  /\ turns' = [turns EXCEPT ![n].st = "paused"]
  /\ bg' = IF turns[n].key \in DOMAIN bg THEN [bg EXCEPT ![turns[n].key].status = "waiting"] ELSE bg
  /\ UNCHANGED <<bridge, current, workdir, handle, apps, procs, applied, saves, comp, prep, cut, waiting, store>>

TurnEnds(n) ==
  /\ turns[n].st = "running" \/ (turns[n].st = "paused" /\ turns[n].stop)
  /\ \E status \in IF turns[n].stop THEN {"cancelled"} ELSE {"completed", "failed"}, service \in BOOLEAN :
       /\ service => status = "completed"
       /\ procs' = [procs EXCEPT ![turns[n].app] = @ \/ (service /\ apps[turns[n].app].st = "open")]
       /\ bg' = IF turns[n].key \in DOMAIN bg THEN [bg EXCEPT ![turns[n].key].status = status] ELSE bg
  /\ turns' = [turns EXCEPT ![n].st = "ending"]
  /\ UNCHANGED <<bridge, current, workdir, handle, apps, applied, saves, comp, prep, cut, waiting, store>>

Unhandled(S, n) ==
  LET k == turns[n].key
      S1 == IF S.handle = n THEN [S EXCEPT !.handle = NoTurn] ELSE S
  IN IF k \in DOMAIN S.bg /\ S.bg[k].handle = n
     THEN [S1 EXCEPT !.bg[k].handle = NoTurn, !.bg[k].status = IF @ \in TurnEnd THEN @ ELSE "failed"]
     ELSE S1

FinishTurn(n) ==
  /\ turns[n].st = "ending" \/ (Live(n) /\ <<"turn", n>> \in cut)
  /\ turns' = [turns EXCEPT ![n] = [NoRun EXCEPT !.st = "ended"]]
  /\ LET S == Unhandled(Here, n) IN Drain(S) /\ Become(Reclaim(S))
  /\ UNCHANGED <<bridge, workdir, saves, prep, cut, waiting, store>>

ProcessEnds(a) ==
  /\ procs[a] /\ procs' = [procs EXCEPT ![a] = FALSE]
  /\ UNCHANGED <<bridge, current, workdir, handle, bg, apps, applied, saves, turns, comp, prep, cut, waiting, store>>

----------------------------------------------------------------------------
(* Manual compaction.                                                         *)
StartCompaction ==
  /\ Ready /\ handle = NoTurn /\ apps[current].ses # Null
  /\ LET s == apps[current].ses
     IN /\ comp[s] = NoApp
        /\ comp' = [comp EXCEPT ![s] = current]
        /\ bg' = IF s \in DOMAIN bg THEN [bg EXCEPT ![s].retain = TRUE] ELSE bg
  /\ UNCHANGED <<bridge, current, workdir, handle, apps, procs, applied, saves, turns, prep, cut, waiting, store>>

Released(S, s) ==
  LET S1 == [S EXCEPT !.comp[s] = NoApp]
  IN IF s \in DOMAIN S.bg /\ S.bg[s].app = S.comp[s] THEN [S1 EXCEPT !.bg[s].retain = FALSE] ELSE S1

EndCompaction(s) ==
  /\ comp[s] # NoApp
  /\ LET S == Released(Here, s) IN Drain(S) /\ Become(Reclaim(S))
  /\ UNCHANGED <<bridge, workdir, saves, turns, prep, cut, waiting, store>>

----------------------------------------------------------------------------
(* Commands that change the Session of the selected Application in place, and *)
(* session.move, which takes it away.                                         *)
Typed == Ready /\ handle = NoTurn /\ \A s \in Sessions : comp[s] = NoApp
CanLeave(a) == apps[a].ses = Null \/ ~apps[a].bad

SlashNew ==
  /\ Typed /\ SessionLeft /\ CanLeave(current)
  /\ apps' = [apps EXCEPT ![current].ses = NewSession]
  /\ store' = [store EXCEPT ![NewSession] = apps[current].own]
  /\ UNCHANGED <<bridge, current, workdir, handle, bg, procs, applied, saves, turns, comp, prep, cut, waiting>>

SlashResume(s) ==
  /\ Typed /\ CanLeave(current) /\ ~Locked(s) /\ store[s] = apps[current].own
  /\ apps' = [apps EXCEPT ![current].ses = s]
 
  /\ UNCHANGED <<bridge, current, workdir, handle, bg, procs, applied, saves, turns, comp, prep, cut, waiting, store>>

NoActive == MustPark = FALSE /\ \A s \in Sessions : comp[s] = NoApp
            /\ \A k \in DOMAIN bg : ~Preparing(bg[k].prep)

SessionMove(s, p) ==
  /\ Ready /\ NoActive /\ store[s] = apps[current].own /\ store[s] # General /\ p # store[s]
  /\ IF apps[current].ses = s
     THEN ~apps[current].bad /\ apps' = [apps EXCEPT ![current].ses = Null]
     ELSE ~Locked(s) /\ UNCHANGED <<apps>>
  /\ store' = [store EXCEPT ![s] = p]
  /\ UNCHANGED <<bridge, current, workdir, handle, bg, procs, applied, saves, turns, comp, prep, cut, waiting>>

----------------------------------------------------------------------------
(* Shutdown, at the end of the input or by /quit: stop everything, wait for   *)
(* each task for a bounded time, close the Applications one by one.           *)
Handles == ({handle} \cup {bg[k].handle : k \in DOMAIN bg}) \ {NoTurn}
Tasks == {<<"turn", n>> : n \in Handles} \cup {Task(bg[k].prep) : k \in {k \in DOMAIN bg : bg[k].prep # NoApp}}
         \cup {<<"comp", s>> : s \in {s \in Sessions : comp[s] # NoApp}}

Shutdown ==
  /\ bridge = "ready"
  /\ bridge' = "stopping" /\ waiting' = Tasks
  /\ turns' = [n \in Turns |-> [turns[n] EXCEPT !.stop = @ \/ n \in Handles]]
  /\ UNCHANGED <<current, workdir, handle, bg, apps, procs, applied, saves, comp, prep, cut, store>>

Over(x) ==
  CASE x[1] = "turn" -> ~Live(x[2])
    [] x[1] = "prep" -> ~Preparing(x[2])
    [] x[1] = "comp" -> comp[x[2]] = NoApp

AwaitTaskForever ==
  /\ bridge = "stopping"
  /\ \E x \in waiting : Over(x) /\ waiting' = waiting \ {x}
  /\ UNCHANGED <<bridge, current, workdir, handle, bg, apps, procs, applied, saves, turns, comp, prep, cut, store>>

AwaitTask ==
  /\ bridge = "stopping"
  /\ \E x \in waiting :
       \/ Over(x) /\ waiting' = waiting \ {x} /\ UNCHANGED cut
       \/ ~Over(x) /\ x \notin cut /\ cut' = cut \cup {x} /\ UNCHANGED waiting
  /\ UNCHANGED <<bridge, current, workdir, handle, bg, apps, procs, applied, saves, turns, comp, prep, store>>

CloseApplications ==
  /\ bridge = "stopping" /\ waiting = {}
  /\ bridge' = "closing" /\ handle' = NoTurn
  /\ waiting' = Loaded(Here)
  /\ UNCHANGED <<current, workdir, bg, apps, procs, applied, saves, turns, comp, prep, cut, store>>

CloseNext ==
  /\ bridge = "closing"
  /\ \E a \in waiting :
       /\ apps' = [apps EXCEPT ![a] = Closed(@)] /\ procs' = [procs EXCEPT ![a] = FALSE]
       /\ bridge' = IF apps'[a].st = "stuck" THEN "failed" ELSE bridge
       /\ waiting' = waiting \ {a}
  /\ UNCHANGED <<current, workdir, handle, bg, applied, saves, turns, comp, prep, cut, store>>

Stopped ==
  /\ bridge = "closing" /\ waiting = {}
  /\ bridge' = "stopped" /\ bg' = <<>> /\ comp' = [s \in Sessions |-> NoApp]
  /\ UNCHANGED <<current, workdir, handle, apps, procs, applied, saves, turns, prep, cut, waiting, store>>

----------------------------------------------------------------------------
Request ==
  \/ RuntimeInitialize \/ ProjectOpen \/ GeneralOpen \/ SessionNew
  \/ \E s \in Sessions : ResumeShown(s) \/ ResumeBackground(s) \/ ResumeTold(s) \/ ResumeCold(s)
  \/ TurnStart \/ TurnCancel \/ TurnResume \/ StartCompaction
  \/ SettingsSave \/ SettingsRetryApply
  \/ SlashNew \/ \E s \in Sessions : SlashResume(s) \/ \E p \in Projects : SessionMove(s, p)

TurnStep == \E n \in Turns : TurnPauses(n) \/ TurnEnds(n) \/ FinishTurn(n)
PrepStep == \E c \in Apps : PrepClone(c) \/ PrepOpen(c) \/ PrepInstall(c)
CompactionStep == \E s \in Sessions : EndCompaction(s)
ShutdownStep == Shutdown \/ AwaitTask \/ CloseApplications \/ CloseNext \/ Stopped

Next == Request \/ TurnStep \/ PrepStep \/ CompactionStep \/ ShutdownStep \/ \E a \in Apps : ProcessEnds(a)

(* Worker threads and cancelled tasks finish, and shutdown's own steps run; a *)
(* Turn that is not asked to stop may go on, and a user need not do anything. *)
Fairness ==
  /\ \A n \in Turns : WF_vars(FinishTurn(n))
  /\ \A c \in Apps : WF_vars(PrepClone(c) \/ PrepOpen(c) \/ PrepInstall(c))
  /\ WF_vars(CompactionStep)
  /\ WF_vars(AwaitTask) /\ WF_vars(CloseApplications \/ CloseNext \/ Stopped)

Spec == Init /\ [][Next]_vars /\ Fairness

(* The promise of the user manual: navigation does not cancel a Turn that     *)
(* runs in another Session, so its Session stays open under it.               *)
LiveTurnKeepsSession ==
  bridge = "ready" => \A n \in Turns : Live(n) => apps[turns[n].app].ses = turns[n].key
=============================================================================
