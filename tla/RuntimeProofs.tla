---------------------------- MODULE RuntimeProofs ----------------------------
(* The registry of the Desktop bridge, for any number of Applications, Sessions *)
(* and Turns: as long as no Application is filed twice, under another name than *)
(* its own, or put on screen after it was closed, every open Application can be *)
(* reached, and none is closed under a Turn or a compaction.                   *)
EXTENDS DesktopProperties, TLAPS

----------------------------------------------------------------------------
(* What is true of the registry, as a value the helpers of the handlers map to *)
(* the next: T are the Turns, P the preparations, D the durable Sessions, and B *)
(* the state of the bridge.                                                    *)
Statuses == {"idle", "running", "waiting", "preparing"} \cup TurnEnd
RuntimeParts == {"current", "handle", "bg", "apps", "procs", "comp"}
AppType == [st : {"none", "open", "closed", "stuck"}, ses : Sessions \cup {Null}, own : Owners, bad : BOOLEAN]
EntryType ==                              \* a placeholder has no Application yet
  {e \in [app : Apps \cup {NoApp}, handle : Turns \cup {NoTurn}, prep : Apps \cup {NoApp},
          status : Statuses, retain : BOOLEAN, own : Owners, told : BOOLEAN] : e.prep # NoApp => e.app = NoApp}

RegistryTypes(S) ==
  /\ S = [x \in RuntimeParts |-> S[x]]
  /\ S.current \in Apps \cup {NoApp} /\ S.handle \in Turns \cup {NoTurn}
  /\ DOMAIN S.bg \subseteq Keys /\ S.bg \in [DOMAIN S.bg -> EntryType]
  /\ S.apps \in [Apps -> AppType] /\ S.procs \in [Apps -> BOOLEAN] /\ S.comp \in [Sessions -> Apps \cup {NoApp}]

TurnTypes == [Turns -> [st : {"none", "running", "paused", "ending", "ended"}, app : Apps \cup {NoApp},
                        key : Sessions \cup {Null}, stop : BOOLEAN]]
TaskTypes(T, P, D) ==
  /\ T \in TurnTypes
  /\ P \in [Apps -> [st : {"none", "cloning", "opening", "installing", "done"}, ses : Sessions \cup {Null}]]
  /\ D \in [Sessions -> Owners \cup {Null}]

IsOpen(S, a) == S.apps[a].st = "open"
Runs(T, n) == T[n].st \in {"running", "paused", "ending"}
Builds(P, c) == P[c].st \in {"cloning", "opening", "installing"}
NameOf(S, a) == IF S.apps[a].ses = Null THEN a ELSE S.apps[a].ses

\* A Session has one Application, and is durable; who has not begun or has ended has none.
OneOwner(S, D) ==
  /\ \A a, b \in Apps : S.apps[a].ses # Null /\ S.apps[a].ses = S.apps[b].ses => a = b
  /\ \A a \in Apps : S.apps[a].ses # Null => S.apps[a].st \in {"open", "stuck"} /\ D[S.apps[a].ses] # Null

\* An open Application is filed under its own name only.
OwnName(S) == \A k \in DOMAIN S.bg : S.bg[k].app # NoApp /\ IsOpen(S, S.bg[k].app) => k = NameOf(S, S.bg[k].app)

\* An Application that is being built is nowhere in the registry.
Uses(S, T, c) ==
  \/ S.current = c \/ \E k \in DOMAIN S.bg : S.bg[k].app = c
  \/ (\E n \in Turns : T[n].app = c) \/ (\E s \in Sessions : S.comp[s] = c)
BuiltApart(S, T, P) ==
  \A c \in Apps :
    /\ S.apps[c].st = "none" \/ Builds(P, c) => ~Uses(S, T, c)
    /\ P[c].st \in {"opening", "installing"} => IsOpen(S, c)

\* A Turn is filed, with its handle, under the Session of its Application.
TurnsAreFiled(S, T) ==
  \A n \in Turns : Runs(T, n) =>
    /\ T[n].app \in Apps /\ T[n].key \in Sessions
    /\ IsOpen(S, T[n].app) => T[n].key \in DOMAIN S.bg /\ S.bg[T[n].key].app = T[n].app /\ S.bg[T[n].key].handle = n

\* The Turn of the Application on screen is the one the window steers.
ShownIsSteered(S, T) ==
  /\ S.current \in Apps /\ IsOpen(S, S.current)
  /\ \A n \in Turns : Runs(T, n) /\ T[n].app = S.current => S.handle = n

CompactsItsOwn(S) ==
  \A s \in Sessions : S.comp[s] # NoApp /\ IsOpen(S, S.comp[s]) => S.apps[S.comp[s]].ses = s

Reached(S, P, a) == S.current = a \/ (\E k \in DOMAIN S.bg : S.bg[k].app = a) \/ Builds(P, a)

Sound(S, T, P, D, B) ==
  /\ RegistryTypes(S) /\ OneOwner(S, D) /\ OwnName(S) /\ BuiltApart(S, T, P) /\ CompactsItsOwn(S)
  /\ \A n \in Turns : Runs(T, n) => T[n].app \in Apps /\ T[n].key \in Sessions
  /\ B # "stopped" => TurnsAreFiled(S, T) /\ \A a \in Apps : IsOpen(S, a) => Reached(S, P, a)
  /\ B = "stopped" => DOMAIN S.bg = {}
  /\ B = "ready" => ShownIsSteered(S, T)

Pristine ==
  /\ \A a \in Apps : apps[a].st = "none" /\ prep[a].st = "none"
  /\ \A n \in Turns : turns[n].st = "none"
  /\ DOMAIN bg = {} /\ \A s \in Sessions : comp[s] = NoApp

Kept == Sound(Here, turns, prep, store, bridge) /\ TaskTypes(turns, prep, store) /\ workdir \in Projects

\* What shutdown is about to close is not being built any more.
ClosesNoBuild == bridge = "closing" => \A c \in Apps : c \in waiting => ~Builds(prep, c)

RegistryInvariant == ~tangled => Kept /\ ClosesNoBuild /\ (bridge = "new" => Pristine)

----------------------------------------------------------------------------
(* The helpers of the handlers.                                                *)
LEMMA PutFacts ==
  ASSUME NEW f, NEW k, NEW e
  PROVE  /\ DOMAIN Put(f, k, e) = DOMAIN f \cup {k} /\ Put(f, k, e)[k] = e
         /\ \A j \in DOMAIN f : j # k => Put(f, k, e)[j] = f[j]
BY DEF Put

\* Applications are numbers, and no Session is one.
LEMMA NamesDiffer == NoApp \notin Apps /\ NoTurn \notin Turns /\ Sessions \cap Apps = {} /\ Null \notin Sessions
BY DesktopAssumption DEF NoApp, Apps, NoTurn, Turns

LEMMA SameName ==
  ASSUME NEW S, NEW D, RegistryTypes(S), OneOwner(S, D), NEW a \in Apps, NEW b \in Apps, NameOf(S, a) = NameOf(S, b)
  PROVE  a = b
<1>1. S.apps[a].ses \in Sessions \cup {Null} /\ S.apps[b].ses \in Sessions \cup {Null}
  BY DEF RegistryTypes, AppType
<1> QED BY <1>1, NamesDiffer DEF NameOf, OneOwner

\* A Turn of an open Application is filed under the Application's name.
LEMMA TurnsName ==
  ASSUME NEW S, NEW T, NEW P, NEW D, NEW B, Sound(S, T, P, D, B), B # "stopped",
         NEW n \in Turns, Runs(T, n), IsOpen(S, T[n].app)
  PROVE  T[n].key = NameOf(S, T[n].app)
BY NamesDiffer DEF Sound, TurnsAreFiled, OwnName

LEMMA RememberIs ==
  ASSUME NEW S, NEW reset, RegistryTypes(S), S.current \in Apps
  PROVE  LET R == Remember(S, reset)
             k == NameOf(S, S.current)
         IN /\ RegistryTypes(R) /\ k \in Keys
            /\ R.current = S.current /\ R.handle = S.handle /\ R.apps = S.apps /\ R.comp = S.comp
            /\ DOMAIN R.bg = DOMAIN S.bg \cup {k}
            /\ R.bg[k].app = S.current /\ R.bg[k].handle = S.handle /\ R.bg[k].prep = NoApp
            /\ \A j \in DOMAIN S.bg : j # k => R.bg[j] = S.bg[j]
<1> DEFINE k == NameOf(S, S.current)
           e == Entry(S.current, S.handle, StatusAt(S, k, reset), S.procs[S.current], S.apps[S.current].own)
           R == [S EXCEPT !.bg = Put(S.bg, k, e)]
<1>1. k = KeyOf(S) /\ S.current # NoApp
  BY NamesDiffer DEF NameOf, KeyOf
<1>2. Remember(S, reset) = R
  BY <1>1 DEF Remember
<1>3. k \in Keys
  BY DEF NameOf, RegistryTypes, AppType, Keys
<1>4. StatusAt(S, k, reset) \in Statuses
  BY DEF StatusAt, RegistryTypes, EntryType, Statuses
<1>5. e \in EntryType /\ e.app = S.current /\ e.handle = S.handle /\ e.prep = NoApp
  BY <1>4 DEF Entry, EntryType, RegistryTypes, AppType
<1> HIDE DEF e, k, R
<1>6. DOMAIN Put(S.bg, k, e) = DOMAIN S.bg \cup {k} /\ Put(S.bg, k, e)[k] = e
      /\ \A j \in DOMAIN S.bg : j # k => Put(S.bg, k, e)[j] = S.bg[j]
  BY DEF Put
<1>7. Put(S.bg, k, e) \in [DOMAIN S.bg \cup {k} -> EntryType]
  BY <1>5 DEF Put, RegistryTypes
<1> DEFINE b == Put(S.bg, k, e)
<1> HIDE DEF b
<1>8. R = [S EXCEPT !.bg = b]
  BY DEF b, R
<1>9. R.bg = b /\ R.current = S.current /\ R.handle = S.handle /\ R.apps = S.apps /\ R.comp = S.comp /\ R.procs = S.procs
      /\ R = [x \in RuntimeParts |-> R[x]]
  BY <1>8 DEF RegistryTypes, RuntimeParts
<1>10. RegistryTypes(R)
  BY <1>3, <1>6, <1>7, <1>9 DEF RegistryTypes, b
<1> QED BY <1>2, <1>3, <1>5, <1>6, <1>9, <1>10 DEF b, k, R

\* Parking the Application on screen loses no other entry.
LEMMA RememberSound ==
  ASSUME NEW S, NEW T, NEW P, NEW D, NEW reset, Sound(S, T, P, D, "ready")
  PROVE  LET R == Remember(S, reset)
         IN /\ Sound(R, T, P, D, "ready") /\ R.current = S.current /\ R.handle = S.handle /\ R.apps = S.apps /\ R.comp = S.comp
            /\ \E k \in DOMAIN R.bg : R.bg[k].app = R.current
            /\ DOMAIN R.bg = DOMAIN S.bg \cup {NameOf(S, S.current)}
            /\ \A j \in DOMAIN S.bg : j # NameOf(S, S.current) => R.bg[j] = S.bg[j]
<1> DEFINE R == Remember(S, reset)
           k == NameOf(S, S.current)
<1>1. S.current \in Apps /\ IsOpen(S, S.current) /\ RegistryTypes(S) /\ OneOwner(S, D)
  BY DEF Sound, ShownIsSteered
<1>2. /\ RegistryTypes(R) /\ k \in Keys
      /\ R.current = S.current /\ R.handle = S.handle /\ R.apps = S.apps /\ R.comp = S.comp
      /\ DOMAIN R.bg = DOMAIN S.bg \cup {k}
      /\ R.bg[k].app = S.current /\ R.bg[k].handle = S.handle
      /\ \A j \in DOMAIN S.bg : j # k => R.bg[j] = S.bg[j]
  BY <1>1, RememberIs
<1> HIDE DEF R
<1>3. \A a \in Apps : NameOf(S, a) = k => a = S.current
  BY <1>1, SameName
<1>4. \A a \in Apps : NameOf(R, a) = NameOf(S, a) /\ (IsOpen(R, a) <=> IsOpen(S, a))
  BY <1>2 DEF NameOf, IsOpen
<1> HIDE DEF k
<1>5. OneOwner(R, D) /\ CompactsItsOwn(R)
  BY <1>2 DEF OneOwner, CompactsItsOwn, Sound, IsOpen
<1>6. OwnName(R)
  <2> SUFFICES ASSUME NEW j \in DOMAIN R.bg, R.bg[j].app # NoApp, IsOpen(R, R.bg[j].app)
               PROVE  j = NameOf(R, R.bg[j].app)
    BY DEF OwnName
  <2>0. R.bg[j].app \in Apps
    BY <1>2 DEF RegistryTypes, EntryType
  <2>1. CASE j = k
    BY <2>1, <1>1, <1>2, <1>4 DEF k
  <2>2. CASE j # k
    BY <2>0, <2>2, <1>2, <1>4 DEF Sound, OwnName
  <2> QED BY <2>1, <2>2
<1>7. BuiltApart(R, T, P)
  <2>1. \A c : Uses(R, T, c) => Uses(S, T, c)
    BY <1>2 DEF Uses
  <2> QED BY <2>1, <1>2 DEF BuiltApart, Sound, IsOpen
<1>8. TurnsAreFiled(R, T)
  <2> SUFFICES ASSUME NEW n \in Turns, Runs(T, n)
               PROVE  /\ T[n].app \in Apps /\ T[n].key \in Sessions
                      /\ IsOpen(R, T[n].app) => T[n].key \in DOMAIN R.bg /\ R.bg[T[n].key].app = T[n].app /\ R.bg[T[n].key].handle = n
    BY DEF TurnsAreFiled
  <2>1. T[n].app \in Apps /\ T[n].key \in Sessions
    BY DEF Sound
  <2>2. ASSUME IsOpen(R, T[n].app)
        PROVE  T[n].key \in DOMAIN R.bg /\ R.bg[T[n].key].app = T[n].app /\ R.bg[T[n].key].handle = n
    <3>1. IsOpen(S, T[n].app)
      BY <2>1, <2>2, <1>4
    <3>2. T[n].key \in DOMAIN S.bg /\ S.bg[T[n].key].app = T[n].app /\ S.bg[T[n].key].handle = n
      BY <3>1 DEF Sound, TurnsAreFiled
    <3>3. T[n].key = NameOf(S, T[n].app)
      BY <3>1, TurnsName
    <3>4. CASE T[n].key = k
      <4>1. T[n].app = S.current
        BY <3>3, <3>4, <1>3, <2>1
      <4>2. S.handle = n
        BY <4>1 DEF Sound, ShownIsSteered
      <4> QED BY <4>1, <4>2, <3>4, <1>2
    <3>5. CASE T[n].key # k
      BY <3>2, <3>5, <1>2
    <3> QED BY <3>4, <3>5
  <2> QED BY <2>1, <2>2
<1>9. \A a \in Apps : IsOpen(R, a) => Reached(R, P, a)
  <2> SUFFICES ASSUME NEW a \in Apps, IsOpen(R, a) PROVE Reached(R, P, a)
    OBVIOUS
  <2>1. Reached(S, P, a)
    BY <1>4 DEF Sound
  <2>2. ASSUME NEW j \in DOMAIN S.bg, S.bg[j].app = a PROVE Reached(R, P, a)
    <3>1. j = NameOf(S, a)
      BY <2>2, <1>4, NamesDiffer DEF Sound, OwnName
    <3>2. CASE j = k
      BY <3>1, <3>2, <1>2, <1>3 DEF Reached
    <3>3. CASE j # k
      BY <3>3, <2>2, <1>2 DEF Reached
    <3> QED BY <3>2, <3>3
  <2> QED BY <2>1, <2>2, <1>2 DEF Reached
<1>10. ShownIsSteered(R, T)
  BY <1>2, <1>4 DEF Sound, ShownIsSteered
<1>11. Sound(R, T, P, D, "ready")
  BY <1>2, <1>5, <1>6, <1>7, <1>8, <1>9, <1>10 DEF Sound
<1>12. \E j \in DOMAIN R.bg : R.bg[j].app = R.current
  BY <1>2
<1> QED BY <1>2, <1>11, <1>12 DEF R, k

LEMMA ParkedSound ==
  ASSUME NEW S, NEW T, NEW P, NEW D, Sound(S, T, P, D, "ready")
  PROVE  LET R == Remember(S, FALSE)
         IN /\ Sound(R, T, P, D, "ready") /\ R.current = S.current /\ R.handle = S.handle /\ R.apps = S.apps /\ R.comp = S.comp
            /\ \E k \in DOMAIN R.bg : R.bg[k].app = R.current
            /\ DOMAIN R.bg = DOMAIN S.bg \cup {NameOf(S, S.current)}
            /\ \A j \in DOMAIN S.bg : j # NameOf(S, S.current) => R.bg[j] = S.bg[j]
<1> DEFINE reset == FALSE
           R == Remember(S, reset)
<1> HIDE DEF reset
<1>0. R = Remember(S, reset)
  OBVIOUS
<1>1. R = Remember(S, FALSE)
  BY DEF reset
<1> HIDE DEF R
<1>2. /\ Sound(R, T, P, D, "ready") /\ R.current = S.current /\ R.handle = S.handle /\ R.apps = S.apps /\ R.comp = S.comp
      /\ \E k \in DOMAIN R.bg : R.bg[k].app = R.current
      /\ DOMAIN R.bg = DOMAIN S.bg \cup {NameOf(S, S.current)}
      /\ \A j \in DOMAIN S.bg : j # NameOf(S, S.current) => R.bg[j] = S.bg[j]
  BY <1>0, RememberSound
<1> QED BY <1>1, <1>2

\* Another runtime comes on screen: the one that leaves is filed.
LEMMA ActivateSound ==
  ASSUME NEW S, NEW T, NEW P, NEW D, Sound(S, T, P, D, "ready"),
         NEW k \in DOMAIN S.bg, S.bg[k].app \in Apps, IsOpen(S, S.bg[k].app),
         \E j \in DOMAIN S.bg : S.bg[j].app = S.current
  PROVE  LET R == Activate(S, k)
         IN /\ Sound(R, T, P, D, "ready") /\ R.apps = S.apps /\ R.comp = S.comp /\ R.current = S.bg[k].app
            /\ DOMAIN R.bg = DOMAIN S.bg /\ \A j \in DOMAIN S.bg : R.bg[j].app = S.bg[j].app /\ R.bg[j].prep = S.bg[j].prep
<1> DEFINE R == Activate(S, k)
           e == [S.bg[k] EXCEPT !.retain = FALSE]
           b == [S.bg EXCEPT ![k] = e]
<1>0. RegistryTypes(S) /\ S.bg[k] \in EntryType
  BY DEF Sound, RegistryTypes
<1>1. e \in EntryType /\ e.app = S.bg[k].app /\ e.handle = S.bg[k].handle /\ e.prep = S.bg[k].prep
  BY <1>0 DEF EntryType
<1>2. b \in [DOMAIN S.bg -> EntryType] /\ DOMAIN b = DOMAIN S.bg /\ b[k] = e /\ \A j \in DOMAIN S.bg : j # k => b[j] = S.bg[j]
  <2> HIDE DEF e
  <2> QED BY <1>0, <1>1 DEF RegistryTypes
<1>3. R = [S EXCEPT !.current = S.bg[k].app, !.handle = S.bg[k].handle, !.bg = b]
  BY DEF Activate
<1> HIDE DEF b, R
<1>4. /\ R.current = S.bg[k].app /\ R.handle = S.bg[k].handle /\ R.bg = b
      /\ R.apps = S.apps /\ R.comp = S.comp /\ R.procs = S.procs
      /\ R = [x \in RuntimeParts |-> R[x]]
  BY <1>0, <1>3 DEF RegistryTypes, RuntimeParts
<1> HIDE DEF e
<1>5. DOMAIN R.bg = DOMAIN S.bg /\ \A j \in DOMAIN S.bg : R.bg[j].app = S.bg[j].app /\ R.bg[j].handle = S.bg[j].handle /\ R.bg[j].prep = S.bg[j].prep
  BY <1>1, <1>2, <1>4
<1>6. RegistryTypes(R)
  BY <1>0, <1>2, <1>4 DEF RegistryTypes, EntryType
<1>7. OneOwner(R, D) /\ CompactsItsOwn(R) /\ OwnName(R)
  <2>1. OneOwner(R, D)
    BY <1>4, <1>5 DEF OneOwner, Sound, IsOpen
  <2>2. CompactsItsOwn(R)
    BY <1>4 DEF CompactsItsOwn, Sound, IsOpen
  <2>3. OwnName(R)
    BY <1>4, <1>5 DEF OwnName, Sound, IsOpen, NameOf
  <2>4. QED
    BY <2>1, <2>2, <2>3
<1>8. BuiltApart(R, T, P)
  <2>1. \A c : Uses(R, T, c) => Uses(S, T, c)
    BY <1>4, <1>5 DEF Uses
  <2> QED BY <2>1, <1>4 DEF BuiltApart, Sound, IsOpen
<1>9. TurnsAreFiled(R, T)
  BY <1>4, <1>5 DEF TurnsAreFiled, Sound, IsOpen
<1>10. \A a \in Apps : IsOpen(R, a) => Reached(R, P, a)
  BY <1>4, <1>5 DEF Sound, Reached, IsOpen
<1>11. ShownIsSteered(R, T)
  <2>1. R.current \in Apps /\ IsOpen(R, R.current)
    BY <1>4 DEF IsOpen
  <2>2. ASSUME NEW n \in Turns, Runs(T, n), T[n].app = R.current PROVE R.handle = n
    <3>1. IsOpen(S, T[n].app) /\ T[n].app = S.bg[k].app
      BY <2>2, <1>4
    <3>0. "ready" # "stopped"
      OBVIOUS
    <3>2. T[n].key = NameOf(S, T[n].app)
      BY <3>0, <3>1, <2>2, TurnsName
    <3>4. S.bg[T[n].key].handle = n
      BY <3>1, <2>2 DEF Sound, TurnsAreFiled
    <3>3. k = NameOf(S, S.bg[k].app)
      BY NamesDiffer DEF Sound, OwnName
    <3> QED BY <3>1, <3>2, <3>3, <3>4, <1>4
  <2> QED BY <2>1, <2>2 DEF ShownIsSteered
<1>12. Sound(R, T, P, D, "ready")
  BY <1>6, <1>7, <1>8, <1>9, <1>10, <1>11 DEF Sound
<1> QED BY <1>4, <1>5, <1>12 DEF R

\* Whatever work there is in an Application, of a Turn or of a compaction.
WorksIn(S, T, a) == (\E n \in Turns : Runs(T, n) /\ T[n].app = a) \/ \E s \in Sessions : S.comp[s] = a

LEMMA ClosedFacts ==
  ASSUME NEW app \in AppType
  PROVE  /\ Closed(app) \in AppType /\ Closed(app).st \in {"closed", "stuck"}
         /\ Closed(app).ses # Null => Closed(app).ses = app.ses /\ Closed(app).st = "stuck"
BY DEF Closed, AppType

\* Reclamation closes only what nobody works in, and takes away only what it closed.
LEMMA ReclaimSound ==
  ASSUME NEW S, NEW T, NEW P, NEW D, NEW B, Sound(S, T, P, D, B)
  PROVE  LET R == Reclaim(S)
         IN /\ Sound(R, T, P, D, B) /\ R.current = S.current /\ R.comp = S.comp
            /\ \A a \in Apps : IsOpen(S, a) /\ ~IsOpen(R, a) => ~WorksIn(R, T, a)
<1> DEFINE K == {k \in DOMAIN S.bg : Idle(S, k)}
           A == {S.bg[k].app : k \in K}
           b == Restrict(S.bg, DOMAIN S.bg \ K)
           R == Reclaim(S)
           apps2 == [a \in Apps |-> IF a \in A THEN Closed(S.apps[a]) ELSE S.apps[a]]
           procs2 == [a \in Apps |-> S.procs[a] /\ a \notin A]
<1>0. RegistryTypes(S)
  BY DEF Sound
<1>1. DOMAIN b = DOMAIN S.bg \ K /\ b \in [DOMAIN b -> EntryType] /\ \A k \in DOMAIN b : b[k] = S.bg[k]
  <2> HIDE DEF K
  <2> QED BY <1>0 DEF RegistryTypes, Restrict
<1>2. \A a \in Apps : /\ a \in A => apps2[a].st \in {"closed", "stuck"} /\ (apps2[a].ses # Null => apps2[a].ses = S.apps[a].ses /\ apps2[a].st = "stuck")
                      /\ a \notin A => apps2[a] = S.apps[a]
  <2> HIDE DEF A
  <2> QED BY <1>0, ClosedFacts DEF RegistryTypes
<1>3. apps2 \in [Apps -> AppType] /\ procs2 \in [Apps -> BOOLEAN]
  <2> HIDE DEF A
  <2> QED BY <1>0, ClosedFacts DEF RegistryTypes
<1>4. R.current = S.current /\ R.handle = S.handle /\ R.comp = S.comp /\ R.bg = b /\ R.apps = apps2 /\ R.procs = procs2
      /\ R = [x \in RuntimeParts |-> R[x]]
  <2>1. DEFINE S1 == [S EXCEPT !.bg = b]
  <2>2. S1.current = S.current /\ S1.handle = S.handle /\ S1.comp = S.comp /\ S1.bg = b /\ S1.apps = S.apps /\ S1.procs = S.procs
        /\ S1 = [x \in RuntimeParts |-> S1[x]]
    <3> HIDE DEF b
    <3> QED BY <1>0 DEF RegistryTypes, RuntimeParts
  <2>3. R = Close(S1, A)
    BY DEF Reclaim
  <2> HIDE DEF S1, A, b, R
  <2>4. R = [S1 EXCEPT !.apps = apps2, !.procs = procs2]
    BY <2>2, <2>3 DEF Close
  <2> HIDE DEF apps2, procs2
  <2> QED BY <2>2, <2>4 DEF RuntimeParts
<1>5. \A a \in A \cap Apps : IsOpen(S, a) => ~WorksIn(S, T, a)
  <2> SUFFICES ASSUME NEW k \in K, S.bg[k].app \in Apps, IsOpen(S, S.bg[k].app) PROVE ~WorksIn(S, T, S.bg[k].app)
    OBVIOUS
  <2> DEFINE a == S.bg[k].app
  <2>1. k \in DOMAIN S.bg /\ S.bg[k].handle = NoTurn /\ ~Compacting(S, k)
    BY DEF Idle
  <2>2. B # "stopped" /\ k = NameOf(S, a)
    BY <2>1, NamesDiffer DEF Sound, OwnName
  <2>3. ASSUME NEW n \in Turns, Runs(T, n), T[n].app = a PROVE FALSE
    <3>1. T[n].key = NameOf(S, a)
      BY <2>2, <2>3, TurnsName
    <3>2. S.bg[T[n].key].handle = n
      BY <2>2, <2>3 DEF Sound, TurnsAreFiled
    <3> QED BY <3>1, <3>2, <2>1, <2>2, NamesDiffer
  <2>4. ASSUME NEW s \in Sessions, S.comp[s] = a PROVE FALSE
    <3>1. S.apps[a].ses = s
      BY <2>4, NamesDiffer DEF Sound, CompactsItsOwn
    <3>2. k = s
      BY <3>1, <2>2, NamesDiffer DEF NameOf
    <3> QED BY <3>2, <2>1, <2>4, NamesDiffer DEF Compacting
  <2> QED BY <2>3, <2>4 DEF WorksIn
<1>6. \A k \in K : S.bg[k].app # S.current
  BY DEF Idle
<1>61. \A a \in A : \E k \in DOMAIN S.bg : S.bg[k].app = a
  OBVIOUS
<1> HIDE DEF K
<1>7. S.current \notin A
  BY <1>6
<1>8. \A k \in DOMAIN S.bg : S.bg[k].app \notin A => k \in DOMAIN b
  BY <1>1
<1> HIDE DEF A, b, apps2, procs2, R
<1>9. RegistryTypes(R)
  BY <1>0, <1>1, <1>3, <1>4 DEF RegistryTypes
<1>10. \A a \in Apps : IsOpen(R, a) => a \notin A /\ IsOpen(S, a) /\ NameOf(R, a) = NameOf(S, a) /\ R.apps[a] = S.apps[a]
  BY <1>2, <1>4 DEF IsOpen, NameOf
<1>11. OneOwner(R, D)
  BY <1>2, <1>4 DEF OneOwner, Sound
<1>12. OwnName(R)
  <2>1. \A k \in DOMAIN b : b[k].app \in Apps \cup {NoApp}
    BY <1>1 DEF EntryType
  <2> QED BY <1>1, <1>4, <1>10, <2>1 DEF OwnName, Sound
<1>13. BuiltApart(R, T, P)
  <2>1. \A c : Uses(R, T, c) => Uses(S, T, c)
    BY <1>1, <1>4 DEF Uses
  <2>3. \A a \in Apps : S.apps[a].st # "none" => R.apps[a].st # "none"
    BY <1>2, <1>4
  <2>4. \A a \in Apps : ~Uses(S, T, a) => R.apps[a] = S.apps[a]
    BY <1>2, <1>4, <1>61 DEF Uses
  <2> SUFFICES ASSUME NEW c \in Apps
               PROVE  /\ R.apps[c].st = "none" \/ Builds(P, c) => ~Uses(R, T, c)
                      /\ P[c].st \in {"opening", "installing"} => IsOpen(R, c)
    BY DEF BuiltApart
  <2>5. /\ S.apps[c].st = "none" \/ Builds(P, c) => ~Uses(S, T, c)
        /\ P[c].st \in {"opening", "installing"} => IsOpen(S, c) /\ Builds(P, c)
    BY DEF BuiltApart, Sound, Builds
  <2> QED BY <2>1, <2>3, <2>4, <2>5 DEF IsOpen
<1>14. CompactsItsOwn(R)
  <2>1. \A s \in Sessions : S.comp[s] \in Apps \cup {NoApp}
    BY <1>0 DEF RegistryTypes
  <2> QED BY <2>1, <1>4, <1>10 DEF CompactsItsOwn, Sound
<1>15. B # "stopped" => TurnsAreFiled(R, T)
  <2> SUFFICES ASSUME B # "stopped", NEW n \in Turns, Runs(T, n)
               PROVE  /\ T[n].app \in Apps /\ T[n].key \in Sessions
                      /\ IsOpen(R, T[n].app) => T[n].key \in DOMAIN R.bg /\ R.bg[T[n].key].app = T[n].app /\ R.bg[T[n].key].handle = n
    BY DEF TurnsAreFiled
  <2>1. T[n].app \in Apps /\ T[n].key \in Sessions
    BY DEF Sound
  <2>2. ASSUME IsOpen(R, T[n].app) PROVE T[n].key \in DOMAIN R.bg /\ R.bg[T[n].key].app = T[n].app /\ R.bg[T[n].key].handle = n
    <3>1. IsOpen(S, T[n].app) /\ T[n].app \notin A
      BY <2>1, <2>2, <1>10
    <3>2. T[n].key \in DOMAIN S.bg /\ S.bg[T[n].key].app = T[n].app /\ S.bg[T[n].key].handle = n
      BY <3>1 DEF Sound, TurnsAreFiled
    <3>3. T[n].key \in DOMAIN b
      BY <3>1, <3>2, <1>8
    <3> QED BY <3>2, <3>3, <1>1, <1>4
  <2> QED BY <2>1, <2>2
<1>16. B # "stopped" => \A a \in Apps : IsOpen(R, a) => Reached(R, P, a)
  <2> SUFFICES ASSUME B # "stopped", NEW a \in Apps, IsOpen(R, a) PROVE Reached(R, P, a)
    OBVIOUS
  <2>1. Reached(S, P, a) /\ a \notin A
    BY <1>10 DEF Sound
  <2>2. ASSUME NEW k \in DOMAIN S.bg, S.bg[k].app = a PROVE Reached(R, P, a)
    <3>1. k \in DOMAIN b
      BY <2>1, <2>2, <1>8
    <3> QED BY <3>1, <2>2, <1>1, <1>4 DEF Reached
  <2> QED BY <2>1, <2>2, <1>4 DEF Reached
<1>17. B = "ready" => ShownIsSteered(R, T)
  BY <1>2, <1>4, <1>7 DEF Sound, ShownIsSteered, IsOpen
<1>18. B = "stopped" => DOMAIN R.bg = {}
  BY <1>1, <1>4 DEF Sound
<1>19. Sound(R, T, P, D, B)
  BY <1>9, <1>11, <1>12, <1>13, <1>14, <1>15, <1>16, <1>17, <1>18 DEF Sound
<1>20. ASSUME NEW a \in Apps, IsOpen(S, a), ~IsOpen(R, a) PROVE ~WorksIn(R, T, a)
  <2>1. a \in A
    BY <1>20, <1>2, <1>4 DEF IsOpen
  <2> QED BY <2>1, <1>20, <1>5, <1>4 DEF WorksIn
<1> QED BY <1>4, <1>19, <1>20 DEF R

----------------------------------------------------------------------------
(* Steps that change neither who is filed where nor who is open.               *)
LEMMA SameRegistry ==
  ASSUME NEW S, NEW T, NEW P, NEW D, NEW B, Sound(S, T, P, D, B), NEW R, NEW U,
         RegistryTypes(R), R.apps = S.apps, R.current = S.current,
         \A s \in Sessions : \/ R.comp[s] \in {S.comp[s], NoApp}
                             \/ R.comp[s] = S.current /\ S.apps[S.current].ses = s,
         DOMAIN R.bg = DOMAIN S.bg, \A k \in DOMAIN S.bg : R.bg[k].app = S.bg[k].app,
         \A k \in DOMAIN S.bg : R.bg[k].handle = S.bg[k].handle \/ ~Runs(U, S.bg[k].handle),
         B = "ready" => R.handle = S.handle \/ ~Runs(U, S.handle),
         \A n \in Turns : U[n].app = T[n].app \/ U[n].app = NoApp,
         \A n \in Turns : Runs(U, n) => Runs(T, n) /\ U[n].app = T[n].app /\ U[n].key = T[n].key
  PROVE  Sound(R, U, P, D, B)
<1>1. OneOwner(R, D) /\ OwnName(R) /\ CompactsItsOwn(R)
  BY DEF Sound, OneOwner, OwnName, CompactsItsOwn, IsOpen, NameOf
<1>2. BuiltApart(R, U, P)
  <2>1. \A c \in Apps : Uses(R, U, c) => Uses(S, T, c)
    BY NamesDiffer DEF Uses
  <2> QED BY <2>1 DEF BuiltApart, Sound, IsOpen
<1>3. \A n \in Turns : Runs(U, n) => U[n].app \in Apps /\ U[n].key \in Sessions
  BY DEF Sound
<1>4. B # "stopped" => TurnsAreFiled(R, U)
  BY <1>3 DEF Sound, TurnsAreFiled, IsOpen
<1>5. B # "stopped" => \A a \in Apps : IsOpen(R, a) => Reached(R, P, a)
  BY DEF Sound, Reached, IsOpen
<1>6. B = "ready" => ShownIsSteered(R, U)
  BY DEF Sound, ShownIsSteered, IsOpen
<1>7. B = "stopped" => DOMAIN R.bg = {}
  BY DEF Sound
<1> QED BY <1>1, <1>2, <1>3, <1>4, <1>5, <1>6, <1>7 DEF Sound

\* What a step of the bridge may close.
ClosesIdle ==
  bridge # "closing" => \A a \in Apps : apps[a].st = "open" /\ apps'[a].st # "open" => ~WorksIn(Here', turns', a)

SameEntries ==
  /\ DOMAIN bg' = DOMAIN bg /\ bg' \in [DOMAIN bg -> EntryType]
  /\ \A k \in DOMAIN bg : bg'[k].app = bg[k].app /\ bg'[k].handle = bg[k].handle

SameTurns ==
  /\ turns' \in TurnTypes
  /\ \A n \in Turns : turns'[n].app = turns[n].app /\ turns'[n].key = turns[n].key /\ (Runs(turns', n) => Runs(turns, n))

LEMMA HereFacts ==
  /\ Here.current = current /\ Here.handle = handle /\ Here.bg = bg /\ Here.apps = apps /\ Here.procs = procs /\ Here.comp = comp
  /\ Here = [x \in RuntimeParts |-> Here[x]]
BY DEF Here, RuntimeParts

LEMMA HereNext ==
  /\ Here'.current = current' /\ Here'.handle = handle' /\ Here'.bg = bg' /\ Here'.apps = apps' /\ Here'.procs = procs' /\ Here'.comp = comp'
  /\ Here' = [x \in RuntimeParts |-> Here'[x]]
BY DEF Here, RuntimeParts

LEMMA HereBecomes ==
  ASSUME NEW S, S = [x \in RuntimeParts |-> S[x]], Become(S)
  PROVE  Here' = S
<1>1. /\ Here'.current = S.current /\ Here'.handle = S.handle /\ Here'.bg = S.bg
      /\ Here'.apps = S.apps /\ Here'.procs = S.procs /\ Here'.comp = S.comp
  BY HereNext DEF Become
<1>2. \A x \in RuntimeParts : Here'[x] = S[x]
  BY <1>1 DEF RuntimeParts
<1> DEFINE h == Here'
<1>3. h = [x \in RuntimeParts |-> h[x]]
  BY HereNext
<1> HIDE DEF h
<1> QED BY <1>2, <1>3 DEF h

LEMMA TypesHere ==
  ASSUME Kept
  PROVE  /\ current \in Apps \cup {NoApp} /\ handle \in Turns \cup {NoTurn}
         /\ DOMAIN bg \subseteq Keys /\ bg \in [DOMAIN bg -> EntryType]
         /\ apps \in [Apps -> AppType] /\ procs \in [Apps -> BOOLEAN] /\ comp \in [Sessions -> Apps \cup {NoApp}]
BY HereFacts DEF Kept, Sound, RegistryTypes

LEMMA TypesNext ==
  ASSUME current' \in Apps \cup {NoApp}, handle' \in Turns \cup {NoTurn},
         DOMAIN bg' \subseteq Keys, bg' \in [DOMAIN bg' -> EntryType],
         apps' \in [Apps -> AppType], procs' \in [Apps -> BOOLEAN], comp' \in [Sessions -> Apps \cup {NoApp}]
  PROVE  RegistryTypes(Here')
BY HereNext DEF RegistryTypes

LEMMA QuietStep ==
  ASSUME Kept, SameEntries, procs' \in [Apps -> BOOLEAN],
         UNCHANGED <<bridge, current, handle, apps, comp, prep, store, workdir>>,
         SameTurns
  PROVE  Kept' /\ ClosesIdle
<1>1. RegistryTypes(Here')
  BY TypesHere, TypesNext DEF SameEntries
<1>2. Sound(Here, turns, prep, store, bridge)
  BY DEF Kept
<1>3. Sound(Here', turns', prep, store, bridge)
  BY <1>1, <1>2, HereFacts, HereNext, SameRegistry DEF SameEntries, SameTurns
<1>4. TaskTypes(turns', prep', store')
  BY DEF Kept, TaskTypes, SameTurns
<1> QED BY <1>3, <1>4 DEF Kept, ClosesIdle

LEMMA EntryRewritten ==
  ASSUME Kept, NEW k, NEW status \in Statuses, NEW told \in BOOLEAN,
         bg' = (IF k \in DOMAIN bg THEN [bg EXCEPT ![k] = [@ EXCEPT !.status = status, !.told = told]] ELSE bg)
  PROVE  SameEntries
<1>1. bg \in [DOMAIN bg -> EntryType]
  BY TypesHere
<1>2. CASE k \in DOMAIN bg
  <2> DEFINE e == [bg[k] EXCEPT !.status = status, !.told = told]
  <2>1. bg[k] \in EntryType
    BY <1>1, <1>2
  <2>2. e \in EntryType /\ e.app = bg[k].app /\ e.handle = bg[k].handle
    BY <2>1 DEF EntryType
  <2>3. bg' = [bg EXCEPT ![k] = e]
    BY <1>2
  <2> HIDE DEF e
  <2>4. DOMAIN bg' = DOMAIN bg /\ bg'[k] = e /\ \A j \in DOMAIN bg : j # k => bg'[j] = bg[j]
    BY <1>1, <1>2, <2>3
  <2>5. bg' \in [DOMAIN bg -> EntryType]
    BY <1>1, <2>2, <2>3
  <2> QED BY <2>2, <2>4, <2>5 DEF SameEntries
<1>3. CASE k \notin DOMAIN bg
  BY <1>1, <1>3 DEF SameEntries
<1> QED BY <1>2, <1>3

LEMMA StatusRewritten ==
  ASSUME Kept, NEW k, NEW status \in Statuses,
         bg' = (IF k \in DOMAIN bg THEN [bg EXCEPT ![k].status = status] ELSE bg)
  PROVE  SameEntries
<1>1. bg \in [DOMAIN bg -> EntryType]
  BY TypesHere
<1>2. CASE k \in DOMAIN bg
  <2> DEFINE e == [bg[k] EXCEPT !.status = status]
  <2>1. bg[k] \in EntryType
    BY <1>1, <1>2
  <2>2. e \in EntryType /\ e.app = bg[k].app /\ e.handle = bg[k].handle
    BY <2>1 DEF EntryType
  <2>3. bg' = [bg EXCEPT ![k] = e]
    BY <1>2
  <2> HIDE DEF e
  <2>4. DOMAIN bg' = DOMAIN bg /\ bg'[k] = e /\ \A j \in DOMAIN bg : j # k => bg'[j] = bg[j]
    BY <1>1, <1>2, <2>3
  <2>5. bg' \in [DOMAIN bg -> EntryType]
    BY <1>1, <2>2, <2>3
  <2> QED BY <2>2, <2>4, <2>5 DEF SameEntries
<1>3. CASE k \notin DOMAIN bg
  BY <1>1, <1>3 DEF SameEntries
<1> QED BY <1>2, <1>3

LEMMA TurnRewritten ==
  ASSUME Kept, NEW n \in Turns, NEW st \in {"none", "running", "paused", "ending", "ended"},
         st \in {"running", "paused", "ending"} => Runs(turns, n),
         turns' = [turns EXCEPT ![n].st = st]
  PROVE  SameTurns
<1>1. turns \in TurnTypes
  BY DEF Kept, TaskTypes
<1> QED BY <1>1 DEF Runs, SameTurns, TurnTypes

LEMMA QuietSteps ==
  ASSUME Kept, \/ SettingsSave \/ SettingsRetryApply \/ TurnCancel \/ TurnResume \/ AwaitTask
               \/ (\E s \in Sessions : ResumeTold(s)) \/ (\E a \in Apps : ProcessEnds(a))
               \/ (\E n \in Turns : TurnPauses(n) \/ TurnEnds(n))
  PROVE  Kept' /\ ClosesIdle
<1>0. /\ turns \in TurnTypes
      /\ bg \in [DOMAIN bg -> EntryType] /\ procs \in [Apps -> BOOLEAN]
  BY TypesHere DEF Kept, TaskTypes
<1>1. ASSUME UNCHANGED <<turns, procs>> PROVE
        SameTurns
        /\ procs' \in [Apps -> BOOLEAN]
  BY <1>0, <1>1 DEF SameTurns, Runs
<1>2. ASSUME UNCHANGED bg PROVE SameEntries
  BY <1>0, <1>2 DEF SameEntries
<1>3. CASE SettingsSave \/ SettingsRetryApply \/ AwaitTask
  <2>1. UNCHANGED <<bridge, current, handle, apps, comp, prep, store, workdir, bg, turns, procs>>
    BY <1>3 DEF SettingsSave, SettingsRetryApply, AwaitTask
  <2> QED BY <1>1, <1>2, <2>1, QuietStep
<1>4. ASSUME NEW a \in Apps, ProcessEnds(a) PROVE Kept' /\ ClosesIdle
  <2>1. UNCHANGED <<bridge, current, handle, apps, comp, prep, store, workdir, bg, turns>> /\ procs' \in [Apps -> BOOLEAN]
    BY <1>0, <1>4 DEF ProcessEnds
  <2>2. SameTurns
    BY <1>0, <2>1 DEF SameTurns, Runs
  <2> QED BY <1>2, <2>1, <2>2, QuietStep
<1>5. CASE TurnCancel
  <2>1. UNCHANGED <<bridge, current, handle, apps, comp, prep, store, workdir, bg, procs>>
        /\ turns' = [turns EXCEPT ![handle].stop = TRUE]
    BY <1>5 DEF TurnCancel
  <2>2. SameTurns
    BY <1>0, <2>1, ZenonT(60) DEF Runs, SameTurns, TurnTypes
  <2>3. procs' \in [Apps -> BOOLEAN]
    BY <1>0, <2>1
  <2> QED BY <1>2, <2>1, <2>2, <2>3, QuietStep
<1>6. CASE TurnResume
  <2>1. UNCHANGED <<bridge, current, handle, apps, comp, prep, store, workdir, procs>>
        /\ turns' = [turns EXCEPT ![handle].st = "running"] /\ handle # NoTurn /\ turns[handle].st = "paused"
        /\ bg' = IF turns[handle].key \in DOMAIN bg THEN [bg EXCEPT ![turns[handle].key].status = "running"] ELSE bg
    BY <1>6 DEF TurnResume
  <2>2. SameEntries
    <3>1. "running" \in Statuses
      BY DEF Statuses
    <3> QED BY <2>1, <3>1, StatusRewritten
  <2>3. SameTurns
    <3>1. handle \in Turns
      BY <2>1, TypesHere
    <3> QED BY <2>1, <3>1, TurnRewritten DEF Runs
  <2>4. procs' \in [Apps -> BOOLEAN]
    BY <1>0, <2>1
  <2> QED BY <2>1, <2>2, <2>3, <2>4, QuietStep
<1>7. ASSUME NEW s \in Sessions, ResumeTold(s) PROVE Kept' /\ ClosesIdle
  <2>1. UNCHANGED <<bridge, current, handle, apps, comp, prep, store, workdir, turns, procs>>
        /\ s \in DOMAIN bg /\ bg' = [bg EXCEPT ![s].told = TRUE]
    BY <1>7 DEF ResumeTold, Known
  <2>2. SameEntries
    <3>1. bg[s] \in EntryType
      BY <1>0, <2>1
    <3> DEFINE status == bg[s].status
    <3>2. status \in Statuses /\ [bg[s] EXCEPT !.told = TRUE] = [bg[s] EXCEPT !.status = status, !.told = TRUE]
      BY <3>1 DEF EntryType
    <3>3. bg' = IF s \in DOMAIN bg THEN [bg EXCEPT ![s] = [@ EXCEPT !.status = status, !.told = TRUE]] ELSE bg
      BY <2>1, <3>2
    <3> HIDE DEF status
    <3> QED BY <3>2, <3>3, EntryRewritten
  <2> QED BY <1>1, <2>1, <2>2, QuietStep
<1>8. ASSUME NEW n \in Turns, TurnPauses(n) PROVE Kept' /\ ClosesIdle
  <2>1. UNCHANGED <<bridge, current, handle, apps, comp, prep, store, workdir, procs>>
        /\ turns' = [turns EXCEPT ![n].st = "paused"] /\ turns[n].st = "running"
        /\ bg' = IF turns[n].key \in DOMAIN bg THEN [bg EXCEPT ![turns[n].key].status = "waiting"] ELSE bg
    BY <1>8 DEF TurnPauses
  <2>2. SameEntries
    <3>1. "waiting" \in Statuses
      BY DEF Statuses
    <3> QED BY <2>1, <3>1, StatusRewritten
  <2>3. SameTurns
    BY <2>1, TurnRewritten DEF Runs
  <2>4. procs' \in [Apps -> BOOLEAN]
    BY <1>0, <2>1
  <2> QED BY <2>1, <2>2, <2>3, <2>4, QuietStep
<1>9. ASSUME NEW n \in Turns, TurnEnds(n) PROVE Kept' /\ ClosesIdle
  <2>1. UNCHANGED <<bridge, current, handle, apps, comp, prep, store, workdir>>
        /\ turns' = [turns EXCEPT ![n].st = "ending"] /\ turns[n].st \in {"running", "paused"}
    BY <1>9 DEF TurnEnds
  <2>2. PICK status \in TurnEnd, service \in BOOLEAN :
          /\ procs' = [procs EXCEPT ![turns[n].app] = @ \/ (service /\ apps[turns[n].app].st = "open")]
          /\ bg' = IF turns[n].key \in DOMAIN bg THEN [bg EXCEPT ![turns[n].key].status = status] ELSE bg
    BY <1>9 DEF TurnEnds, TurnEnd
  <2>3. SameEntries
    <3>1. status \in Statuses
      BY DEF Statuses
    <3> QED BY <2>2, <3>1, StatusRewritten
  <2>4. SameTurns
    BY <2>1, TurnRewritten DEF Runs
  <2>5. procs' \in [Apps -> BOOLEAN]
    <3> DEFINE p == (procs[turns[n].app] \/ (service /\ apps[turns[n].app].st = "open"))
    <3>1. procs' = [procs EXCEPT ![turns[n].app] = p]
      BY <2>2
    <3>2. p \in BOOLEAN
      OBVIOUS
    <3> HIDE DEF p
    <3> QED BY <1>0, <3>1, <3>2
  <2> QED BY <2>1, <2>3, <2>4, <2>5, QuietStep
<1> QED BY <1>3, <1>4, <1>5, <1>6, <1>7, <1>8, <1>9

----------------------------------------------------------------------------
(* Steps that reclaim.                                                         *)
LEMMA ReclaimOpens ==
  ASSUME NEW S, S = [x \in RuntimeParts |-> S[x]], S.apps \in [Apps -> AppType]
  PROVE  Reclaim(S).current = S.current /\ \A a \in Apps : IsOpen(Reclaim(S), a) => IsOpen(S, a)
<1> DEFINE K == {k \in DOMAIN S.bg : Idle(S, k)}
           A == {S.bg[k].app : k \in K}
           S1 == [S EXCEPT !.bg = Restrict(S.bg, DOMAIN S.bg \ K)]
           R == Close(S1, A)
<1>1. Reclaim(S) = R
  BY DEF Reclaim
<1> HIDE DEF A, K
<1>2. S1.current = S.current /\ S1.apps = S.apps /\ S1 = [x \in RuntimeParts |-> S1[x]]
  BY DEF RuntimeParts
<1> HIDE DEF S1
<1>3. R.current = S.current /\ R.apps = [a \in Apps |-> IF a \in A THEN Closed(S.apps[a]) ELSE S.apps[a]]
  BY <1>2 DEF Close, RuntimeParts
<1>4. \A a \in Apps : Closed(S.apps[a]).st # "open"
  BY ClosedFacts
<1> HIDE DEF R
<1> QED BY <1>1, <1>3, <1>4 DEF IsOpen

LEMMA KeptBy ==
  ASSUME NEW S, Become(S), Sound(S, turns', prep', store', bridge'), TaskTypes(turns', prep', store'), workdir' \in Projects
  PROVE  Kept' /\ Here' = S
<1>1. Here' = S
  BY HereBecomes DEF Sound, RegistryTypes
<1> QED BY <1>1 DEF Kept

LEMMA ReclaimStep ==
  ASSUME NEW S, Become(Reclaim(S)), Sound(S, turns', prep', store', bridge'), TaskTypes(turns', prep', store'), workdir' \in Projects,
         \A a \in Apps : apps[a].st = "open" => IsOpen(S, a) \/ ~WorksIn(S, turns', a)
  PROVE  Kept' /\ ClosesIdle
<1> DEFINE R == Reclaim(S)
<1>1. /\ Sound(R, turns', prep', store', bridge') /\ R.comp = S.comp
      /\ \A a \in Apps : IsOpen(S, a) /\ ~IsOpen(R, a) => ~WorksIn(R, turns', a)
  BY ReclaimSound
<1> HIDE DEF R
<1>2. Become(R)
  BY DEF R
<1>3. Kept' /\ Here' = R
  BY <1>1, <1>2, KeptBy
<1>4. \A a \in Apps : apps'[a].st # "open" => ~IsOpen(R, a)
  BY <1>2 DEF IsOpen, Become
<1>5. \A a \in Apps : WorksIn(R, turns', a) => WorksIn(S, turns', a)
  BY <1>1 DEF WorksIn
<1> QED BY <1>1, <1>3, <1>4, <1>5 DEF ClosesIdle

LEMMA Untangled ==
  ASSUME ~Misfiled'
  PROVE  OwnName(Here')
BY HereNext DEF Misfiled, OwnName, IsOpen, NameOf, FiledAs

LEMMA ResumeShownSound ==
  ASSUME Kept, NEW s \in Sessions, ResumeShown(s)
  PROVE  Kept' /\ ClosesIdle
<1>1. Sound(Here, turns', prep', store', bridge') /\ TaskTypes(turns', prep', store') /\ workdir' \in Projects
  BY DEF Kept, ResumeShown
<1>2. Become(Reclaim(Here))
  BY DEF ResumeShown
<1>3. \A a \in Apps : apps[a].st = "open" => IsOpen(Here, a)
  BY HereFacts DEF IsOpen
<1> QED BY <1>1, <1>2, <1>3, ReclaimStep

LEMMA ResumeBackgroundSound ==
  ASSUME Kept, NEW s \in Sessions, ResumeBackground(s), ~Revived'
  PROVE  Kept' /\ ClosesIdle
<1> DEFINE S1 == Remember(Here, FALSE)
           S2 == Activate(S1, s)
<1>0. /\ bridge = "ready" /\ apps[current].ses # s /\ s \in DOMAIN bg /\ bg[s].app # NoApp
      /\ Become(Reclaim(S2)) /\ UNCHANGED <<bridge, workdir, turns, prep, store>>
  BY DEF ResumeBackground, Ready, Serves, Known
<1>1. Sound(Here, turns, prep, store, "ready") /\ TaskTypes(turns, prep, store) /\ workdir \in Projects
  BY <1>0 DEF Kept
<1>2. /\ Sound(S1, turns, prep, store, "ready") /\ S1.apps = apps /\ S1.comp = comp
      /\ \E j \in DOMAIN S1.bg : S1.bg[j].app = S1.current
      /\ DOMAIN S1.bg = DOMAIN bg \cup {NameOf(Here, current)}
      /\ \A j \in DOMAIN bg : j # NameOf(Here, current) => S1.bg[j] = bg[j]
  <2>1. /\ Sound(S1, turns, prep, store, "ready") /\ S1.apps = Here.apps /\ S1.comp = Here.comp
        /\ \E j \in DOMAIN S1.bg : S1.bg[j].app = S1.current
        /\ DOMAIN S1.bg = DOMAIN Here.bg \cup {NameOf(Here, Here.current)}
        /\ \A j \in DOMAIN Here.bg : j # NameOf(Here, Here.current) => S1.bg[j] = Here.bg[j]
    BY <1>1, ParkedSound
  <2> HIDE DEF S1
  <2> QED BY <2>1, HereFacts
<1>3. NameOf(Here, current) # s
  <2>1. current \in Apps
    BY <1>1, HereFacts DEF Sound, ShownIsSteered
  <2> QED BY <1>0, <2>1, HereFacts, NamesDiffer DEF NameOf
<1>4. s \in DOMAIN S1.bg /\ S1.bg[s] = bg[s]
  BY <1>0, <1>2, <1>3
<1>5. bg[s].app \in Apps
  BY <1>0, TypesHere DEF EntryType
<1> HIDE DEF S1
<1>6. S2.current = bg[s].app /\ S2.apps = apps /\ S2.comp = comp /\ S2 = [x \in RuntimeParts |-> S2[x]]
  BY <1>2, <1>4 DEF Activate, Sound, RegistryTypes, RuntimeParts
<1>7. S2.apps \in [Apps -> AppType]
  BY <1>6, TypesHere
<1>8. IsOpen(S1, bg[s].app)
  <2> DEFINE R == Reclaim(S2)
  <2>1. R.current = S2.current /\ \A a \in Apps : IsOpen(R, a) => IsOpen(S2, a)
    BY <1>6, <1>7, ReclaimOpens
  <2> HIDE DEF S2
  <2>2. current' = R.current /\ apps' = R.apps
    BY <1>0 DEF Become
  <2> HIDE DEF R
  <2>3. IsOpen(R, bg[s].app)
    BY <1>0, <1>6, <2>1, <2>2 DEF Revived, IsOpen
  <2> QED BY <1>2, <1>5, <1>6, <2>1, <2>3 DEF IsOpen
<1>9. Sound(S2, turns, prep, store, "ready")
  BY <1>2, <1>4, <1>5, <1>8, ActivateSound
<1> HIDE DEF S2
<1>10. \A a \in Apps : apps[a].st = "open" => IsOpen(S2, a)
  BY <1>6 DEF IsOpen
<1>11. Sound(S2, turns', prep', store', bridge') /\ TaskTypes(turns', prep', store') /\ workdir' \in Projects
  BY <1>0, <1>1, <1>9
<1> QED BY <1>0, <1>10, <1>11, ReclaimStep

----------------------------------------------------------------------------
(* An Application is built, installed in the registry, or given up.            *)
Tight(D, E) == \A s \in Sessions : D[s] # Null => E[s] # Null
Free(S, E, c, ses) == ses # Null => E[ses] # Null /\ \A a \in Apps : a # c => S.apps[a].ses # ses
BuiltInto(R, S, c, app) ==
  /\ R.apps = [S.apps EXCEPT ![c] = app] /\ R = [x \in RuntimeParts |-> R[x]]
  /\ R.current = S.current /\ R.handle = S.handle /\ R.bg = S.bg /\ R.procs = S.procs /\ R.comp = S.comp

LEMMA Unused ==
  ASSUME NEW S, NEW T, NEW c, ~Uses(S, T, c)
  PROVE  /\ S.current # c /\ \A k \in DOMAIN S.bg : S.bg[k].app # c
         /\ (\A n \in Turns : T[n].app # c) /\ \A s \in Sessions : S.comp[s] # c
<1>1. S.current # c
  BY DEF Uses
<1>2. \A k \in DOMAIN S.bg : S.bg[k].app # c
  BY DEF Uses
<1>3. \A n \in Turns : T[n].app # c
  BY DEF Uses
<1>4. \A s \in Sessions : S.comp[s] # c
  BY DEF Uses
<1> QED BY <1>1, <1>2, <1>3, <1>4

\* A new Application, or a Session opened in one that is being built.
LEMMA BuildSound ==
  ASSUME NEW S, NEW T, NEW P, NEW D, NEW B, Sound(S, T, P, D, B), NEW Q, NEW E, Tight(D, E),
         NEW c \in Apps, S.apps[c].st = "none" \/ Builds(P, c), Q[c].st \in {"opening", "installing"},
         \A a \in Apps : a # c => Q[a] = P[a],
         NEW app \in AppType, app.st = "open", Free(S, E, c, app.ses), NEW R, BuiltInto(R, S, c, app)
  PROVE  Sound(R, T, Q, E, B)
<1> USE DEF BuiltInto, Free
<1>1. RegistryTypes(S) /\ ~Uses(S, T, c)
  BY DEF Sound, BuiltApart
<1>2. R.apps[c] = app /\ \A a \in Apps : a # c => R.apps[a] = S.apps[a]
  BY <1>1 DEF RegistryTypes
<1>3. /\ S.current # c /\ \A k \in DOMAIN S.bg : S.bg[k].app # c /\ S.bg[k].app \in Apps \cup {NoApp}
      /\ \A n \in Turns : T[n].app # c
      /\ \A s \in Sessions : S.comp[s] # c /\ S.comp[s] \in Apps \cup {NoApp}
  <2>1. \A k \in DOMAIN S.bg : S.bg[k].app \in Apps \cup {NoApp}
    BY <1>1 DEF RegistryTypes, EntryType
  <2>2. \A s \in Sessions : S.comp[s] \in Apps \cup {NoApp}
    BY <1>1 DEF RegistryTypes
  <2>3. /\ S.current # c /\ \A k \in DOMAIN S.bg : S.bg[k].app # c
        /\ (\A n \in Turns : T[n].app # c) /\ \A s \in Sessions : S.comp[s] # c
    BY <1>1, Unused
  <2> QED BY <2>1, <2>2, <2>3
<1>4. \A a \in Apps : a # c => (IsOpen(R, a) <=> IsOpen(S, a)) /\ NameOf(R, a) = NameOf(S, a)
  BY <1>2 DEF IsOpen, NameOf
<1>5. RegistryTypes(R)
  BY <1>1 DEF RegistryTypes
<1>6. OneOwner(R, E)
  <2>1. \A a \in Apps : S.apps[a].ses \in Sessions \cup {Null}
    BY <1>1 DEF RegistryTypes, AppType
  <2>2. \A a, b \in Apps : R.apps[a].ses # Null /\ R.apps[a].ses = R.apps[b].ses => a = b
    <3>1. \A a, b \in Apps : S.apps[a].ses # Null /\ S.apps[a].ses = S.apps[b].ses => a = b
      BY DEF OneOwner, Sound
    <3> SUFFICES ASSUME NEW a \in Apps, NEW b \in Apps, R.apps[a].ses # Null, R.apps[a].ses = R.apps[b].ses PROVE a = b
      OBVIOUS
    <3>2. CASE a = c /\ b # c
      BY <1>2, <3>2
    <3>3. CASE b = c /\ a # c
      BY <1>2, <3>3
    <3>4. CASE a # c /\ b # c
      <4>1. R.apps[a] = S.apps[a] /\ R.apps[b] = S.apps[b]
        BY <1>2, <3>4
      <4> QED BY <3>1, <4>1
    <3> QED BY <3>2, <3>3, <3>4
  <2>3. \A a \in Apps : R.apps[a].ses # Null => R.apps[a].st \in {"open", "stuck"} /\ E[R.apps[a].ses] # Null
    BY <1>2, <2>1 DEF OneOwner, Sound, Tight
  <2> QED BY <2>2, <2>3 DEF OneOwner
<1>7. OwnName(R)
  BY <1>3, <1>4 DEF OwnName, Sound
<1>8. BuiltApart(R, T, Q)
  <2>1. \A b \in Apps : Uses(R, T, b) <=> Uses(S, T, b)
    BY DEF Uses
  <2> QED BY <1>1, <1>2, <2>1 DEF BuiltApart, Sound, Builds, IsOpen
<1>9. CompactsItsOwn(R)
  <2>1. \A s \in Sessions : S.comp[s] # NoApp => R.apps[S.comp[s]] = S.apps[S.comp[s]]
    BY <1>2, <1>3
  <2> QED BY <1>3, <1>4, <2>1 DEF CompactsItsOwn, Sound
<1>10. \A n \in Turns : Runs(T, n) => T[n].app \in Apps /\ T[n].key \in Sessions
  BY DEF Sound
<1>11. B # "stopped" => TurnsAreFiled(R, T)
  BY <1>3, <1>4, <1>10 DEF TurnsAreFiled, Sound
<1>12. B # "stopped" => \A a \in Apps : IsOpen(R, a) => Reached(R, Q, a)
  <2> SUFFICES ASSUME B # "stopped", NEW a \in Apps, a # c, IsOpen(S, a) PROVE Reached(R, Q, a)
    BY <1>2, <1>4 DEF IsOpen, Reached, Builds
  <2> QED BY DEF Sound, Reached, Builds
<1>13. B = "ready" => ShownIsSteered(R, T)
  BY <1>3, <1>4 DEF Sound, ShownIsSteered
<1>14. B = "stopped" => DOMAIN R.bg = {}
  BY DEF Sound
<1> QED BY <1>5, <1>6, <1>7, <1>8, <1>9, <1>10, <1>11, <1>12, <1>13, <1>14 DEF Sound

\* What was being built ends up closed, or never was open; its placeholder may be told so.
LEMMA GivenUpSound ==
  ASSUME NEW S, NEW T, NEW P, NEW D, NEW B, Sound(S, T, P, D, B), NEW Q,
         NEW c \in Apps, S.apps[c].st = "none" \/ Builds(P, c), Q[c].st \notin {"opening", "installing"},
         \A a \in Apps : a # c => Q[a] = P[a],
         NEW app \in AppType, app.st # "open",
         app.ses # Null => app.ses = S.apps[c].ses /\ app.st = "stuck",
         NEW R, RegistryTypes(R), R.apps = [S.apps EXCEPT ![c] = app],
         R.current = S.current, R.handle = S.handle, R.comp = S.comp, DOMAIN R.bg = DOMAIN S.bg,
         \A k \in DOMAIN S.bg : R.bg[k].app = S.bg[k].app /\ R.bg[k].handle = S.bg[k].handle
  PROVE  Sound(R, T, Q, D, B)
<1>1. RegistryTypes(S) /\ ~Uses(S, T, c)
  BY DEF Sound, BuiltApart
<1>2. R.apps[c] = app /\ \A a \in Apps : a # c => R.apps[a] = S.apps[a]
  BY <1>1 DEF RegistryTypes
<1>3. /\ S.current # c /\ \A k \in DOMAIN S.bg : S.bg[k].app # c /\ S.bg[k].app \in Apps \cup {NoApp}
      /\ \A n \in Turns : T[n].app # c
      /\ \A s \in Sessions : S.comp[s] # c /\ S.comp[s] \in Apps \cup {NoApp}
  <2>1. \A k \in DOMAIN S.bg : S.bg[k].app \in Apps \cup {NoApp}
    BY <1>1 DEF RegistryTypes, EntryType
  <2>2. \A s \in Sessions : S.comp[s] \in Apps \cup {NoApp}
    BY <1>1 DEF RegistryTypes
  <2>3. /\ S.current # c /\ \A k \in DOMAIN S.bg : S.bg[k].app # c
        /\ (\A n \in Turns : T[n].app # c) /\ \A s \in Sessions : S.comp[s] # c
    BY <1>1, Unused
  <2> QED BY <2>1, <2>2, <2>3
<1>4. \A a \in Apps : a # c => (IsOpen(R, a) <=> IsOpen(S, a)) /\ NameOf(R, a) = NameOf(S, a)
  BY <1>2 DEF IsOpen, NameOf
<1>6. OneOwner(R, D)
  BY <1>1, <1>2 DEF OneOwner, Sound
<1>7. OwnName(R)
  BY <1>3, <1>4 DEF OwnName, Sound
<1>8. BuiltApart(R, T, Q)
  <2>1. \A b \in Apps : Uses(R, T, b) <=> Uses(S, T, b)
    BY DEF Uses
  <2> QED BY <1>1, <1>2, <2>1 DEF BuiltApart, Sound, Builds, IsOpen
<1>9. CompactsItsOwn(R)
  <2>1. \A s \in Sessions : S.comp[s] # NoApp => R.apps[S.comp[s]] = S.apps[S.comp[s]]
    BY <1>2, <1>3
  <2> QED BY <1>3, <1>4, <2>1 DEF CompactsItsOwn, Sound
<1>10. \A n \in Turns : Runs(T, n) => T[n].app \in Apps /\ T[n].key \in Sessions
  BY DEF Sound
<1>11. B # "stopped" => TurnsAreFiled(R, T)
  BY <1>3, <1>4, <1>10 DEF TurnsAreFiled, Sound
<1>12. B # "stopped" => \A a \in Apps : IsOpen(R, a) => Reached(R, Q, a)
  <2> SUFFICES ASSUME B # "stopped", NEW a \in Apps, a # c, IsOpen(S, a) PROVE Reached(R, Q, a)
    BY <1>2, <1>4 DEF IsOpen, Reached, Builds
  <2> QED BY DEF Sound, Reached, Builds
<1>13. B = "ready" => ShownIsSteered(R, T)
  BY <1>3, <1>4 DEF Sound, ShownIsSteered
<1>14. B = "stopped" => DOMAIN R.bg = {}
  BY DEF Sound
<1> QED BY <1>6, <1>7, <1>8, <1>9, <1>10, <1>11, <1>12, <1>13, <1>14 DEF Sound

\* What was built is filed under its name, where no open Application was.
LEMMA InstallSound ==
  ASSUME NEW S, NEW T, NEW P, NEW D, NEW B, Sound(S, T, P, D, B), B # "stopped", NEW Q,
         NEW c \in Apps, Builds(P, c), S.apps[c].st # "none", Q[c].st \notin {"opening", "installing", "cloning"},
         \A a \in Apps : a # c => Q[a] = P[a],
         NEW k \in Keys, IsOpen(S, c) => k = NameOf(S, c),
         k \in DOMAIN S.bg /\ S.bg[k].app \in Apps => ~IsOpen(S, S.bg[k].app),
         NEW e \in EntryType, e.app = c,
         NEW R, R = [x \in RuntimeParts |-> R[x]], R.bg = Put(S.bg, k, e), R.apps = S.apps,
         R.current = S.current, R.handle = S.handle, R.procs = S.procs, R.comp = S.comp
  PROVE  Sound(R, T, Q, D, B) /\ DOMAIN R.bg = DOMAIN S.bg \cup {k} /\ R.bg[k] = e /\ \A j \in DOMAIN S.bg : j # k => R.bg[j] = S.bg[j]
<1>1. RegistryTypes(S) /\ ~Uses(S, T, c)
  BY DEF Sound, BuiltApart
<1>2. DOMAIN R.bg = DOMAIN S.bg \cup {k} /\ R.bg[k] = e /\ \A j \in DOMAIN S.bg : j # k => R.bg[j] = S.bg[j]
  BY DEF Put
<1>3. RegistryTypes(R)
  <2>0. S.bg \in [DOMAIN S.bg -> EntryType]
    BY <1>1 DEF RegistryTypes
  <2>1. R.bg \in [DOMAIN R.bg -> EntryType]
    BY <1>2, <2>0 DEF Put
  <2> QED BY <1>1, <1>2, <2>1 DEF RegistryTypes
<1>4. OneOwner(R, D) /\ CompactsItsOwn(R)
  <2>1. OneOwner(R, D)
    BY DEF OneOwner, Sound, IsOpen
  <2>2. CompactsItsOwn(R)
    BY DEF CompactsItsOwn, Sound, IsOpen
  <2>3. QED
    BY <2>1, <2>2
<1>5. OwnName(R)
  BY <1>2, ZenonT(60) DEF OwnName, Sound, IsOpen, NameOf
<1>6. BuiltApart(R, T, Q)
  <2>1. \A b \in Apps : b # c => (Uses(R, T, b) => Uses(S, T, b))
    BY <1>2 DEF Uses
  <2> QED BY <2>1 DEF BuiltApart, Sound, Builds, IsOpen
<1>8. TurnsAreFiled(R, T)
  <2>1. \A n \in Turns : Runs(T, n) => T[n].app \in Apps /\ T[n].key \in Sessions
    BY DEF Sound
  <2> SUFFICES ASSUME NEW n \in Turns, Runs(T, n), IsOpen(S, T[n].app)
               PROVE  T[n].key \in DOMAIN R.bg /\ R.bg[T[n].key].app = T[n].app /\ R.bg[T[n].key].handle = n
    BY <2>1 DEF TurnsAreFiled, IsOpen
  <2>2. T[n].key \in DOMAIN S.bg /\ S.bg[T[n].key].app = T[n].app /\ S.bg[T[n].key].handle = n
    BY DEF Sound, TurnsAreFiled
  <2>3. T[n].key # k
    BY <2>1, <2>2
  <2> QED BY <1>2, <2>2, <2>3
<1>9. \A a \in Apps : IsOpen(R, a) => Reached(R, Q, a)
  <2> SUFFICES ASSUME NEW a \in Apps, IsOpen(S, a), a # c PROVE Reached(R, Q, a)
    BY <1>2 DEF IsOpen, Reached
  <2> QED BY <1>2, SMTT(60) DEF Sound, Reached, Builds
<1>10. B = "ready" => ShownIsSteered(R, T)
  BY DEF Sound, ShownIsSteered, IsOpen
<1> QED BY <1>2, <1>3, <1>4, <1>5, <1>6, <1>8, <1>9, <1>10 DEF Sound

\* What was built comes on screen; what was there is filed, or closed.
LEMMA ShowSound ==
  ASSUME NEW S, NEW T, NEW P, NEW D, Sound(S, T, P, D, "ready"), NEW Q,
         NEW c \in Apps, Builds(P, c), IsOpen(S, c), Q[c].st \notin {"opening", "installing", "cloning"},
         \A a \in Apps : a # c => Q[a] = P[a],
         NEW R, RegistryTypes(R), R.current = c, R.bg = S.bg, R.comp = S.comp,
         \A a \in Apps : a # S.current => R.apps[a] = S.apps[a],
         \/ R.apps[S.current] = S.apps[S.current] /\ \E j \in DOMAIN S.bg : S.bg[j].app = S.current
         \/ R.apps[S.current].st = "closed" /\ R.apps[S.current].ses = Null
  PROVE  Sound(R, T, Q, D, "ready")
<1>1. RegistryTypes(S) /\ ~Uses(S, T, c) /\ S.current \in Apps /\ IsOpen(S, S.current)
  BY DEF Sound, BuiltApart, ShownIsSteered
<1>2. c # S.current /\ IsOpen(R, c)
  BY <1>1 DEF Uses, IsOpen
<1>3. \A a \in Apps : IsOpen(R, a) => IsOpen(S, a) /\ R.apps[a] = S.apps[a] /\ NameOf(R, a) = NameOf(S, a)
  BY DEF IsOpen, NameOf
<1>4. OneOwner(R, D)
  <2>1. \A a \in Apps : R.apps[a].ses # Null => R.apps[a] = S.apps[a]
    OBVIOUS
  <2> QED BY <2>1 DEF OneOwner, Sound
<1>5. OwnName(R)
  <2>1. \A k \in DOMAIN S.bg : S.bg[k].app \in Apps \cup {NoApp}
    BY <1>1 DEF RegistryTypes, EntryType
  <2> QED BY <1>3, <2>1 DEF OwnName, Sound
<1>6. BuiltApart(R, T, Q)
  <2>1. \A b \in Apps : b # c => (Uses(R, T, b) => Uses(S, T, b))
    BY DEF Uses
  <2>2. \A b \in Apps : R.apps[b].st = "none" <=> S.apps[b].st = "none"
    BY <1>1 DEF IsOpen
  <2>3. S.apps[c].st # "none"
    BY DEF IsOpen
  <2>4. \A b \in Apps : ~Uses(S, T, b) => (IsOpen(S, b) => IsOpen(R, b))
    BY DEF Uses, IsOpen
  <2> SUFFICES ASSUME NEW b \in Apps
               PROVE  /\ R.apps[b].st = "none" \/ Builds(Q, b) => ~Uses(R, T, b)
                      /\ Q[b].st \in {"opening", "installing"} => IsOpen(R, b)
    BY DEF BuiltApart
  <2>5. /\ S.apps[b].st = "none" \/ Builds(P, b) => ~Uses(S, T, b)
        /\ P[b].st \in {"opening", "installing"} => IsOpen(S, b) /\ Builds(P, b)
    BY DEF BuiltApart, Sound, Builds
  <2>6. CASE b = c
    BY <2>2, <2>3, <2>6 DEF Builds
  <2>7. CASE b # c
    <3>1. Q[b] = P[b]
      BY <2>7
    <3> QED BY <2>1, <2>2, <2>4, <2>5, <2>7, <3>1 DEF Builds
  <2> QED BY <2>6, <2>7
<1>7. CompactsItsOwn(R)
  <2>1. \A s \in Sessions : S.comp[s] \in Apps \cup {NoApp}
    BY <1>1 DEF RegistryTypes
  <2> QED BY <1>3, <2>1 DEF CompactsItsOwn, Sound
<1>8. \A n \in Turns : Runs(T, n) => T[n].app \in Apps /\ T[n].key \in Sessions
  BY DEF Sound
<1>9. TurnsAreFiled(R, T)
  BY <1>3, <1>8 DEF TurnsAreFiled, Sound
<1>10. ASSUME NEW a \in Apps, IsOpen(R, a) PROVE Reached(R, Q, a)
  <2>1. CASE a = c
    BY <2>1 DEF Reached
  <2>2. CASE a = S.current
    BY <2>2, <1>10 DEF Reached, IsOpen
  <2>3. CASE a # c /\ a # S.current
    <3>1. Reached(S, P, a)
      BY <1>3, <1>10 DEF Sound
    <3> QED BY <2>3, <3>1 DEF Reached, Builds
  <2> QED BY <2>1, <2>2, <2>3
<1>11. ShownIsSteered(R, T)
  <2>1. \A n \in Turns : T[n].app # c
    BY <1>1, Unused
  <2> QED BY <1>2, <2>1 DEF ShownIsSteered
<1> QED BY <1>4, <1>5, <1>6, <1>7, <1>8, <1>9, <1>10, <1>11 DEF Sound

\* Closing does no harm once no request comes any more.
LEMMA LaterSound ==
  ASSUME NEW S, NEW T, NEW P, NEW D, NEW B, Sound(S, T, P, D, B), B # "stopped", NEW C, C \notin {"ready", "stopped"}
  PROVE  Sound(S, T, P, D, C)
BY DEF Sound

LEMMA CloseIs ==
  ASSUME NEW S, RegistryTypes(S), NEW A
  PROVE  LET R == Close(S, A)
         IN /\ RegistryTypes(R) /\ R.current = S.current /\ R.handle = S.handle /\ R.bg = S.bg /\ R.comp = S.comp
            /\ R.apps = [a \in Apps |-> IF a \in A THEN Closed(S.apps[a]) ELSE S.apps[a]]
<1> DEFINE R == Close(S, A)
           f == [a \in Apps |-> IF a \in A THEN Closed(S.apps[a]) ELSE S.apps[a]]
           g == [a \in Apps |-> S.procs[a] /\ a \notin A]
<1>1. f \in [Apps -> AppType] /\ g \in [Apps -> BOOLEAN]
  BY ClosedFacts DEF RegistryTypes
<1>2. R = [S EXCEPT !.apps = f, !.procs = g]
  BY DEF Close
<1> HIDE DEF f, g, R
<1>3. /\ R.current = S.current /\ R.handle = S.handle /\ R.bg = S.bg /\ R.comp = S.comp /\ R.apps = f /\ R.procs = g
      /\ R = [x \in RuntimeParts |-> R[x]]
  BY <1>2 DEF RegistryTypes, RuntimeParts
<1>4. RegistryTypes(R)
  BY <1>1, <1>3 DEF RegistryTypes
<1> QED BY <1>3, <1>4 DEF R, f

----------------------------------------------------------------------------
(* Opening a project or General.                                               *)
LEMMA FreshFacts ==
  ASSUME AppLeft
  PROVE  Fresh \in Apps /\ apps[Fresh].st = "none" /\ prep[Fresh].st = "none"
BY DEF AppLeft, Fresh

LEMMA FlakyIsBoolean == Flaky \subseteq BOOLEAN
BY DEF Flaky

LEMMA NewApplication ==
  ASSUME Kept, NEW c \in Apps, apps[c].st = "none", NEW app \in AppType, app.st = "open", NEW E, Tight(store, E),
         app.ses # Null => E[app.ses] # Null /\ \A a \in Apps : apps[a].ses # app.ses
  PROVE  LET S == [Here EXCEPT !.apps[c] = app]
             Q == [prep EXCEPT ![c] = [st |-> "opening", ses |-> Null]]
         IN /\ Sound(S, turns, Q, E, bridge) /\ Builds(Q, c) /\ IsOpen(S, c) /\ S.apps[c] = app
            /\ \A a \in Apps : a # c => S.apps[a] = apps[a] /\ Q[a] = prep[a]
            /\ S.current = current /\ S.handle = handle /\ S.bg = bg /\ S.procs = procs /\ S.comp = comp
<1> DEFINE S == [Here EXCEPT !.apps[c] = app]
           f == [apps EXCEPT ![c] = app]
           Q == [prep EXCEPT ![c] = [st |-> "opening", ses |-> Null]]
<1>1. S = [Here EXCEPT !.apps = f]
  BY HereFacts
<1> HIDE DEF f
<1>2. /\ S.current = current /\ S.handle = handle /\ S.bg = bg /\ S.procs = procs /\ S.comp = comp /\ S.apps = f
      /\ S = [x \in RuntimeParts |-> S[x]]
  BY <1>1, HereFacts DEF RuntimeParts
<1> HIDE DEF S
<1>3. Q[c].st = "opening" /\ \A a \in Apps : a # c => Q[a] = prep[a]
  BY DEF Kept, TaskTypes
<1> HIDE DEF Q
<1>4. f[c] = app /\ \A a \in Apps : a # c => f[a] = apps[a]
  BY TypesHere DEF f
<1>5. Sound(Here, turns, prep, store, bridge)
  BY DEF Kept
<1>6. Sound(S, turns, Q, E, bridge)
  <2>1. Here.apps[c].st = "none" \/ Builds(prep, c)
    BY HereFacts
  <2>2. BuiltInto(S, Here, c, app)
    BY <1>2, HereFacts DEF f, BuiltInto
  <2>3. Free(Here, E, c, app.ses)
    BY HereFacts DEF Free
  <2>4. Q[c].st \in {"opening", "installing"} /\ \A a \in Apps : a # c => Q[a] = prep[a]
    BY <1>3
  <2> HIDE DEF f
  <2> QED BY <1>5, <2>1, <2>2, <2>3, <2>4, BuildSound
<1>7. Builds(Q, c) /\ IsOpen(S, c)
  BY <1>2, <1>3, <1>4 DEF Builds, IsOpen
<1> QED BY <1>2, <1>3, <1>4, <1>6, <1>7 DEF S, Q

LEMMA OpenOwnerSound ==
  ASSUME Kept, NEW own \in Owners, OpenOwner(own)
  PROVE  Kept' /\ ClosesIdle
<1> DEFINE c == Fresh
<1>0. /\ bridge = "ready" /\ current # NoApp /\ AppLeft /\ UNCHANGED <<bridge, turns, prep, store>>
  BY DEF OpenOwner, Ready
<1>1. c \in Apps /\ apps[c].st = "none" /\ prep[c].st = "none"
  BY <1>0, FreshFacts
<1>2. PICK bad \in Flaky :
       LET S0 == [Here EXCEPT !.apps[c] = Built(own, Null, bad)]
           S1 == IF MustPark THEN Remember(S0, FALSE) ELSE Close(S0, {current})
           kept == ~MustPark /\ S1.apps[current].st = "stuck"
       IN IF kept THEN Become([Here EXCEPT !.apps[c] = Closed(S0.apps[c])]) /\ UNCHANGED <<workdir>>
          ELSE /\ Become(Reclaim([S1 EXCEPT !.current = c, !.handle = NoTurn]))
               /\ workdir' = IF own = General THEN workdir ELSE own
  BY DEF OpenOwner
<1> HIDE DEF c
<1> DEFINE app == Built(own, Null, bad)
           S0 == [Here EXCEPT !.apps[c] = app]
           Q == [prep EXCEPT ![c] = [st |-> "opening", ses |-> Null]]
           Shown(S) == [S EXCEPT !.current = c, !.handle = NoTurn]
<1>3. app \in AppType /\ app.st = "open" /\ app.ses = Null
  BY FlakyIsBoolean DEF Built, AppType
<1>4. Tight(store, store)
  BY DEF Tight
<1>5. /\ Sound(S0, turns, Q, store, "ready") /\ Builds(Q, c) /\ IsOpen(S0, c) /\ S0.apps[c] = app
      /\ \A a \in Apps : a # c => S0.apps[a] = apps[a] /\ Q[a] = prep[a]
      /\ S0.current = current /\ S0.handle = handle /\ S0.bg = bg /\ S0.procs = procs /\ S0.comp = comp
  <2> HIDE DEF app
  <2> QED BY <1>0, <1>1, <1>3, <1>4, NewApplication
<1>6. prep[c].st \notin {"opening", "installing", "cloning"}
  BY <1>1
<1>7. workdir' \in Projects /\ TaskTypes(turns', prep', store') /\ workdir \in Projects
  BY <1>0, <1>2 DEF Kept, Owners
<1>8. current \in Apps /\ current # c /\ apps[current].st = "open"
  <2>1. current \in Apps /\ apps[current].st = "open"
    BY <1>0, HereFacts DEF Kept, Sound, ShownIsSteered, IsOpen
  <2> QED BY <1>1, <2>1
<1>9. RegistryTypes(S0)
  BY <1>5 DEF Sound
<1>10. CASE MustPark
  <2> DEFINE S1 == Remember(S0, FALSE)
             S2 == Shown(S1)
  <2>1. Become(Reclaim(S2))
    BY <1>2, <1>10
  <2> HIDE DEF S0, Q
  <2>2. /\ Sound(S1, turns, Q, store, "ready") /\ S1.current = S0.current /\ S1.apps = S0.apps /\ S1.comp = S0.comp
        /\ \E j \in DOMAIN S1.bg : S1.bg[j].app = S1.current
    BY <1>5, ParkedSound
  <2> HIDE DEF S1
  <2>3. S2.current = c /\ S2.handle = NoTurn /\ S2.bg = S1.bg /\ S2.apps = S1.apps /\ S2.comp = S1.comp /\ RegistryTypes(S2)
    BY <1>1, <2>2 DEF Sound, RegistryTypes, RuntimeParts
  <2> HIDE DEF S2
  <2>4. IsOpen(S1, c)
    BY <1>5, <2>2 DEF IsOpen
  <2>5. \A a \in Apps : a # c => prep[a] = Q[a]
    BY <1>5
  <2>6. Sound(S2, turns, prep, store, "ready")
    BY <1>1, <1>5, <1>6, <2>2, <2>3, <2>4, <2>5, ShowSound
  <2>7. \A a \in Apps : apps[a].st = "open" => IsOpen(S2, a)
    BY <1>3, <1>5, <2>2, <2>3 DEF IsOpen
  <2>8. Sound(S2, turns', prep', store', bridge')
    BY <1>0, <2>6
  <2> QED BY <1>7, <2>1, <2>7, <2>8, ReclaimStep
<1>11. CASE ~MustPark
  <2> DEFINE S1 == Close(S0, {current})
             S2 == Shown(S1)
  <2>1. IF S1.apps[current].st = "stuck" THEN Become([Here EXCEPT !.apps[c] = Closed(S0.apps[c])]) ELSE Become(Reclaim(S2))
    BY <1>2, <1>11
  <2>2. /\ RegistryTypes(S1) /\ S1.current = S0.current /\ S1.handle = S0.handle /\ S1.bg = S0.bg /\ S1.comp = S0.comp
        /\ S1.apps = [a \in Apps |-> IF a \in {current} THEN Closed(S0.apps[a]) ELSE S0.apps[a]]
    <3> HIDE DEF S0
    <3> QED BY <1>9, CloseIs
  <2> HIDE DEF S1
  <2>3. CASE S1.apps[current].st = "stuck"
    <3> DEFINE gone == Closed(app)
               f == [apps EXCEPT ![c] = gone]
               R == [Here EXCEPT !.apps = f]
    <3>1. Become(R)
      BY <1>5, <2>1, <2>3, HereFacts
    <3>2. gone \in AppType /\ gone.st # "open" /\ gone.ses = Null
      <4> HIDE DEF app
      <4> QED BY <1>3, ClosedFacts
    <3> HIDE DEF gone
    <3>3. f \in [Apps -> AppType] /\ f[c] = gone /\ \A a \in Apps : a # c => f[a] = apps[a]
      BY <1>1, <3>2, TypesHere
    <3>4. f = [Here.apps EXCEPT ![c] = gone]
      BY HereFacts
    <3> HIDE DEF f
    <3>5. /\ R.current = Here.current /\ R.handle = Here.handle /\ R.bg = Here.bg /\ R.comp = Here.comp /\ R.procs = Here.procs
          /\ R.apps = f /\ R = [x \in RuntimeParts |-> R[x]]
      BY HereFacts DEF RuntimeParts
    <3> HIDE DEF R
    <3>6. RegistryTypes(R)
      BY <3>3, <3>5 DEF Kept, Sound, RegistryTypes
    <3>7. Sound(Here, turns, prep, store, bridge)
      BY DEF Kept
    <3>8. Sound(R, turns, prep, store, bridge)
      <4>1. Here.apps[c].st = "none" \/ Builds(prep, c)
        BY <1>1, HereFacts
      <4> QED BY <1>1, <1>6, <3>2, <3>4, <3>5, <3>6, <3>7, <4>1, GivenUpSound
    <3>9. Kept'
      BY <1>0, <1>7, <3>1, <3>8, KeptBy
    <3>10. apps' = f
      BY <3>1, <3>5 DEF Become
    <3> QED BY <1>1, <3>3, <3>9, <3>10 DEF ClosesIdle
  <2>4. CASE S1.apps[current].st # "stuck"
    <3>1. Become(Reclaim(S2))
      BY <2>1, <2>4
    <3>2. S1.apps[current] = Closed(apps[current]) /\ \A a \in Apps : a # current => S1.apps[a] = S0.apps[a]
      BY <1>5, <1>8, <2>2
    <3>3. S1.apps[current].st = "closed" /\ S1.apps[current].ses = Null
      BY <1>8, <2>4, <3>2, ClosedFacts, TypesHere
    <3>4. S2.current = c /\ S2.handle = NoTurn /\ S2.bg = S1.bg /\ S2.apps = S1.apps /\ S2.comp = S1.comp /\ RegistryTypes(S2)
      BY <1>1, <2>2 DEF RegistryTypes, RuntimeParts
    <3> HIDE DEF S2, S0, Q
    <3>5. \A a \in Apps : a # c => prep[a] = Q[a]
      BY <1>5
    <3>6. Sound(S2, turns, prep, store, "ready")
      BY <1>1, <1>5, <1>6, <2>2, <3>2, <3>3, <3>4, <3>5, ShowSound
    <3>7. Sound(S2, turns', prep', store', bridge')
      BY <1>0, <3>6
    <3>8. ~WorksIn(S2, turns', current)
      <4>1. handle = NoTurn /\ ~CurrentCompaction(Here)
        BY <1>11 DEF MustPark
      <4>2. ASSUME NEW n \in Turns, Runs(turns, n), turns[n].app = current PROVE FALSE
        <5>1. handle = n
          BY <1>0, <4>2, HereFacts DEF Kept, Sound, ShownIsSteered
        <5> QED BY <4>1, <5>1, NamesDiffer
      <4>3. ASSUME NEW s \in Sessions, comp[s] = current PROVE FALSE
        <5>1. apps[current].ses = s
          BY <1>0, <1>8, <4>3, HereFacts DEF Kept, Sound, CompactsItsOwn, IsOpen
        <5> QED BY <1>0, <4>1, <4>3, <5>1, HereFacts DEF CurrentCompaction
      <4>4. S2.comp = comp /\ turns' = turns
        BY <1>0, <1>5, <2>2, <3>4
      <4> QED BY <4>2, <4>3, <4>4 DEF WorksIn
    <3>9. \A a \in Apps : apps[a].st = "open" => IsOpen(S2, a) \/ ~WorksIn(S2, turns', a)
      <4>1. \A a \in Apps : a # current => S2.apps[a] = S0.apps[a]
        BY <3>2, <3>4
      <4> QED BY <1>3, <1>5, <3>8, <4>1 DEF IsOpen
    <3> QED BY <1>7, <3>1, <3>7, <3>9, ReclaimStep
  <2> QED BY <2>3, <2>4
<1> QED BY <1>10, <1>11

----------------------------------------------------------------------------
(* New Sessions, and Sessions that are prepared.                               *)
LEMMA NewSessionFacts ==
  ASSUME SessionLeft
  PROVE  NewSession \in Sessions /\ store[NewSession] = Null
BY DEF SessionLeft, NewSession

LEMMA SessionNewSound ==
  ASSUME Kept, SessionNew
  PROVE  Kept' /\ ClosesIdle
<1> DEFINE c == Fresh
           s == NewSession
           own == apps[current].own
           e == Entry(c, NoTurn, "idle", FALSE, own)
<1>0. /\ bridge = "ready" /\ current # NoApp /\ AppLeft /\ SessionLeft /\ UNCHANGED <<bridge, workdir, turns, prep>>
      /\ store' = [store EXCEPT ![s] = own]
  BY DEF SessionNew, Ready
<1>1. c \in Apps /\ apps[c].st = "none" /\ prep[c].st = "none" /\ s \in Sessions /\ store[s] = Null
  BY <1>0, FreshFacts, NewSessionFacts
<1>2. PICK bad \in Flaky :
       LET S0 == Remember([Here EXCEPT !.apps[c] = Built(own, s, bad)], FALSE)
           S1 == [S0 EXCEPT !.bg = Put(@, s, e)]
       IN Become(Reclaim(Activate(S1, s)))
  BY DEF SessionNew
<1>3. Sound(Here, turns, prep, store, "ready") /\ TaskTypes(turns, prep, store) /\ workdir \in Projects
  BY <1>0 DEF Kept
<1>4. current \in Apps /\ apps[current].st = "open" /\ own \in Owners
  BY <1>3, HereFacts, TypesHere DEF Sound, ShownIsSteered, IsOpen, AppType
<1>5. e \in EntryType /\ e.app = c
  BY <1>1, <1>4 DEF Entry, EntryType, Statuses
<1> HIDE DEF c, s, own, e
<1> DEFINE app == Built(own, s, bad)
           S00 == [Here EXCEPT !.apps[c] = app]
           Q == [prep EXCEPT ![c] = [st |-> "opening", ses |-> Null]]
           S0 == Remember(S00, FALSE)
           S1 == [S0 EXCEPT !.bg = Put(S0.bg, s, e)]
           S2 == Activate(S1, s)
<1>6. Become(Reclaim(S2))
  BY <1>2
<1>7. app \in AppType /\ app.st = "open" /\ app.ses = s /\ s # Null
  BY <1>1, <1>4, FlakyIsBoolean, NamesDiffer DEF Built, AppType
<1> HIDE DEF app
<1>8. store' \in [Sessions -> Owners \cup {Null}] /\ store'[s] # Null /\ Tight(store, store')
  <2>1. Null \notin Owners
    BY DesktopAssumption DEF Owners
  <2> QED BY <1>0, <1>1, <1>3, <1>4, <2>1 DEF Tight, TaskTypes
<1>9. \A a \in Apps : apps[a].ses # s
  BY <1>1, <1>3, <1>7, HereFacts DEF Sound, OneOwner
<1>10. /\ Sound(S00, turns, Q, store', "ready") /\ Builds(Q, c) /\ IsOpen(S00, c) /\ S00.apps[c] = app
       /\ \A a \in Apps : a # c => S00.apps[a] = apps[a] /\ Q[a] = prep[a]
       /\ S00.current = current
  <2> DEFINE E == store'
  <2>1. Tight(store, E) /\ E[s] # Null
    BY <1>8
  <2> HIDE DEF E
  <2>2. /\ Sound(S00, turns, Q, E, bridge) /\ Builds(Q, c) /\ IsOpen(S00, c) /\ S00.apps[c] = app
        /\ \A a \in Apps : a # c => S00.apps[a] = apps[a] /\ Q[a] = prep[a]
        /\ S00.current = current
    BY <1>1, <1>7, <1>9, <2>1, NewApplication
  <2> QED BY <1>0, <2>2 DEF E
<1> HIDE DEF S00, Q
<1>11. /\ Sound(S0, turns, Q, store', "ready") /\ S0.current = S00.current /\ S0.apps = S00.apps /\ S0.comp = S00.comp
       /\ \E j \in DOMAIN S0.bg : S0.bg[j].app = S0.current
  BY <1>10, ParkedSound
<1> HIDE DEF S0
<1>12. IsOpen(S0, c) /\ NameOf(S0, c) = s /\ ~Uses(S0, turns, c) /\ RegistryTypes(S0) /\ S0.apps[c].st # "none"
  BY <1>1, <1>7, <1>10, <1>11 DEF IsOpen, NameOf, Sound, BuiltApart
<1>13. s \in Keys
  BY <1>1 DEF Keys
<1>14. s \in DOMAIN S0.bg /\ S0.bg[s].app \in Apps => ~IsOpen(S0, S0.bg[s].app)
  <2> SUFFICES ASSUME s \in DOMAIN S0.bg, S0.bg[s].app \in Apps, IsOpen(S0, S0.bg[s].app) PROVE FALSE
    OBVIOUS
  <2>1. s = NameOf(S0, S0.bg[s].app)
    BY <1>11, NamesDiffer DEF Sound, OwnName
  <2>2. S0.bg[s].app = c
    BY <1>1, <1>11, <1>12, <2>1, SameName DEF Sound
  <2> QED BY <1>12, <2>2, Unused
<1>15. /\ S1.bg = Put(S0.bg, s, e) /\ S1.apps = S0.apps /\ S1.current = S0.current /\ S1.handle = S0.handle
       /\ S1.procs = S0.procs /\ S1.comp = S0.comp /\ S1 = [x \in RuntimeParts |-> S1[x]]
  BY <1>12 DEF RegistryTypes, RuntimeParts
<1> HIDE DEF S1
<1>16. prep[c].st \notin {"opening", "installing", "cloning"} /\ \A a \in Apps : a # c => prep[a] = Q[a]
  BY <1>1, <1>10
<1>17. Sound(S1, turns, prep, store', "ready") /\ DOMAIN S1.bg = DOMAIN S0.bg \cup {s} /\ S1.bg[s] = e
       /\ \A j \in DOMAIN S0.bg : j # s => S1.bg[j] = S0.bg[j]
  <2> DEFINE E == store'
  <2>1. Sound(S0, turns, Q, E, "ready") /\ Builds(Q, c) /\ S0.apps[c].st # "none" /\ "ready" # "stopped"
    BY <1>10, <1>11, <1>12
  <2>2. IsOpen(S0, c) => s = NameOf(S0, c)
    BY <1>12
  <2> HIDE DEF E
  <2>3. c \in Apps /\ s \in Keys /\ e \in EntryType /\ e.app = c
    BY <1>1, <1>5, <1>13
  <2>4. Sound(S1, turns, prep, E, "ready")
    BY <1>14, <1>15, <1>16, <2>1, <2>2, <2>3, InstallSound
  <2>5. DOMAIN S1.bg = DOMAIN S0.bg \cup {s} /\ S1.bg[s] = e /\ \A j \in DOMAIN S0.bg : j # s => S1.bg[j] = S0.bg[j]
    BY <1>15 DEF Put
  <2> QED BY <2>4, <2>5 DEF E
<1>18. \E j \in DOMAIN S1.bg : S1.bg[j].app = S1.current
  <2>1. PICK j \in DOMAIN S0.bg : S0.bg[j].app = S0.current
    BY <1>11
  <2>2. S0.current \in Apps /\ IsOpen(S0, S0.current) /\ S0.current # c
    BY <1>11, <1>12, Unused DEF Sound, ShownIsSteered
  <2>3. j # s
    BY <1>14, <2>1, <2>2
  <2> QED BY <1>15, <1>17, <2>1, <2>3
<1>19. IsOpen(S1, c) /\ S1.bg[s].app = c /\ s \in DOMAIN S1.bg
  BY <1>5, <1>12, <1>15, <1>17 DEF IsOpen
<1>20. Sound(S2, turns, prep, store', "ready") /\ S2.apps = S1.apps
  BY <1>1, <1>17, <1>18, <1>19, ActivateSound
<1> HIDE DEF S2
<1>21. \A a \in Apps : apps[a].st = "open" => IsOpen(S2, a)
  BY <1>1, <1>10, <1>11, <1>15, <1>20 DEF IsOpen
<1>22. Sound(S2, turns', prep', store', bridge') /\ TaskTypes(turns', prep', store') /\ workdir' \in Projects
  BY <1>0, <1>3, <1>8, <1>20 DEF TaskTypes
<1> QED BY <1>6, <1>21, <1>22, ReclaimStep

\* An entry that holds no open Application may go.
LEMMA DropSound ==
  ASSUME NEW S, NEW T, NEW P, NEW D, NEW B, Sound(S, T, P, D, B), NEW k,
         k \in DOMAIN S.bg /\ S.bg[k].app \in Apps => ~IsOpen(S, S.bg[k].app),
         NEW R, R = [x \in RuntimeParts |-> R[x]], R.bg = Restrict(S.bg, DOMAIN S.bg \ {k}), R.apps = S.apps,
         R.current = S.current, R.handle = S.handle, R.procs = S.procs, R.comp = S.comp
  PROVE  Sound(R, T, P, D, B)
<1>1. RegistryTypes(S)
  BY DEF Sound
<1>2. DOMAIN R.bg = DOMAIN S.bg \ {k} /\ \A j \in DOMAIN R.bg : R.bg[j] = S.bg[j]
  BY DEF Restrict
<1>3. RegistryTypes(R)
  <2>1. S.bg \in [DOMAIN S.bg -> EntryType]
    BY <1>1 DEF RegistryTypes
  <2>2. R.bg \in [DOMAIN R.bg -> EntryType]
    BY <1>2, <2>1 DEF Restrict
  <2> QED BY <1>1, <1>2, <2>2 DEF RegistryTypes
<1>4. OneOwner(R, D) /\ CompactsItsOwn(R)
  <2>1. OneOwner(R, D)
    BY DEF OneOwner, Sound, IsOpen
  <2>2. CompactsItsOwn(R)
    BY DEF CompactsItsOwn, Sound, IsOpen
  <2>3. QED
    BY <2>1, <2>2
<1>5. OwnName(R)
  BY <1>2 DEF OwnName, Sound, IsOpen, NameOf
<1>6. BuiltApart(R, T, P)
  <2>1. \A b \in Apps : Uses(R, T, b) => Uses(S, T, b)
    BY <1>2 DEF Uses
  <2> QED BY <2>1 DEF BuiltApart, Sound, IsOpen
<1>7. \A n \in Turns : Runs(T, n) => T[n].app \in Apps /\ T[n].key \in Sessions
  BY DEF Sound
<1>8. B # "stopped" => TurnsAreFiled(R, T)
  <2> SUFFICES ASSUME B # "stopped", NEW n \in Turns, Runs(T, n), IsOpen(S, T[n].app)
               PROVE  T[n].key \in DOMAIN R.bg /\ R.bg[T[n].key].app = T[n].app /\ R.bg[T[n].key].handle = n
    BY <1>7 DEF TurnsAreFiled, IsOpen
  <2>2. T[n].key \in DOMAIN S.bg /\ S.bg[T[n].key].app = T[n].app /\ S.bg[T[n].key].handle = n
    BY DEF Sound, TurnsAreFiled
  <2>3. T[n].key # k
    BY <1>7, <2>2
  <2> QED BY <1>2, <2>2, <2>3
<1>9. B # "stopped" => \A a \in Apps : IsOpen(R, a) => Reached(R, P, a)
  <2> SUFFICES ASSUME B # "stopped", NEW a \in Apps, IsOpen(S, a) PROVE Reached(R, P, a)
    BY DEF IsOpen
  <2> QED BY <1>2 DEF Sound, Reached
<1>10. B = "ready" => ShownIsSteered(R, T)
  BY DEF Sound, ShownIsSteered, IsOpen
<1>11. B = "stopped" => DOMAIN R.bg = {}
  BY <1>2 DEF Sound
<1> QED BY <1>3, <1>4, <1>5, <1>6, <1>7, <1>8, <1>9, <1>10, <1>11 DEF Sound

\* A placeholder announces an Application that is not there yet.
LEMMA PlaceSound ==
  ASSUME NEW S, NEW T, NEW P, NEW D, NEW B, Sound(S, T, P, D, B), B # "stopped", NEW Q,
         NEW c \in Apps, S.apps[c].st = "none", Q[c].st = "cloning",
         \A a \in Apps : a # c => Q[a] = P[a],
         NEW k \in Keys, k \notin DOMAIN S.bg, NEW e \in EntryType, e.app = NoApp,
         NEW app \in AppType, app.st = "none", app.ses = S.apps[c].ses,
         NEW R, R = [x \in RuntimeParts |-> R[x]], R.bg = Put(S.bg, k, e), R.apps = [S.apps EXCEPT ![c] = app],
         R.current = S.current, R.handle = S.handle, R.procs = S.procs, R.comp = S.comp
  PROVE  Sound(R, T, Q, D, B)
<1>1. RegistryTypes(S) /\ ~Uses(S, T, c)
  BY DEF Sound, BuiltApart
<1>2. DOMAIN R.bg = DOMAIN S.bg \cup {k} /\ R.bg[k] = e /\ \A j \in DOMAIN S.bg : R.bg[j] = S.bg[j]
  BY DEF Put
<1>3. R.apps[c] = app /\ \A a \in Apps : a # c => R.apps[a] = S.apps[a]
  BY <1>1 DEF RegistryTypes
<1>4. RegistryTypes(R)
  <2>1. S.bg \in [DOMAIN S.bg -> EntryType]
    BY <1>1 DEF RegistryTypes
  <2>2. R.bg \in [DOMAIN R.bg -> EntryType]
    BY <1>2, <2>1 DEF Put
  <2> QED BY <1>1, <1>2, <2>2, ZenonT(60) DEF RegistryTypes
<1>5. \A a \in Apps : (IsOpen(R, a) <=> IsOpen(S, a)) /\ NameOf(R, a) = NameOf(S, a) /\ R.apps[a].st = S.apps[a].st /\ R.apps[a].ses = S.apps[a].ses
  BY <1>3 DEF IsOpen, NameOf
<1>6. OneOwner(R, D)
  <2>1. \A a \in Apps : R.apps[a].st = S.apps[a].st /\ R.apps[a].ses = S.apps[a].ses
    BY <1>5
  <2>2. OneOwner(S, D)
    BY DEF Sound
  <2>3. \A a, b \in Apps : R.apps[a].ses # Null /\ R.apps[a].ses = R.apps[b].ses => a = b
    <3>1. \A a, b \in Apps : S.apps[a].ses # Null /\ S.apps[a].ses = S.apps[b].ses => a = b
      BY <2>2 DEF OneOwner
    <3> SUFFICES ASSUME NEW a \in Apps, NEW b \in Apps, R.apps[a].ses # Null, R.apps[a].ses = R.apps[b].ses PROVE a = b
      OBVIOUS
    <3>2. R.apps[a].ses = S.apps[a].ses /\ R.apps[b].ses = S.apps[b].ses
      BY <2>1
    <3> QED BY <3>1, <3>2
  <2>4. \A a \in Apps : R.apps[a].ses # Null => R.apps[a].st \in {"open", "stuck"} /\ D[R.apps[a].ses] # Null
    BY <2>1, <2>2 DEF OneOwner
  <2> QED BY <2>3, <2>4 DEF OneOwner
<1>7. OwnName(R)
  <2> SUFFICES ASSUME NEW j \in DOMAIN S.bg, S.bg[j].app # NoApp, IsOpen(R, S.bg[j].app) PROVE j = NameOf(R, S.bg[j].app)
    BY <1>2 DEF OwnName
  <2>1. S.bg[j].app \in Apps
    BY <1>1 DEF RegistryTypes, EntryType
  <2> QED BY <1>5, <2>1 DEF OwnName, Sound
<1>8. BuiltApart(R, T, Q)
  <2>1. \A b \in Apps : Uses(R, T, b) => Uses(S, T, b)
    BY <1>2, NamesDiffer DEF Uses
  <2> QED BY <1>1, <1>5, <2>1 DEF BuiltApart, Sound, Builds
<1>9. CompactsItsOwn(R)
  <2>1. \A s \in Sessions : S.comp[s] \in Apps \cup {NoApp}
    BY <1>1 DEF RegistryTypes
  <2> QED BY <1>5, <2>1 DEF CompactsItsOwn, Sound
<1>10. \A n \in Turns : Runs(T, n) => T[n].app \in Apps /\ T[n].key \in Sessions
  BY DEF Sound
<1>11. TurnsAreFiled(R, T)
  BY <1>2, <1>5, <1>10 DEF TurnsAreFiled, Sound
<1>12. ASSUME NEW a \in Apps, IsOpen(R, a) PROVE Reached(R, Q, a)
  <2>1. Reached(S, P, a) /\ a # c
    BY <1>5, <1>12 DEF Sound, IsOpen
  <2>2. ASSUME NEW j \in DOMAIN S.bg, S.bg[j].app = a PROVE Reached(R, Q, a)
    <3>1. j \in DOMAIN R.bg /\ R.bg[j].app = a
      BY <1>2, <2>2
    <3> QED BY <3>1 DEF Reached
  <2>3. CASE Builds(P, a)
    BY <2>1, <2>3 DEF Builds, Reached
  <2>4. CASE S.current = a
    BY <2>4 DEF Reached
  <2> QED BY <2>1, <2>2, <2>3, <2>4 DEF Reached
<1>13. B = "ready" => ShownIsSteered(R, T)
  BY <1>5 DEF ShownIsSteered, Sound
<1> QED BY <1>4, <1>6, <1>7, <1>8, <1>9, <1>10, <1>11, <1>12, <1>13 DEF Sound

LEMMA ResumeColdSound ==
  ASSUME Kept, NEW s \in Sessions, ResumeCold(s), ~Overtaken'
  PROVE  Kept' /\ ClosesIdle
<1> DEFINE c == Fresh
           b0 == Restrict(bg, DOMAIN bg \ {s})
           S00 == [Here EXCEPT !.bg = b0]
           S0 == Remember(S00, FALSE)
           e0 == Entry(NoApp, NoTurn, "preparing", TRUE, apps[current].own)
           e == [e0 EXCEPT !.prep = c]
           R == [S0 EXCEPT !.bg = Put(S0.bg, s, e), !.apps[c].own = PreparedOwner]
<1>0. /\ bridge = "ready" /\ current # NoApp /\ AppLeft /\ apps[current].ses # s
      /\ UNCHANGED <<bridge, workdir, turns, store>>
      /\ prep' = [prep EXCEPT ![c] = [st |-> "cloning", ses |-> s]]
  BY DEF ResumeCold, Ready, Serves
<1>1. Become(R)
  <2>1. [Here EXCEPT !.bg = Restrict(@, DOMAIN @ \ {s})] = S00
    BY HereFacts
  <2> QED BY <2>1 DEF ResumeCold
<1>2. c \in Apps /\ apps[c].st = "none" /\ prep[c].st = "none"
  BY <1>0, FreshFacts
<1>3. Sound(Here, turns, prep, store, "ready") /\ TaskTypes(turns, prep, store) /\ workdir \in Projects
  BY <1>0 DEF Kept
<1>4. current \in Apps /\ apps[current].st = "open" /\ apps[current].own \in Owners /\ PreparedOwner \in Owners
  BY <1>3, HereFacts, TypesHere DEF Sound, ShownIsSteered, IsOpen, AppType, PreparedOwner, Owners
<1>5. e \in EntryType /\ e.app = NoApp /\ e.prep = c
  BY <1>2, <1>4 DEF Entry, EntryType, Statuses
<1> HIDE DEF e, c
<1>6. NameOf(Here, current) # s
  BY <1>0, <1>4, HereFacts, NamesDiffer DEF NameOf
<1>7. /\ S00.current = current /\ S00.handle = handle /\ S00.apps = apps /\ S00.procs = procs /\ S00.comp = comp /\ S00.bg = b0
      /\ S00 = [x \in RuntimeParts |-> S00[x]]
  BY HereFacts DEF RuntimeParts
<1>8. DOMAIN b0 = DOMAIN bg \ {s}
  BY DEF Restrict
<1> HIDE DEF S00
<1> DEFINE app == [apps[c] EXCEPT !.own = PreparedOwner]
           f == [apps EXCEPT ![c] = app]
<1>9. app \in AppType /\ app.st = "none" /\ app.ses = apps[c].ses /\ f \in [Apps -> AppType] /\ f[c] = app /\ \A a \in Apps : a # c => f[a] = apps[a]
  <2>1. apps[c] \in AppType /\ apps \in [Apps -> AppType]
    BY <1>2, TypesHere
  <2>2. app \in AppType /\ app.st = "none" /\ app.ses = apps[c].ses
    BY <1>2, <1>4, <2>1 DEF AppType
  <2> HIDE DEF app
  <2> QED BY <1>2, <2>1, <2>2
<1>10. S0.apps = apps /\ DOMAIN S0.bg = DOMAIN b0 \cup {NameOf(S00, S00.current)} /\ RegistryTypes(S0) /\ S0.current = current /\ S0.comp = comp
  <2>1. RegistryTypes(S00)
    <3>1. b0 \in [DOMAIN b0 -> EntryType] /\ DOMAIN b0 \subseteq Keys
      BY TypesHere DEF Restrict
    <3> HIDE DEF b0
    <3> QED BY <1>7, <3>1, TypesHere DEF RegistryTypes
  <2> DEFINE reset == FALSE
  <2> HIDE DEF reset
  <2>2. S0 = Remember(S00, reset)
    BY DEF reset
  <2> HIDE DEF S0
  <2>3. S00.current \in Apps
    BY <1>4, <1>7
  <2>4. S0.apps = S00.apps /\ DOMAIN S0.bg = DOMAIN S00.bg \cup {NameOf(S00, S00.current)} /\ RegistryTypes(S0) /\ S0.current = S00.current /\ S0.comp = S00.comp
    BY <2>1, <2>2, <2>3, RememberIs
  <2> QED BY <1>7, <2>4
<1>11. NameOf(S00, S00.current) = NameOf(Here, current)
  BY <1>7, HereFacts DEF NameOf
<1>12. s \notin DOMAIN S0.bg
  BY <1>6, <1>8, <1>10, <1>11
<1> HIDE DEF S0, f
<1>13. R = [S0 EXCEPT !.bg = Put(S0.bg, s, e), !.apps = f]
  BY <1>10 DEF f
<1> HIDE DEF R
<1>14. /\ R.bg = Put(S0.bg, s, e) /\ R.apps = f /\ R.current = S0.current /\ R.handle = S0.handle /\ R.procs = S0.procs /\ R.comp = S0.comp
       /\ R = [x \in RuntimeParts |-> R[x]]
  BY <1>10, <1>13 DEF RegistryTypes, RuntimeParts
<1>15. \A a \in Apps : apps[a].st = "open" => apps[a].ses # s
  <2> SUFFICES ASSUME NEW a \in Apps, apps[a].st = "open", apps[a].ses = s PROVE FALSE
    OBVIOUS
  <2>1. bg' = R.bg /\ apps' = f
    BY <1>1, <1>14 DEF Become
  <2>2. s \in DOMAIN bg' /\ bg'[s] = e
    BY <1>14, <2>1 DEF Put
  <2>3. a # c /\ apps'[a] = apps[a]
    BY <1>2, <1>9, <2>1
  <2> QED BY <1>5, <2>2, <2>3 DEF Overtaken
<1>16. s \in DOMAIN Here.bg /\ Here.bg[s].app \in Apps => ~IsOpen(Here, Here.bg[s].app)
  <2> SUFFICES ASSUME s \in DOMAIN bg, bg[s].app \in Apps, apps[bg[s].app].st = "open" PROVE FALSE
    BY HereFacts DEF IsOpen
  <2>1. s = NameOf(Here, bg[s].app)
    BY <1>3, HereFacts, NamesDiffer DEF Sound, OwnName, IsOpen
  <2> QED BY <1>15, <2>1, HereFacts, NamesDiffer DEF NameOf
<1>17. Sound(S00, turns, prep, store, "ready")
  <2>1. S00.bg = Restrict(Here.bg, DOMAIN Here.bg \ {s}) /\ S00.apps = Here.apps /\ S00.current = Here.current
        /\ S00.handle = Here.handle /\ S00.procs = Here.procs /\ S00.comp = Here.comp
    BY <1>7, HereFacts
  <2> QED BY <1>3, <1>7, <1>16, <2>1, DropSound
<1>18. Sound(S0, turns, prep, store, "ready")
  BY <1>17, ParkedSound DEF S0
<1>19. prep'[c].st = "cloning" /\ (\A a \in Apps : a # c => prep'[a] = prep[a]) /\ TaskTypes(turns, prep', store)
  BY <1>0, <1>2, <1>3 DEF TaskTypes
<1>20. Sound(R, turns, prep', store, "ready")
  <2> DEFINE Q == prep'
  <2>1. Q[c].st = "cloning" /\ (\A a \in Apps : a # c => Q[a] = prep[a])
    BY <1>19
  <2> HIDE DEF Q
  <2>2. S0.apps[c].st = "none" /\ R.apps = [S0.apps EXCEPT ![c] = app] /\ app.ses = S0.apps[c].ses
    BY <1>2, <1>9, <1>10, <1>14 DEF f
  <2>3. s \in Keys /\ app \in AppType /\ app.st = "none"
    BY <1>9 DEF Keys
  <2> HIDE DEF app
  <2>4. Sound(R, turns, Q, store, "ready")
    BY <1>2, <1>5, <1>12, <1>14, <1>18, <2>1, <2>2, <2>3, PlaceSound
  <2> QED BY <2>4 DEF Q
<1>21. Kept'
  <2>1. Sound(R, turns', prep', store', bridge') /\ TaskTypes(turns', prep', store') /\ workdir' \in Projects
    BY <1>0, <1>3, <1>19, <1>20
  <2> QED BY <1>1, <2>1, KeptBy
<1>22. apps' = f
  BY <1>1, <1>14 DEF Become
<1> QED BY <1>2, <1>9, <1>21, <1>22 DEF ClosesIdle

LEMMA PrepEndsSound ==
  ASSUME Kept, NEW c \in Apps, NEW status \in Statuses, PrepEnds(c, status), Builds(prep, c),
         UNCHANGED <<bridge, current, workdir, handle, procs, turns, comp, store>>
  PROVE  Kept' /\ ClosesIdle
<1> DEFINE app == IF apps[c].st = "open" THEN Closed(apps[c]) ELSE apps[c]
<1>1. Sound(Here, turns, prep, store, bridge) /\ TaskTypes(turns, prep, store) /\ workdir \in Projects
  BY DEF Kept
<1>2. apps[c] \in AppType /\ apps \in [Apps -> AppType]
  BY TypesHere
<1>3. app \in AppType /\ app.st # "open" /\ (app.ses # Null => app.ses = apps[c].ses /\ app.st = "stuck")
  <2>1. CASE apps[c].st = "open"
    BY <1>2, <2>1, ClosedFacts
  <2>2. CASE apps[c].st # "open"
    BY <1>1, <1>2, <2>2, HereFacts DEF Sound, OneOwner
  <2> QED BY <2>1, <2>2
<1>4. apps' = [apps EXCEPT ![c] = app]
  BY <1>2 DEF PrepEnds
<1> HIDE DEF app
<1>5. apps' \in [Apps -> AppType] /\ apps'[c] = app /\ \A a \in Apps : a # c => apps'[a] = apps[a]
  BY <1>2, <1>3, <1>4
<1>6. DOMAIN bg' = DOMAIN bg /\ bg' \in [DOMAIN bg -> EntryType]
      /\ \A k \in DOMAIN bg : bg'[k].app = bg[k].app /\ bg'[k].handle = bg[k].handle
  <2>1. bg \in [DOMAIN bg -> EntryType]
    BY TypesHere
  <2> DEFINE s == prep[c].ses
             e == [bg[s] EXCEPT !.status = status, !.prep = NoApp]
  <2>2. CASE Placeholder(c)
    <3>1. s \in DOMAIN bg /\ bg[s] \in EntryType
      BY <2>1, <2>2 DEF Placeholder
    <3>2. e \in EntryType /\ e.app = bg[s].app /\ e.handle = bg[s].handle
      BY <3>1 DEF EntryType
    <3>3. bg' = [bg EXCEPT ![s] = e]
      BY <2>1, <2>2, <3>1 DEF PrepEnds
    <3> HIDE DEF e, s
    <3> QED BY <2>1, <3>1, <3>2, <3>3
  <2>3. CASE ~Placeholder(c)
    BY <2>1, <2>3 DEF PrepEnds
  <2> QED BY <2>2, <2>3
<1>7. prep'[c].st = "done" /\ (\A a \in Apps : a # c => prep'[a] = prep[a]) /\ TaskTypes(turns', prep', store')
  BY <1>1 DEF PrepEnds, TaskTypes
<1>8. RegistryTypes(Here')
  BY <1>5, <1>6, TypesHere, TypesNext
<1>9. Sound(Here', turns, prep', store, bridge)
  <2> DEFINE Q == prep'
             R == Here'
  <2>1. Q[c].st \notin {"opening", "installing"} /\ (\A a \in Apps : a # c => Q[a] = prep[a])
    BY <1>7
  <2> HIDE DEF Q
  <2>2. /\ R.apps = [Here.apps EXCEPT ![c] = app] /\ R.current = Here.current /\ R.handle = Here.handle /\ R.comp = Here.comp
        /\ DOMAIN R.bg = DOMAIN Here.bg /\ \A k \in DOMAIN Here.bg : R.bg[k].app = Here.bg[k].app /\ R.bg[k].handle = Here.bg[k].handle
    BY <1>4, <1>6, HereFacts, HereNext
  <2>3. app.ses # Null => app.ses = Here.apps[c].ses /\ app.st = "stuck"
    BY <1>3, HereFacts
  <2>4. RegistryTypes(R)
    BY <1>8
  <2> HIDE DEF R
  <2>5. Sound(R, turns, Q, store, bridge)
    BY <1>1, <1>3, <2>1, <2>2, <2>3, <2>4, GivenUpSound
  <2> QED BY <2>5 DEF Q, R
<1>10. ~WorksIn(Here', turns', c)
  <2>1. ~Uses(Here, turns, c)
    BY <1>1 DEF Sound, BuiltApart
  <2>2. (\A n \in Turns : turns[n].app # c) /\ (\A s \in Sessions : comp[s] # c)
    BY <2>1, HereFacts, Unused
  <2> QED BY <2>2, HereNext DEF WorksIn
<1> QED BY <1>1, <1>5, <1>7, <1>9, <1>10 DEF Kept, ClosesIdle

LEMMA StillBuilt ==
  ASSUME Kept, NEW c \in Apps, Builds(prep, c), NEW app \in AppType, app.st = "open",
         app.ses # Null => store[app.ses] # Null /\ \A a \in Apps : a # c => apps[a].ses # app.ses,
         apps' = [apps EXCEPT ![c] = app], prep'[c].st \in {"opening", "installing"}, \A a \in Apps : a # c => prep'[a] = prep[a],
         UNCHANGED <<current, handle, bg, procs, comp>>
  PROVE  Sound(Here', turns, prep', store, bridge) /\ \A a \in Apps : apps[a].st = "open" => apps'[a].st = "open"
<1> DEFINE Q == prep'
           R == Here'
<1>1. Sound(Here, turns, prep, store, bridge)
  BY DEF Kept
<1>2. Tight(store, store)
  BY DEF Tight
<1>3. Q[c].st \in {"opening", "installing"} /\ (\A a \in Apps : a # c => Q[a] = prep[a])
  OBVIOUS
<1> HIDE DEF Q
<1>4. BuiltInto(R, Here, c, app)
  BY HereFacts, HereNext DEF BuiltInto
<1> HIDE DEF R
<1>5. Free(Here, store, c, app.ses)
  BY HereFacts DEF Free
<1>6. Here.apps[c].st = "none" \/ Builds(prep, c)
  OBVIOUS
<1>7. Sound(R, turns, Q, store, bridge)
  BY <1>1, <1>2, <1>3, <1>4, <1>5, <1>6, BuildSound
<1>8. \A a \in Apps : apps[a].st = "open" => apps'[a].st = "open"
  BY TypesHere
<1> QED BY <1>7, <1>8 DEF Q, R

LEMMA PrepCloneSound ==
  ASSUME Kept, NEW c \in Apps, PrepClone(c)
  PROVE  Kept' /\ ClosesIdle
<1>0. prep[c].st = "cloning" /\ UNCHANGED <<bridge, current, workdir, handle, procs, turns, comp, store>> /\ Builds(prep, c)
  BY DEF PrepClone, Builds
<1>1. CASE PrepEnds(c, IF Task(c) \in cut THEN "cancelled" ELSE "failed")
  <2> DEFINE status == IF Task(c) \in cut THEN "cancelled" ELSE "failed"
  <2>1. status \in Statuses /\ PrepEnds(c, status)
    BY <1>1 DEF Statuses, TurnEnd
  <2> HIDE DEF status
  <2> QED BY <1>0, <2>1, PrepEndsSound
<1>2. ASSUME NEW bad \in Flaky, apps' = [apps EXCEPT ![c] = Built(apps[c].own, Null, bad)],
             prep' = [prep EXCEPT ![c].st = "opening"], UNCHANGED bg
      PROVE  Kept' /\ ClosesIdle
  <2> DEFINE app == Built(apps[c].own, Null, bad)
  <2>1. Sound(Here, turns, prep, store, bridge) /\ TaskTypes(turns, prep, store) /\ workdir \in Projects
    BY DEF Kept
  <2>2. app \in AppType /\ app.st = "open" /\ app.ses = Null
    BY TypesHere, FlakyIsBoolean DEF Built, AppType
  <2>3. apps' = [apps EXCEPT ![c] = app]
    BY <1>2
  <2> HIDE DEF app
  <2>4. prep'[c].st = "opening" /\ (\A a \in Apps : a # c => prep'[a] = prep[a]) /\ TaskTypes(turns', prep', store')
    BY <1>0, <1>2, <2>1 DEF TaskTypes
  <2>5. Sound(Here', turns, prep', store, bridge) /\ \A a \in Apps : apps[a].st = "open" => apps'[a].st = "open"
    BY <1>0, <1>2, <2>2, <2>3, <2>4, StillBuilt
  <2> QED BY <1>0, <2>1, <2>4, <2>5 DEF Kept, ClosesIdle
<1> QED BY <1>1, <1>2 DEF PrepClone

LEMMA PrepOpenSound ==
  ASSUME Kept, NEW c \in Apps, PrepOpen(c)
  PROVE  Kept' /\ ClosesIdle
<1>0. prep[c].st = "opening" /\ UNCHANGED <<bridge, current, workdir, handle, procs, turns, comp, store>> /\ Builds(prep, c)
  BY DEF PrepOpen, Builds
<1>1. CASE PrepEnds(c, IF Task(c) \in cut THEN "cancelled" ELSE "failed")
  <2> DEFINE status == IF Task(c) \in cut THEN "cancelled" ELSE "failed"
  <2>1. status \in Statuses /\ PrepEnds(c, status)
    BY <1>1 DEF Statuses, TurnEnd
  <2> HIDE DEF status
  <2> QED BY <1>0, <2>1, PrepEndsSound
<1>2. ASSUME ~Locked(prep[c].ses), store[prep[c].ses] = apps[c].own, apps' = [apps EXCEPT ![c].ses = prep[c].ses],
             prep' = [prep EXCEPT ![c].st = "installing"], UNCHANGED bg
      PROVE  Kept' /\ ClosesIdle
  <2> DEFINE s == prep[c].ses
             app == [apps[c] EXCEPT !.ses = s]
  <2>1. Sound(Here, turns, prep, store, bridge) /\ TaskTypes(turns, prep, store) /\ workdir \in Projects
    BY DEF Kept
  <2>2. apps[c] \in AppType /\ apps[c].st = "open" /\ apps \in [Apps -> AppType]
    BY <1>0, <2>1, TypesHere, HereFacts DEF Sound, BuiltApart, IsOpen
  <2>3. s \in Sessions \cup {Null}
    BY <2>1 DEF TaskTypes
  <2>4. app \in AppType /\ app.st = "open" /\ app.ses = s
    BY <2>2, <2>3 DEF AppType
  <2>5. apps' = [apps EXCEPT ![c] = app]
    BY <1>2, <2>2
  <2>6. s # Null => store[s] # Null /\ \A a \in Apps : a # c => Here.apps[a].ses # s
    <3> SUFFICES ASSUME s # Null PROVE store[s] # Null /\ \A a \in Apps : a # c => apps[a].ses # s
      BY HereFacts
    <3>1. store[s] # Null
      BY <1>2, <2>2, DesktopAssumption DEF AppType, Owners
    <3>2. \A a \in Apps : apps[a].ses # s
      BY <1>2, <2>1, HereFacts DEF Locked, Sound, OneOwner
    <3> QED BY <3>1, <3>2
  <2> HIDE DEF app, s
  <2>7. prep'[c].st = "installing" /\ (\A a \in Apps : a # c => prep'[a] = prep[a]) /\ TaskTypes(turns', prep', store')
    BY <1>0, <1>2, <2>1 DEF TaskTypes
  <2>8. app.ses # Null => store[app.ses] # Null /\ \A a \in Apps : a # c => apps[a].ses # app.ses
    BY <2>4, <2>6, HereFacts
  <2>9. Sound(Here', turns, prep', store, bridge) /\ \A a \in Apps : apps[a].st = "open" => apps'[a].st = "open"
    BY <1>0, <1>2, <2>4, <2>5, <2>7, <2>8, StillBuilt
  <2> QED BY <1>0, <2>1, <2>7, <2>9 DEF Kept, ClosesIdle
<1> QED BY <1>1, <1>2 DEF PrepOpen

LEMMA PrepInstallSound ==
  ASSUME Kept, bridge # "stopped", NEW c \in Apps, PrepInstall(c), ~Misfiled'
  PROVE  Kept' /\ ClosesIdle
<1>0. prep[c].st = "installing" /\ UNCHANGED <<bridge, current, workdir, handle, procs, turns, comp, store>> /\ Builds(prep, c)
  BY DEF PrepInstall, Builds
<1>1. CASE PrepEnds(c, "cancelled")
  BY <1>0, <1>1, PrepEndsSound DEF Statuses, TurnEnd
<1>2. ASSUME Placeholder(c), bg' = [bg EXCEPT ![prep[c].ses] = [@ EXCEPT !.app = c, !.prep = NoApp, !.status = "idle"]],
             prep' = [prep EXCEPT ![c] = [st |-> "done", ses |-> Null]], UNCHANGED apps
      PROVE  Kept' /\ ClosesIdle
  <2> DEFINE s == prep[c].ses
             e == [bg[s] EXCEPT !.app = c, !.prep = NoApp, !.status = "idle"]
  <2>1. Sound(Here, turns, prep, store, bridge) /\ TaskTypes(turns, prep, store) /\ workdir \in Projects
    BY DEF Kept
  <2>2. s \in DOMAIN bg /\ bg \in [DOMAIN bg -> EntryType] /\ bg[s] \in EntryType /\ s \in Keys
    BY <1>2, TypesHere DEF Placeholder
  <2>3. e \in EntryType /\ e.app = c
    BY <2>2 DEF EntryType, Statuses
  <2>4. bg' = [bg EXCEPT ![s] = e]
    BY <1>2, <2>2
  <2>5. bg[s].app = NoApp
    BY <1>2, <2>2, NamesDiffer DEF Placeholder, EntryType
  <2> HIDE DEF s, e
  <2>6. bg' = Put(bg, s, e) /\ s \in DOMAIN bg' /\ bg'[s].app = c
    BY <2>2, <2>3, <2>4 DEF Put
  <2>7. prep'[c].st = "done" /\ (\A a \in Apps : a # c => prep'[a] = prep[a]) /\ TaskTypes(turns', prep', store')
    BY <1>0, <1>2, <2>1 DEF TaskTypes
  <2>8. apps[c].st = "open"
    BY <1>0, <2>1, HereFacts DEF Sound, BuiltApart, IsOpen
  <2>9. s = NameOf(Here, c)
    BY <1>2, <2>6, <2>8, HereFacts, NamesDiffer DEF Misfiled, FiledAs, NameOf
  <2>10. Sound(Here', turns, prep', store, bridge)
    <3> DEFINE Q == prep'
               R == Here'
    <3>1. Q[c].st \notin {"opening", "installing", "cloning"} /\ (\A a \in Apps : a # c => Q[a] = prep[a])
      BY <2>7
    <3> HIDE DEF Q
    <3>2. /\ R.bg = Put(Here.bg, s, e) /\ R.apps = Here.apps /\ R.current = Here.current /\ R.handle = Here.handle
          /\ R.comp = Here.comp /\ R.procs = Here.procs /\ R = [x \in RuntimeParts |-> R[x]]
      BY <1>0, <1>2, <2>6, HereFacts, HereNext
    <3> HIDE DEF R
    <3>3. Here.apps[c].st # "none"
      BY <2>8, HereFacts
    <3>4. ~(Here.bg[s].app \in Apps)
      BY <2>5, HereFacts, NamesDiffer
    <3>5. Sound(R, turns, Q, store, bridge)
      BY <1>0, <2>1, <2>2, <2>3, <2>9, <3>1, <3>2, <3>3, <3>4, InstallSound
    <3> QED BY <3>5 DEF Q, R
  <2> QED BY <1>0, <1>2, <2>1, <2>7, <2>10 DEF Kept, ClosesIdle
<1> QED BY <1>1, <1>2 DEF PrepInstall

----------------------------------------------------------------------------
(* Turns and compactions.                                                      *)
LEMMA FinishTurnSound ==
  ASSUME Kept, NEW n \in Turns, FinishTurn(n)
  PROVE  Kept' /\ ClosesIdle
<1> DEFINE S == Unhandled(Here, n)
           k == turns[n].key
           U == turns'
<1>0. Become(Reclaim(S)) /\ turns' = [turns EXCEPT ![n] = [NoRun EXCEPT !.st = "ended"]] /\ UNCHANGED <<bridge, workdir, prep, store>>
  BY DEF FinishTurn
<1>1. Sound(Here, turns, prep, store, bridge) /\ TaskTypes(turns, prep, store) /\ workdir \in Projects
  BY DEF Kept
<1>2. U \in TurnTypes /\ U[n].st = "ended" /\ U[n].app = NoApp /\ \A m \in Turns : m # n => U[m] = turns[m]
  <2> DEFINE r == [NoRun EXCEPT !.st = "ended"]
  <2>1. /\ r \in [st : {"none", "running", "paused", "ending", "ended"}, app : Apps \cup {NoApp}, key : Sessions \cup {Null}, stop : BOOLEAN]
        /\ r.st = "ended" /\ r.app = NoApp
    BY DEF NoRun
  <2>2. turns' = [turns EXCEPT ![n] = r]
    BY <1>0
  <2> HIDE DEF r
  <2> QED BY <1>1, <2>1, <2>2 DEF TaskTypes, TurnTypes
<1> HIDE DEF U
<1>3. ~Runs(U, n) /\ \A m \in Turns : Runs(U, m) => Runs(turns, m) /\ U[m].app = turns[m].app /\ U[m].key = turns[m].key
  BY <1>2 DEF Runs
<1>4. \A m \in Turns : U[m].app = turns[m].app \/ U[m].app = NoApp
  BY <1>2
<1>5. /\ RegistryTypes(S) /\ S.apps = apps /\ S.current = current /\ S.comp = comp /\ DOMAIN S.bg = DOMAIN bg
      /\ \A j \in DOMAIN bg : S.bg[j].app = bg[j].app /\ (S.bg[j].handle = bg[j].handle \/ bg[j].handle = n)
      /\ S.handle = handle \/ handle = n
  <2> DEFINE h == IF handle = n THEN NoTurn ELSE handle
             S1 == [Here EXCEPT !.handle = h]
             e == [bg[k] EXCEPT !.handle = NoTurn, !.status = IF @ \in TurnEnd THEN @ ELSE "failed"]
  <2>0. current \in Apps \cup {NoApp} /\ h \in Turns \cup {NoTurn} /\ bg \in [DOMAIN bg -> EntryType] /\ DOMAIN bg \subseteq Keys
        /\ apps \in [Apps -> AppType] /\ procs \in [Apps -> BOOLEAN] /\ comp \in [Sessions -> Apps \cup {NoApp}]
    BY TypesHere
  <2>1. /\ S1.current = current /\ S1.handle = h /\ S1.bg = bg /\ S1.apps = apps /\ S1.procs = procs /\ S1.comp = comp
        /\ S1 = [x \in RuntimeParts |-> S1[x]]
    BY HereFacts DEF RuntimeParts
  <2>2. (IF Here.handle = n THEN [Here EXCEPT !.handle = NoTurn] ELSE Here) = S1
    <3>1. CASE handle = n
      BY <3>1, HereFacts
    <3>2. CASE handle # n
      <4>1. h = Here.handle /\ Here.handle # n
        BY <3>2, HereFacts
      <4> HIDE DEF h
      <4>2. \A x \in RuntimeParts : S1[x] = Here[x]
        BY <4>1, <2>1, HereFacts DEF RuntimeParts
      <4> HIDE DEF S1
      <4> QED BY <4>1, <4>2, <2>1, HereFacts
    <3> QED BY <3>1, <3>2
  <2> HIDE DEF h, S1
  <2>3. CASE k \in DOMAIN bg /\ bg[k].handle = n
    <3>1. S = [S1 EXCEPT !.bg[k].handle = NoTurn, !.bg[k].status = IF @ \in TurnEnd THEN @ ELSE "failed"]
      BY <2>2, <2>3, HereFacts DEF Unhandled
    <3> DEFINE b == [bg EXCEPT ![k] = e]
    <3>2. S = [S1 EXCEPT !.bg = b]
      BY <2>0, <2>1, <2>3, <3>1, ZenonT(60)
    <3>3. bg[k] \in EntryType
      BY <2>0, <2>3
    <3>4. e \in EntryType /\ e.app = bg[k].app
      <4> DEFINE status == IF bg[k].status \in TurnEnd THEN bg[k].status ELSE "failed"
      <4>1. status \in Statuses
        BY DEF Statuses, TurnEnd
      <4>2. e = [bg[k] EXCEPT !.handle = NoTurn, !.status = status]
        BY <3>3 DEF EntryType
      <4> HIDE DEF status
      <4> QED BY <3>3, <4>1, <4>2 DEF EntryType
    <3> HIDE DEF e
    <3>5. b \in [DOMAIN bg -> EntryType] /\ DOMAIN b = DOMAIN bg
          /\ \A j \in DOMAIN bg : b[j].app = bg[j].app /\ (b[j].handle = bg[j].handle \/ bg[j].handle = n)
      BY <2>0, <2>3, <3>4
    <3> HIDE DEF b, S, k
    <3>6. S.current = current /\ S.handle = h /\ S.bg = b /\ S.apps = apps /\ S.procs = procs /\ S.comp = comp
          /\ S = [x \in RuntimeParts |-> S[x]]
      BY <2>1, <3>2 DEF RuntimeParts
    <3>7. RegistryTypes(S)
      BY <2>0, <3>5, <3>6 DEF RegistryTypes
    <3> QED BY <3>5, <3>6, <3>7 DEF h
  <2>4. CASE ~(k \in DOMAIN bg /\ bg[k].handle = n)
    <3>1. S = S1
      BY <2>2, <2>4, HereFacts DEF Unhandled
    <3>2. RegistryTypes(S)
      BY <2>0, <2>1, <3>1 DEF RegistryTypes
    <3> QED BY <2>1, <3>1, <3>2 DEF h
  <2> QED BY <2>3, <2>4
<1> HIDE DEF S
<1>6. Sound(S, U, prep, store, bridge)
  <2>1. /\ S.apps = Here.apps /\ S.current = Here.current /\ S.comp = Here.comp /\ DOMAIN S.bg = DOMAIN Here.bg
        /\ \A j \in DOMAIN Here.bg : S.bg[j].app = Here.bg[j].app
    BY <1>5, HereFacts
  <2>2. \A j \in DOMAIN Here.bg : S.bg[j].handle = Here.bg[j].handle \/ ~Runs(U, Here.bg[j].handle)
    BY <1>3, <1>5, HereFacts
  <2>3. S.handle = Here.handle \/ ~Runs(U, Here.handle)
    BY <1>3, <1>5, HereFacts
  <2>4. \A s \in Sessions : S.comp[s] \in {Here.comp[s], NoApp}
    BY <2>1
  <2> QED BY <1>1, <1>3, <1>4, <1>5, <2>1, <2>2, <2>3, <2>4, SameRegistry
<1>7. Sound(S, turns', prep', store', bridge') /\ TaskTypes(turns', prep', store') /\ workdir' \in Projects
  BY <1>0, <1>1, <1>2, <1>6 DEF U, TaskTypes
<1>8. \A a \in Apps : apps[a].st = "open" => IsOpen(S, a)
  BY <1>5 DEF IsOpen
<1> QED BY <1>0, <1>7, <1>8, ReclaimStep

LEMMA StartCompactionSound ==
  ASSUME Kept, StartCompaction
  PROVE  Kept' /\ ClosesIdle
<1> DEFINE s == apps[current].ses
<1>0. /\ bridge = "ready" /\ current # NoApp /\ s # Null /\ UNCHANGED <<bridge, current, workdir, handle, apps, procs, turns, prep, store>>
      /\ comp' = [comp EXCEPT ![s] = current]
      /\ bg' = IF s \in DOMAIN bg THEN [bg EXCEPT ![s].retain = TRUE] ELSE bg
  BY DEF StartCompaction, Ready
<1>1. Sound(Here, turns, prep, store, bridge) /\ TaskTypes(turns, prep, store) /\ workdir \in Projects
  BY DEF Kept
<1>2. bg \in [DOMAIN bg -> EntryType] /\ current \in Apps /\ comp \in [Sessions -> Apps \cup {NoApp}] /\ s \in Sessions
  BY <1>0, TypesHere DEF AppType
<1>3. /\ DOMAIN bg' = DOMAIN bg /\ bg' \in [DOMAIN bg -> EntryType]
      /\ \A k \in DOMAIN bg : bg'[k].app = bg[k].app /\ bg'[k].handle = bg[k].handle
  <2>1. CASE s \in DOMAIN bg
    <3> DEFINE e == [bg[s] EXCEPT !.retain = TRUE]
    <3>1. e \in EntryType /\ e.app = bg[s].app /\ e.handle = bg[s].handle
      BY <1>2, <2>1, ZenonT(60) DEF EntryType
    <3>2. bg' = [bg EXCEPT ![s] = e]
      BY <1>0, <2>1
    <3> HIDE DEF e, s
    <3> QED BY <1>2, <2>1, <3>1, <3>2
  <2>2. CASE s \notin DOMAIN bg
    BY <1>0, <1>2, <2>2
  <2> QED BY <2>1, <2>2
<1>4. comp' \in [Sessions -> Apps \cup {NoApp}] /\ \A t \in Sessions : comp'[t] = comp[t] \/ (comp'[t] = current /\ t = s)
  BY <1>0, <1>2
<1>5. RegistryTypes(Here')
  BY <1>0, <1>3, <1>4, TypesHere, TypesNext
<1>6. Sound(Here', turns, prep, store, bridge)
  <2> DEFINE R == Here'
  <2>1. /\ R.apps = Here.apps /\ R.current = Here.current /\ R.handle = Here.handle /\ DOMAIN R.bg = DOMAIN Here.bg
        /\ \A k \in DOMAIN Here.bg : R.bg[k].app = Here.bg[k].app /\ R.bg[k].handle = Here.bg[k].handle
        /\ \A t \in Sessions : R.comp[t] = Here.comp[t] \/ (R.comp[t] = Here.current /\ Here.apps[Here.current].ses = t)
    BY <1>0, <1>3, <1>4, HereFacts, HereNext
  <2>2. RegistryTypes(R)
    BY <1>5
  <2> HIDE DEF R
  <2>3. Sound(R, turns, prep, store, bridge)
    BY <1>1, <2>1, <2>2, SameRegistry
  <2> QED BY <2>3 DEF R
<1> QED BY <1>0, <1>1, <1>6 DEF Kept, ClosesIdle

LEMMA EndCompactionSound ==
  ASSUME Kept, NEW s \in Sessions, EndCompaction(s)
  PROVE  Kept' /\ ClosesIdle
<1> DEFINE S == Released(Here, s)
           f == [comp EXCEPT ![s] = NoApp]
           S1 == [Here EXCEPT !.comp = f]
           e == [bg[s] EXCEPT !.retain = FALSE]
           b == [bg EXCEPT ![s] = e]
<1>0. Become(Reclaim(S)) /\ UNCHANGED <<bridge, workdir, turns, prep, store>>
  BY DEF EndCompaction
<1>1. Sound(Here, turns, prep, store, bridge) /\ TaskTypes(turns, prep, store) /\ workdir \in Projects
  BY DEF Kept
<1>2. /\ current \in Apps \cup {NoApp} /\ handle \in Turns \cup {NoTurn} /\ bg \in [DOMAIN bg -> EntryType] /\ DOMAIN bg \subseteq Keys
      /\ apps \in [Apps -> AppType] /\ procs \in [Apps -> BOOLEAN] /\ comp \in [Sessions -> Apps \cup {NoApp}]
  BY TypesHere
<1>3. f \in [Sessions -> Apps \cup {NoApp}] /\ \A t \in Sessions : f[t] \in {comp[t], NoApp}
  BY <1>2
<1>4. [Here EXCEPT !.comp[s] = NoApp] = S1
  BY HereFacts
<1>5. /\ S1.current = current /\ S1.handle = handle /\ S1.bg = bg /\ S1.apps = apps /\ S1.procs = procs /\ S1.comp = f
      /\ S1 = [x \in RuntimeParts |-> S1[x]]
  BY HereFacts DEF RuntimeParts
<1>6. S \in {S1, [S1 EXCEPT !.bg = b]} /\ (S # S1 => s \in DOMAIN bg)
  <2>1. S = S1 \/ (s \in DOMAIN bg /\ S = [S1 EXCEPT !.bg[s].retain = FALSE])
    BY <1>4, HereFacts DEF Released
  <2> HIDE DEF S1, S
  <2> QED BY <1>5, <2>1
<1> HIDE DEF S1, S, f
<1>7. /\ RegistryTypes(S) /\ S.apps = apps /\ S.current = current /\ S.handle = handle /\ S.comp = f /\ DOMAIN S.bg = DOMAIN bg
      /\ \A k \in DOMAIN bg : S.bg[k].app = bg[k].app /\ S.bg[k].handle = bg[k].handle
  <2>1. CASE S = S1
    <3>1. RegistryTypes(S)
      BY <1>2, <1>3, <1>5, <2>1 DEF RegistryTypes
    <3> QED BY <1>5, <2>1, <3>1
  <2>2. CASE S # S1
    <3>1. e \in EntryType /\ e.app = bg[s].app /\ e.handle = bg[s].handle
      BY <1>2, <1>6, <2>2, ZenonT(60) DEF EntryType
    <3> HIDE DEF e
    <3>2. b \in [DOMAIN bg -> EntryType] /\ DOMAIN b = DOMAIN bg /\ \A k \in DOMAIN bg : b[k].app = bg[k].app /\ b[k].handle = bg[k].handle
      BY <1>2, <1>6, <2>2, <3>1
    <3> HIDE DEF b
    <3>3. S.bg = b /\ S.current = current /\ S.handle = handle /\ S.apps = apps /\ S.procs = procs /\ S.comp = f
          /\ S = [x \in RuntimeParts |-> S[x]]
      BY <1>5, <1>6, <2>2 DEF RuntimeParts
    <3>4. RegistryTypes(S)
      BY <1>2, <1>3, <3>2, <3>3 DEF RegistryTypes
    <3> QED BY <3>2, <3>3, <3>4
  <2> QED BY <2>1, <2>2
<1>8. Sound(S, turns, prep, store, bridge)
  <2>1. /\ S.apps = Here.apps /\ S.current = Here.current /\ S.handle = Here.handle /\ DOMAIN S.bg = DOMAIN Here.bg
        /\ \A k \in DOMAIN Here.bg : S.bg[k].app = Here.bg[k].app /\ S.bg[k].handle = Here.bg[k].handle
    BY <1>7, HereFacts
  <2>2. \A t \in Sessions : S.comp[t] \in {Here.comp[t], NoApp}
    BY <1>3, <1>7, HereFacts
  <2> QED BY <1>1, <1>7, <2>1, <2>2, SameRegistry
<1>9. Sound(S, turns', prep', store', bridge') /\ TaskTypes(turns', prep', store') /\ workdir' \in Projects
  BY <1>0, <1>1, <1>8
<1>10. \A a \in Apps : apps[a].st = "open" => IsOpen(S, a)
  BY <1>7 DEF IsOpen
<1> QED BY <1>0, <1>9, <1>10, ReclaimStep

\* The Application on screen gets a Session before its first Turn.
LEMMA TurnStartSound ==
  ASSUME Kept, TurnStart, ~Misfiled'
  PROVE  Kept' /\ ClosesIdle
<1> DEFINE own == apps[current].own
           s == IF apps[current].ses = Null THEN NewSession ELSE apps[current].ses
           n == NextTurn
           S0 == [Ensured(Here, s) EXCEPT !.handle = n]
           reset == TRUE
           S == Remember(S0, reset)
           t == [st |-> "running", app |-> current, key |-> s, stop |-> FALSE]
<1>0. /\ bridge = "ready" /\ current # NoApp /\ handle = NoTurn /\ TurnLeft /\ (apps[current].ses = Null => SessionLeft)
      /\ Become(S) /\ turns' = [turns EXCEPT ![n] = t] /\ UNCHANGED <<bridge, workdir, prep>>
      /\ store' = IF apps[current].ses = Null THEN [store EXCEPT ![s] = own] ELSE store
  BY DEF TurnStart, Ready
<1> HIDE DEF reset
<1>1. Sound(Here, turns, prep, store, "ready") /\ TaskTypes(turns, prep, store) /\ workdir \in Projects /\ Sound(Here, turns, prep, store, bridge)
  BY <1>0 DEF Kept
<1>2. /\ current \in Apps /\ apps[current] \in AppType /\ apps[current].st = "open" /\ own \in Owners
      /\ apps \in [Apps -> AppType] /\ handle \in Turns \cup {NoTurn}
  BY <1>0, <1>1, HereFacts, TypesHere DEF Sound, ShownIsSteered, IsOpen, AppType
<1>3. n \in Turns /\ turns[n].st = "none"
  BY <1>0 DEF TurnLeft, NextTurn
<1>4. s \in Sessions /\ s # Null /\ (apps[current].ses # Null => s = apps[current].ses) /\ (apps[current].ses = Null => store[s] = Null)
  BY <1>0, <1>2, NewSessionFacts, NamesDiffer DEF AppType
<1> HIDE DEF n, s
<1> DEFINE app == [apps[current] EXCEPT !.ses = s, !.st = "open"]
           f == [apps EXCEPT ![current] = app]
<1>5. app \in AppType /\ app.st = "open" /\ app.ses = s
  BY <1>2, <1>4 DEF AppType
<1>6. S0 = [Here EXCEPT !.apps = f, !.handle = n]
  BY <1>2, HereFacts DEF Ensured
<1> HIDE DEF app
<1>7. f \in [Apps -> AppType] /\ f[current] = app /\ \A a \in Apps : a # current => f[a] = apps[a]
  BY <1>2, <1>5
<1> HIDE DEF f, S0
<1>8. /\ S0.current = current /\ S0.handle = n /\ S0.bg = bg /\ S0.apps = f /\ S0.procs = procs /\ S0.comp = comp
      /\ S0 = [x \in RuntimeParts |-> S0[x]]
  BY <1>6, HereFacts DEF RuntimeParts
<1>9. RegistryTypes(S0)
  BY <1>3, <1>7, <1>8, TypesHere DEF RegistryTypes
<1>10. NameOf(S0, current) = s
  BY <1>4, <1>5, <1>7, <1>8 DEF NameOf
<1>11. /\ RegistryTypes(S) /\ S.current = current /\ S.handle = n /\ S.apps = f /\ S.comp = comp
       /\ DOMAIN S.bg = DOMAIN bg \cup {s} /\ S.bg[s].app = current /\ S.bg[s].handle = n
       /\ \A j \in DOMAIN bg : j # s => S.bg[j] = bg[j]
  <2> HIDE DEF S
  <2>1. /\ RegistryTypes(S) /\ S.current = S0.current /\ S.handle = S0.handle /\ S.apps = S0.apps /\ S.comp = S0.comp
        /\ DOMAIN S.bg = DOMAIN S0.bg \cup {s} /\ S.bg[s].app = S0.current /\ S.bg[s].handle = S0.handle
        /\ \A j \in DOMAIN S0.bg : j # s => S.bg[j] = S0.bg[j]
    BY <1>2, <1>8, <1>9, <1>10, RememberIs DEF S
  <2> QED BY <1>8, <2>1
<1> HIDE DEF S
<1>12. Here' = S
  BY <1>0, <1>11, HereBecomes DEF RegistryTypes
<1> DEFINE U == turns'
           E == store'
<1>13. U \in TurnTypes /\ U[n] = t /\ \A m \in Turns : m # n => U[m] = turns[m]
  <2>1. t \in [st : {"none", "running", "paused", "ending", "ended"}, app : Apps \cup {NoApp}, key : Sessions \cup {Null}, stop : BOOLEAN]
    BY <1>2, <1>4
  <2> HIDE DEF t
  <2> QED BY <1>0, <1>1, <1>3, <2>1 DEF TaskTypes, TurnTypes
<1>14. E \in [Sessions -> Owners \cup {Null}] /\ E[s] # Null /\ Tight(store, E)
  <2>1. Null \notin Owners
    BY DesktopAssumption DEF Owners
  <2>2. store \in [Sessions -> Owners \cup {Null}]
    BY <1>1 DEF TaskTypes
  <2>3. CASE apps[current].ses = Null
    BY <1>0, <1>2, <1>4, <2>1, <2>2, <2>3 DEF Tight
  <2>4. CASE apps[current].ses # Null
    BY <1>0, <1>1, <1>2, <1>4, <2>2, <2>4, HereFacts DEF Tight, Sound, OneOwner
  <2> QED BY <2>3, <2>4
<1> HIDE DEF U, E
<1>15. \A a \in Apps : a # current => apps[a].ses # s
  <2>1. \A a, b \in Apps : apps[a].ses # Null /\ apps[a].ses = apps[b].ses => a = b
    BY <1>1, HereFacts DEF Sound, OneOwner
  <2>2. \A a \in Apps : apps[a].ses # Null => store[apps[a].ses] # Null
    BY <1>1, HereFacts DEF Sound, OneOwner
  <2> QED BY <1>2, <1>4, <2>1, <2>2
<1>16. \A a \in Apps : a # current => S.apps[a] = apps[a] /\ (IsOpen(S, a) <=> IsOpen(Here, a)) /\ NameOf(S, a) = NameOf(Here, a)
  BY <1>7, <1>11, HereFacts DEF IsOpen, NameOf
<1>17. IsOpen(S, current) /\ IsOpen(Here, current) /\ S.apps[current].ses = s /\ S.apps[current].st = "open"
  BY <1>2, <1>5, <1>7, <1>11, HereFacts DEF IsOpen
<1>18. \A m \in Turns : Runs(turns, m) => turns[m].app # current
  BY <1>0, <1>1, HereFacts, NamesDiffer DEF Sound, ShownIsSteered
<1>19. \A m \in Turns : Runs(U, m) => m = n \/ (m # n /\ Runs(turns, m) /\ U[m] = turns[m])
  BY <1>13 DEF Runs
<1>20. OneOwner(S, E)
  <2>1. \A a \in Apps : S.apps[a].ses # Null => S.apps[a].st \in {"open", "stuck"} /\ E[S.apps[a].ses] # Null
    <3> SUFFICES ASSUME NEW a \in Apps, S.apps[a].ses # Null PROVE S.apps[a].st \in {"open", "stuck"} /\ E[S.apps[a].ses] # Null
      OBVIOUS
    <3>1. CASE a = current
      BY <1>14, <1>17, <3>1
    <3>2. CASE a # current
      <4>1. apps[a].st \in {"open", "stuck"} /\ store[apps[a].ses] # Null /\ apps[a].ses \in Sessions
        BY <1>1, <1>2, <1>16, <3>2, HereFacts DEF Sound, OneOwner, AppType
      <4> QED BY <1>14, <1>16, <3>2, <4>1 DEF Tight
    <3> QED BY <3>1, <3>2
  <2>2. \A a, b \in Apps : S.apps[a].ses # Null /\ S.apps[a].ses = S.apps[b].ses => a = b
    <3>1. \A a, b \in Apps : apps[a].ses # Null /\ apps[a].ses = apps[b].ses => a = b
      BY <1>1, HereFacts DEF Sound, OneOwner
    <3> SUFFICES ASSUME NEW a \in Apps, NEW b \in Apps, S.apps[a].ses # Null, S.apps[a].ses = S.apps[b].ses PROVE a = b
      OBVIOUS
    <3>2. CASE a # current /\ b # current
      BY <1>16, <3>1, <3>2
    <3>3. CASE a = current \/ b = current
      BY <1>15, <1>16, <1>17, <3>3
    <3> QED BY <3>2, <3>3
  <2> QED BY <2>1, <2>2 DEF OneOwner
<1>21. OwnName(S)
  BY <1>12, Untangled
<1>22. BuiltApart(S, U, prep)
  <2> SUFFICES ASSUME NEW c \in Apps
               PROVE  /\ S.apps[c].st = "none" \/ Builds(prep, c) => ~Uses(S, U, c)
                      /\ prep[c].st \in {"opening", "installing"} => IsOpen(S, c)
    BY DEF BuiltApart
  <2>1. /\ apps[c].st = "none" \/ Builds(prep, c) => ~Uses(Here, turns, c)
        /\ prep[c].st \in {"opening", "installing"} => IsOpen(Here, c)
    BY <1>1, HereFacts DEF Sound, BuiltApart
  <2>2. CASE c = current
    <3>1. Uses(Here, turns, c)
      BY <2>2, HereFacts DEF Uses
    <3> QED BY <1>17, <2>1, <2>2, <3>1
  <2>3. CASE c # current
    <3>1. Uses(S, U, c) => Uses(Here, turns, c)
      <4>1. ASSUME NEW k \in DOMAIN S.bg, S.bg[k].app = c PROVE Uses(Here, turns, c)
        BY <1>11, <2>3, <4>1, HereFacts DEF Uses
      <4>2. ASSUME NEW m \in Turns, U[m].app = c PROVE Uses(Here, turns, c)
        BY <1>13, <2>3, <4>2 DEF Uses
      <4>3. ASSUME NEW q \in Sessions, S.comp[q] = c PROVE Uses(Here, turns, c)
        BY <1>11, <4>3, HereFacts DEF Uses
      <4> QED BY <1>11, <2>3, <4>1, <4>2, <4>3 DEF Uses
    <3> QED BY <1>16, <2>1, <2>3, <3>1
  <2> QED BY <2>2, <2>3
<1>23. CompactsItsOwn(S)
  <2> SUFFICES ASSUME NEW q \in Sessions, comp[q] # NoApp, IsOpen(S, comp[q]) PROVE S.apps[comp[q]].ses = q
    BY <1>11 DEF CompactsItsOwn
  <2>1. comp[q] \in Apps
    BY TypesHere
  <2>2. apps[comp[q]].ses = q
    BY <1>1, <1>16, <1>17, <2>1, HereFacts DEF Sound, CompactsItsOwn
  <2>3. CASE comp[q] = current
    BY <1>4, <1>17, <2>2, <2>3, NamesDiffer
  <2>4. CASE comp[q] # current
    BY <1>16, <2>1, <2>2, <2>4
  <2> QED BY <2>3, <2>4
<1>24. \A m \in Turns : Runs(U, m) => U[m].app \in Apps /\ U[m].key \in Sessions
  BY <1>1, <1>2, <1>4, <1>13, <1>19 DEF Sound
<1>25. TurnsAreFiled(S, U)
  <2> SUFFICES ASSUME NEW m \in Turns, Runs(U, m), IsOpen(S, U[m].app)
               PROVE  U[m].key \in DOMAIN S.bg /\ S.bg[U[m].key].app = U[m].app /\ S.bg[U[m].key].handle = m
    BY <1>24 DEF TurnsAreFiled
  <2>1. CASE m = n
    BY <1>11, <1>13, <2>1
  <2>2. CASE m # n
    <3>1. Runs(turns, m) /\ U[m] = turns[m] /\ turns[m].app # current /\ turns[m].app \in Apps
      BY <1>18, <1>19, <1>24, <2>2
    <3>2. IsOpen(Here, turns[m].app)
      BY <1>16, <3>1
    <3>3. turns[m].key \in DOMAIN bg /\ bg[turns[m].key].app = turns[m].app /\ bg[turns[m].key].handle = m
      BY <1>1, <3>1, <3>2, HereFacts DEF Sound, TurnsAreFiled
    <3>4. turns[m].key = NameOf(Here, turns[m].app)
      BY <1>1, <3>1, <3>2, TurnsName
    <3>5. turns[m].key # s
      BY <1>4, <1>15, <3>1, <3>4, HereFacts, NamesDiffer DEF NameOf
    <3> QED BY <1>11, <3>1, <3>3, <3>5
  <2> QED BY <2>1, <2>2
<1>26. ASSUME NEW a \in Apps, IsOpen(S, a) PROVE Reached(S, prep, a)
  <2>1. CASE a = current
    BY <1>11, <2>1 DEF Reached
  <2>2. CASE a # current
    <3>1. Reached(Here, prep, a)
      BY <1>1, <1>16, <1>26, <2>2 DEF Sound
    <3>2. ASSUME NEW k \in DOMAIN bg, bg[k].app = a PROVE Reached(S, prep, a)
      <4>1. k = NameOf(Here, a)
        BY <1>1, <1>16, <1>26, <2>2, <3>2, HereFacts, NamesDiffer DEF Sound, OwnName
      <4>2. k # s
        BY <1>4, <1>15, <2>2, <4>1, HereFacts, NamesDiffer DEF NameOf
      <4> QED BY <1>11, <3>2, <4>2 DEF Reached
    <3> QED BY <2>2, <3>1, <3>2, HereFacts DEF Reached
  <2> QED BY <2>1, <2>2
<1>27. ShownIsSteered(S, U)
  BY <1>2, <1>11, <1>13, <1>17, <1>18, <1>19 DEF ShownIsSteered
<1>28. Sound(S, U, prep, E, "ready")
  BY <1>11, <1>20, <1>21, <1>22, <1>23, <1>24, <1>25, <1>26, <1>27 DEF Sound
<1>29. Kept'
  BY <1>0, <1>1, <1>12, <1>13, <1>14, <1>28 DEF Kept, TaskTypes, U, E
<1>30. \A a \in Apps : apps[a].st = "open" => apps'[a].st = "open"
  BY <1>12, <1>16, <1>17, HereFacts, HereNext DEF IsOpen
<1> QED BY <1>29, <1>30 DEF ClosesIdle

----------------------------------------------------------------------------
(* The Application on screen changes its Session.                              *)
LEMMA RenamedSound ==
  ASSUME Kept, bridge = "ready", current # NoApp, handle = NoTurn, \A q \in Sessions : comp[q] = NoApp, ~Misfiled',
         NEW s \in Sessions \cup {Null}, s # Null => store'[s] # Null /\ \A a \in Apps : a # current => apps[a].ses # s,
         store' \in [Sessions -> Owners \cup {Null}], Tight(store, store'),
         apps' = [apps EXCEPT ![current].ses = s],
         UNCHANGED <<bridge, current, workdir, handle, bg, procs, turns, comp, prep>>
  PROVE  Kept' /\ ClosesIdle
<1> DEFINE E == store'
           R == Here'
           app == [apps[current] EXCEPT !.ses = s]
<1>1. Sound(Here, turns, prep, store, "ready") /\ TaskTypes(turns, prep, store) /\ workdir \in Projects
  BY DEF Kept
<1>2. current \in Apps /\ apps[current] \in AppType /\ apps[current].st = "open" /\ apps \in [Apps -> AppType]
  BY <1>1, HereFacts, TypesHere DEF Sound, ShownIsSteered, IsOpen
<1>3. app \in AppType /\ app.st = "open" /\ app.ses = s
  BY <1>2 DEF AppType
<1>4. apps' = [apps EXCEPT ![current] = app]
  BY <1>2
<1> HIDE DEF app
<1>5. apps' \in [Apps -> AppType] /\ apps'[current] = app /\ \A a \in Apps : a # current => apps'[a] = apps[a]
  BY <1>2, <1>3, <1>4
<1>6. RegistryTypes(R)
  BY <1>5, TypesHere, TypesNext
<1>7. OwnName(R)
  BY <1>2, <1>6, Untangled
<1>8. R.current = current /\ R.handle = handle /\ R.bg = bg /\ R.comp = comp /\ R.procs = procs /\ R.apps = apps'
  BY HereNext
<1> HIDE DEF R, E
<1>9. \A a \in Apps : a # current => R.apps[a] = apps[a] /\ (IsOpen(R, a) <=> IsOpen(Here, a)) /\ NameOf(R, a) = NameOf(Here, a)
  BY <1>5, <1>8, HereFacts DEF IsOpen, NameOf
<1>10. IsOpen(R, current) /\ IsOpen(Here, current) /\ R.apps[current].ses = s /\ R.apps[current].st = "open"
  BY <1>2, <1>3, <1>5, <1>8, HereFacts DEF IsOpen
<1>11. \A m \in Turns : Runs(turns, m) => turns[m].app # current
  BY <1>1, HereFacts, NamesDiffer DEF Sound, ShownIsSteered
<1>12. OneOwner(R, E)
  <2>1. \A a, b \in Apps : apps[a].ses # Null /\ apps[a].ses = apps[b].ses => a = b
    BY <1>1, HereFacts DEF Sound, OneOwner
  <2>2. \A a \in Apps : apps[a].ses # Null => apps[a].st \in {"open", "stuck"} /\ store[apps[a].ses] # Null /\ apps[a].ses \in Sessions
    BY <1>1, <1>2, HereFacts DEF Sound, OneOwner, AppType
  <2>3. \A a \in Apps : R.apps[a].ses # Null => R.apps[a].st \in {"open", "stuck"} /\ E[R.apps[a].ses] # Null
    <3> SUFFICES ASSUME NEW a \in Apps, R.apps[a].ses # Null PROVE R.apps[a].st \in {"open", "stuck"} /\ E[R.apps[a].ses] # Null
      OBVIOUS
    <3>1. CASE a = current
      BY <1>10, <3>1 DEF E
    <3>2. CASE a # current
      BY <1>9, <2>2, <3>2 DEF Tight, E
    <3> QED BY <3>1, <3>2
  <2>4. \A a, b \in Apps : R.apps[a].ses # Null /\ R.apps[a].ses = R.apps[b].ses => a = b
    <3> SUFFICES ASSUME NEW a \in Apps, NEW b \in Apps, R.apps[a].ses # Null, R.apps[a].ses = R.apps[b].ses PROVE a = b
      OBVIOUS
    <3>2. CASE a # current /\ b # current
      BY <1>9, <2>1, <3>2
    <3>3. CASE a = current /\ b # current
      BY <1>9, <1>10, <3>3
    <3>4. CASE b = current /\ a # current
      BY <1>9, <1>10, <3>4
    <3> QED BY <3>2, <3>3, <3>4
  <2> QED BY <2>3, <2>4 DEF OneOwner
<1>13. BuiltApart(R, turns, prep)
  <2>1. \A c \in Apps : Uses(R, turns, c) <=> Uses(Here, turns, c)
    BY <1>8, HereFacts DEF Uses
  <2>2. Uses(Here, turns, current)
    BY HereFacts DEF Uses
  <2> SUFFICES ASSUME NEW c \in Apps
               PROVE  /\ R.apps[c].st = "none" \/ Builds(prep, c) => ~Uses(R, turns, c)
                      /\ prep[c].st \in {"opening", "installing"} => IsOpen(R, c)
    BY DEF BuiltApart
  <2>3. /\ apps[c].st = "none" \/ Builds(prep, c) => ~Uses(Here, turns, c)
        /\ prep[c].st \in {"opening", "installing"} => IsOpen(Here, c)
    BY <1>1, HereFacts DEF Sound, BuiltApart
  <2>4. CASE c = current
    BY <1>10, <2>2, <2>3, <2>4
  <2>5. CASE c # current
    BY <1>9, <2>1, <2>3, <2>5
  <2> QED BY <2>4, <2>5
<1>14. CompactsItsOwn(R)
  BY <1>8 DEF CompactsItsOwn
<1>15. \A m \in Turns : Runs(turns, m) => turns[m].app \in Apps /\ turns[m].key \in Sessions
  BY <1>1 DEF Sound
<1>16. TurnsAreFiled(R, turns)
  <2> SUFFICES ASSUME NEW m \in Turns, Runs(turns, m), IsOpen(R, turns[m].app)
               PROVE  turns[m].key \in DOMAIN R.bg /\ R.bg[turns[m].key].app = turns[m].app /\ R.bg[turns[m].key].handle = m
    BY <1>15 DEF TurnsAreFiled
  <2>1. IsOpen(Here, turns[m].app)
    BY <1>9, <1>11, <1>15
  <2> QED BY <1>1, <1>8, <2>1, HereFacts DEF Sound, TurnsAreFiled
<1>17. \A a \in Apps : IsOpen(R, a) => Reached(R, prep, a)
  <2> SUFFICES ASSUME NEW a \in Apps, IsOpen(R, a) PROVE Reached(R, prep, a)
    OBVIOUS
  <2>1. IsOpen(Here, a)
    BY <1>9, <1>10
  <2>2. Reached(Here, prep, a)
    BY <1>1, <2>1 DEF Sound
  <2> QED BY <1>8, <2>2, HereFacts DEF Reached
<1>18. ShownIsSteered(R, turns)
  BY <1>2, <1>8, <1>10, <1>11 DEF ShownIsSteered
<1>19. Sound(R, turns, prep, E, "ready")
  BY <1>6, <1>7, <1>12, <1>13, <1>14, <1>15, <1>16, <1>17, <1>18 DEF Sound
<1>20. Kept'
  BY <1>1, <1>19 DEF Kept, TaskTypes, R, E
<1> QED BY <1>3, <1>5, <1>20 DEF ClosesIdle

LEMMA SlashNewSound ==
  ASSUME Kept, SlashNew, ~Misfiled'
  PROVE  Kept' /\ ClosesIdle
<1> DEFINE s == NewSession
           own == apps[current].own
<1>0. /\ bridge = "ready" /\ current # NoApp /\ handle = NoTurn /\ (\A q \in Sessions : comp[q] = NoApp) /\ SessionLeft
      /\ apps' = [apps EXCEPT ![current].ses = s] /\ store' = [store EXCEPT ![s] = own]
      /\ UNCHANGED <<bridge, current, workdir, handle, bg, procs, turns, comp, prep>>
  BY DEF SlashNew, Typed, Ready
<1>1. s \in Sessions /\ store[s] = Null
  BY <1>0, NewSessionFacts
<1> HIDE DEF s
<1>2. current \in Apps /\ own \in Owners /\ store \in [Sessions -> Owners \cup {Null}] /\ Null \notin Owners
  BY <1>0, TypesHere, DesktopAssumption DEF AppType, Kept, TaskTypes, Owners
<1>3. store' \in [Sessions -> Owners \cup {Null}] /\ Tight(store, store') /\ store'[s] # Null
  BY <1>0, <1>1, <1>2 DEF Tight
<1>4. \A a \in Apps : apps[a].ses # s
  BY <1>1, HereFacts, NamesDiffer DEF Kept, Sound, OneOwner
<1> QED BY <1>0, <1>1, <1>3, <1>4, RenamedSound

LEMMA SlashResumeSound ==
  ASSUME Kept, NEW s \in Sessions, SlashResume(s), ~Misfiled'
  PROVE  Kept' /\ ClosesIdle
<1>0. /\ bridge = "ready" /\ current # NoApp /\ handle = NoTurn /\ (\A q \in Sessions : comp[q] = NoApp)
      /\ ~Locked(s) /\ store[s] = apps[current].own /\ apps' = [apps EXCEPT ![current].ses = s]
      /\ UNCHANGED <<bridge, current, workdir, handle, bg, procs, turns, comp, prep, store>>
  BY DEF SlashResume, Typed, Ready
<1>2. current \in Apps /\ apps[current].own \in Owners /\ store \in [Sessions -> Owners \cup {Null}] /\ Null \notin Owners
  BY <1>0, TypesHere, DesktopAssumption DEF AppType, Kept, TaskTypes, Owners
<1>3. store' \in [Sessions -> Owners \cup {Null}] /\ Tight(store, store') /\ store'[s] # Null
  BY <1>0, <1>2 DEF Tight
<1>4. \A a \in Apps : apps[a].ses # s
  BY <1>0, HereFacts, NamesDiffer DEF Kept, Sound, OneOwner, Locked
<1> QED BY <1>0, <1>3, <1>4, RenamedSound

LEMMA SessionMoveSound ==
  ASSUME Kept, NEW s \in Sessions, NEW p \in Projects, SessionMove(s, p), ~Misfiled'
  PROVE  Kept' /\ ClosesIdle
<1>0. /\ bridge = "ready" /\ current # NoApp /\ handle = NoTurn /\ (\A q \in Sessions : comp[q] = NoApp)
      /\ store' = [store EXCEPT ![s] = p]
      /\ UNCHANGED <<bridge, current, workdir, handle, bg, procs, turns, comp, prep>>
  BY DEF SessionMove, NoActive, MustPark, Ready
<1>2. /\ current \in Apps /\ apps[current] \in AppType /\ store \in [Sessions -> Owners \cup {Null}] /\ Null \notin Owners
      /\ apps \in [Apps -> AppType] /\ p \in Owners
  BY <1>0, TypesHere, DesktopAssumption DEF Kept, TaskTypes, Owners
<1>3. store' \in [Sessions -> Owners \cup {Null}] /\ Tight(store, store')
  BY <1>0, <1>2 DEF Tight
<1>4. CASE apps[current].ses = s
  <2>1. apps' = [apps EXCEPT ![current].ses = Null]
    BY <1>4 DEF SessionMove
  <2> QED BY <1>0, <1>3, <2>1, RenamedSound
<1>5. CASE apps[current].ses # s
  <2> DEFINE t == apps[current].ses
  <2>1. t \in Sessions \cup {Null}
    BY <1>2 DEF AppType
  <2>2. apps' = [apps EXCEPT ![current].ses = t]
    BY <1>2, <1>5 DEF SessionMove, AppType
  <2>3. t # Null => store'[t] # Null /\ \A a \in Apps : a # current => apps[a].ses # t
    BY <1>2, <1>3, <2>1, HereFacts DEF Kept, Sound, OneOwner, Tight
  <2> HIDE DEF t
  <2> QED BY <1>0, <1>3, <2>1, <2>2, <2>3, RenamedSound
<1> QED BY <1>4, <1>5

----------------------------------------------------------------------------
(* Shutdown.                                                                   *)
LEMMA ShutSound ==
  ASSUME NEW S, NEW T, NEW P, NEW D, NEW B, Sound(S, T, P, D, B), B \notin {"ready", "stopped"},
         NEW c \in Apps, ~Builds(P, c), NEW R, RegistryTypes(R), R.apps = [S.apps EXCEPT ![c] = Closed(S.apps[c])],
         R.current = S.current, R.handle = S.handle, R.bg = S.bg, R.comp = S.comp
  PROVE  Sound(R, T, P, D, B)
<1>1. RegistryTypes(S) /\ S.apps[c] \in AppType
  BY DEF Sound, RegistryTypes
<1> DEFINE app == Closed(S.apps[c])
<1>2. app \in AppType /\ app.st \in {"closed", "stuck"} /\ (app.ses # Null => app.ses = S.apps[c].ses /\ app.st = "stuck")
  BY <1>1, ClosedFacts
<1> HIDE DEF app
<1>3. R.apps[c] = app /\ \A a \in Apps : a # c => R.apps[a] = S.apps[a]
  BY <1>1 DEF RegistryTypes, app
<1>4. \A a \in Apps : IsOpen(R, a) => a # c /\ IsOpen(S, a) /\ R.apps[a] = S.apps[a] /\ NameOf(R, a) = NameOf(S, a)
  BY <1>2, <1>3 DEF IsOpen, NameOf
<1>5. OneOwner(R, D)
  BY <1>2, <1>3 DEF OneOwner, Sound
<1>6. OwnName(R)
  <2>1. \A k \in DOMAIN S.bg : S.bg[k].app \in Apps \cup {NoApp}
    BY <1>1 DEF RegistryTypes, EntryType
  <2> QED BY <1>4, <2>1 DEF OwnName, Sound
<1>7. BuiltApart(R, T, P)
  <2>1. \A b \in Apps : Uses(R, T, b) => Uses(S, T, b)
    BY DEF Uses
  <2> SUFFICES ASSUME NEW b \in Apps
               PROVE  /\ R.apps[b].st = "none" \/ Builds(P, b) => ~Uses(R, T, b)
                      /\ P[b].st \in {"opening", "installing"} => IsOpen(R, b)
    BY DEF BuiltApart
  <2>2. CASE b = c
    BY <1>2, <1>3, <2>2 DEF Builds
  <2>3. CASE b # c
    BY <1>3, <2>1, <2>3 DEF BuiltApart, Sound, IsOpen
  <2> QED BY <2>2, <2>3
<1>8. CompactsItsOwn(R)
  <2>1. \A s \in Sessions : S.comp[s] \in Apps \cup {NoApp}
    BY <1>1 DEF RegistryTypes
  <2> QED BY <1>4, <2>1 DEF CompactsItsOwn, Sound
<1>9. \A n \in Turns : Runs(T, n) => T[n].app \in Apps /\ T[n].key \in Sessions
  BY DEF Sound
<1>10. TurnsAreFiled(R, T)
  BY <1>4, <1>9 DEF TurnsAreFiled, Sound
<1>11. \A a \in Apps : IsOpen(R, a) => Reached(R, P, a)
  BY <1>4 DEF Sound, Reached
<1> QED BY <1>5, <1>6, <1>7, <1>8, <1>9, <1>10, <1>11 DEF Sound

LEMMA ShutdownSound ==
  ASSUME Kept, Shutdown
  PROVE  Kept' /\ ClosesIdle
<1>0. /\ bridge = "ready" /\ bridge' = "stopping" /\ UNCHANGED <<current, workdir, handle, bg, apps, procs, comp, prep, store>>
      /\ turns' = [n \in Turns |-> [turns[n] EXCEPT !.stop = @ \/ n \in Handles]]
  BY DEF Shutdown
<1>1. Sound(Here, turns, prep, store, "ready") /\ TaskTypes(turns, prep, store) /\ workdir \in Projects
  BY <1>0 DEF Kept
<1> DEFINE U == turns'
<1>2. ASSUME NEW n \in Turns
      PROVE  /\ U[n] \in [st : {"none", "running", "paused", "ending", "ended"}, app : Apps \cup {NoApp}, key : Sessions \cup {Null}, stop : BOOLEAN]
             /\ U[n].st = turns[n].st /\ U[n].app = turns[n].app /\ U[n].key = turns[n].key
  <2> DEFINE b == (turns[n].stop \/ n \in Handles)
  <2>1. turns[n] \in [st : {"none", "running", "paused", "ending", "ended"}, app : Apps \cup {NoApp}, key : Sessions \cup {Null}, stop : BOOLEAN]
    BY <1>1 DEF TaskTypes, TurnTypes
  <2>2. U[n] = [turns[n] EXCEPT !.stop = b]
    BY <1>0
  <2>3. b \in BOOLEAN
    OBVIOUS
  <2> HIDE DEF b, U
  <2> QED BY <2>1, <2>2, <2>3
<1>3. U \in TurnTypes
  <2>1. U = [n \in Turns |-> U[n]]
    BY <1>0
  <2> HIDE DEF U
  <2> QED BY <1>2, <2>1 DEF TurnTypes
<1>4. \A n \in Turns : Runs(U, n) => Runs(turns, n) /\ U[n].app = turns[n].app /\ U[n].key = turns[n].key
  BY <1>2 DEF Runs
<1> HIDE DEF U
<1>5. Here' = Here
  BY <1>0 DEF Here
<1>6. Sound(Here, U, prep, store, "ready")
  <2>1. RegistryTypes(Here)
    BY <1>1 DEF Sound
  <2>2. \A n \in Turns : U[n].app = turns[n].app
    BY <1>2
  <2> QED BY <1>1, <1>4, <2>1, <2>2, SameRegistry
<1>7. Sound(Here, U, prep, store, "stopping")
  BY <1>6, LaterSound
<1> QED BY <1>0, <1>1, <1>3, <1>5, <1>7 DEF Kept, ClosesIdle, TaskTypes, U

LEMMA CloseApplicationsSound ==
  ASSUME Kept, CloseApplications
  PROVE  Kept' /\ ClosesIdle /\ ClosesNoBuild'
<1>0. /\ bridge = "stopping" /\ bridge' = "closing" /\ handle' = NoTurn /\ waiting' = Loaded(Here)
      /\ UNCHANGED <<current, workdir, bg, apps, procs, turns, comp, prep, store>>
  BY DEF CloseApplications
<1>1. Sound(Here, turns, prep, store, "stopping") /\ TaskTypes(turns, prep, store) /\ workdir \in Projects
  BY <1>0 DEF Kept
<1>2. RegistryTypes(Here')
  BY <1>0, TypesHere, TypesNext
<1> DEFINE R == Here'
<1>3. R.apps = Here.apps /\ R.current = Here.current /\ R.comp = Here.comp /\ R.bg = Here.bg /\ RegistryTypes(R)
  BY <1>0, <1>2, HereFacts, HereNext
<1> HIDE DEF R
<1>4. Sound(R, turns, prep, store, "stopping")
  BY <1>1, <1>3, SameRegistry
<1>5. Sound(R, turns, prep, store, "closing")
  BY <1>4, LaterSound
<1>6. \A c \in Apps : c \in Loaded(Here) => ~Builds(prep, c)
  BY <1>1 DEF Loaded, Sound, BuiltApart, Uses
<1> QED BY <1>0, <1>1, <1>5, <1>6 DEF Kept, ClosesIdle, ClosesNoBuild, R

LEMMA CloseNextSound ==
  ASSUME Kept, ClosesNoBuild, CloseNext
  PROVE  Kept' /\ ClosesIdle
<1>0. /\ bridge = "closing" /\ bridge' \in {"failed", "closing"}
      /\ UNCHANGED <<current, workdir, handle, bg, turns, comp, prep, store>>
  BY DEF CloseNext
<1>1. PICK a \in waiting : apps' = [apps EXCEPT ![a] = Closed(@)] /\ procs' = [procs EXCEPT ![a] = FALSE]
  BY DEF CloseNext
<1>2. Sound(Here, turns, prep, store, "closing") /\ TaskTypes(turns, prep, store) /\ workdir \in Projects
  BY <1>0 DEF Kept
<1>3. Sound(Here', turns, prep, store, "closing")
  <2> DEFINE R == Here'
  <2>1. CASE a \in Apps
    <3>1. apps' = [apps EXCEPT ![a] = Closed(apps[a])] /\ ~Builds(prep, a)
      BY <1>0, <1>1, <2>1, TypesHere DEF ClosesNoBuild
    <3>2. Closed(apps[a]) \in AppType
      BY <2>1, ClosedFacts, TypesHere
    <3>3. apps' \in [Apps -> AppType] /\ procs' \in [Apps -> BOOLEAN]
      BY <1>1, <2>1, <3>1, <3>2, TypesHere
    <3>4. RegistryTypes(R)
      BY <1>0, <3>3, TypesHere, TypesNext
    <3>5. R.apps = [Here.apps EXCEPT ![a] = Closed(Here.apps[a])] /\ R.current = Here.current /\ R.handle = Here.handle
          /\ R.bg = Here.bg /\ R.comp = Here.comp
      BY <1>0, <3>1, HereFacts, HereNext
    <3> HIDE DEF R
    <3>6. "closing" \notin {"ready", "stopped"}
      OBVIOUS
    <3>7. Sound(R, turns, prep, store, "closing")
      BY <1>2, <2>1, <3>1, <3>4, <3>5, <3>6, ShutSound
    <3> QED BY <3>7 DEF R
  <2>2. CASE a \notin Apps
    <3>1. apps' = apps /\ procs' = procs
      BY <1>1, <2>2, TypesHere
    <3>2. Here' = Here
      BY <1>0, <3>1 DEF Here
    <3> QED BY <1>2, <3>2
  <2> QED BY <2>1, <2>2
<1> DEFINE R == Here'
           C == bridge'
<1>4. C \notin {"ready", "stopped"}
  BY <1>0
<1> HIDE DEF R, C
<1>5. Sound(R, turns, prep, store, "closing") /\ "closing" # "stopped"
  BY <1>3 DEF R
<1>6. Sound(R, turns, prep, store, C)
  BY <1>4, <1>5, LaterSound
<1> QED BY <1>0, <1>2, <1>6 DEF Kept, ClosesIdle, R, C

LEMMA StoppedSound ==
  ASSUME Kept, Stopped
  PROVE  Kept' /\ ClosesIdle
<1>0. /\ bridge = "closing" /\ bridge' = "stopped" /\ bg' = <<>> /\ comp' = [s \in Sessions |-> NoApp]
      /\ UNCHANGED <<current, workdir, handle, apps, procs, turns, prep, store>>
  BY DEF Stopped
<1>1. Sound(Here, turns, prep, store, "closing") /\ TaskTypes(turns, prep, store) /\ workdir \in Projects
  BY <1>0 DEF Kept
<1> DEFINE R == Here'
<1>2. DOMAIN bg' = {} /\ bg' \in [{} -> EntryType] /\ comp' \in [Sessions -> Apps \cup {NoApp}]
  BY <1>0
<1>3. RegistryTypes(R)
  BY <1>0, <1>2, TypesHere, TypesNext
<1>4. R.apps = Here.apps /\ R.current = Here.current /\ DOMAIN R.bg = {} /\ \A s \in Sessions : R.comp[s] = NoApp
  BY <1>0, <1>2, HereFacts, HereNext
<1> HIDE DEF R
<1>5. OneOwner(R, store) /\ OwnName(R) /\ CompactsItsOwn(R)
  BY <1>1, <1>4 DEF Sound, OneOwner, OwnName, CompactsItsOwn
<1>6. BuiltApart(R, turns, prep)
  <2>1. \A c \in Apps : Uses(R, turns, c) => Uses(Here, turns, c)
    BY <1>4, NamesDiffer DEF Uses
  <2> QED BY <1>1, <1>4, <2>1 DEF Sound, BuiltApart, IsOpen
<1>7. \A n \in Turns : Runs(turns, n) => turns[n].app \in Apps /\ turns[n].key \in Sessions
  BY <1>1 DEF Sound
<1>8. Sound(R, turns, prep, store, "stopped")
  BY <1>3, <1>4, <1>5, <1>6, <1>7 DEF Sound
<1> QED BY <1>0, <1>1, <1>8 DEF Kept, ClosesIdle, R

\* After shutdown the registry is empty: what is installed then has no placeholder.
LEMMA PrepStepSound ==
  ASSUME Kept, PrepStep, ~Misfiled'
  PROVE  Kept' /\ ClosesIdle
<1> PICK c \in Apps : PrepClone(c) \/ PrepOpen(c) \/ PrepInstall(c)
  BY DEF PrepStep
<1>1. CASE PrepClone(c) \/ PrepOpen(c)
  BY <1>1, PrepCloneSound, PrepOpenSound
<1>2. CASE PrepInstall(c) /\ bridge # "stopped"
  BY <1>2, PrepInstallSound
<1>3. CASE PrepInstall(c) /\ bridge = "stopped"
  <2>1. DOMAIN bg = {}
    BY <1>3, HereFacts DEF Kept, Sound
  <2>2. PrepEnds(c, "cancelled") /\ Builds(prep, c) /\ UNCHANGED <<bridge, current, workdir, handle, procs, turns, comp, store>>
    BY <1>3, <2>1 DEF PrepInstall, Placeholder, Builds
  <2>3. "cancelled" \in Statuses
    BY DEF Statuses, TurnEnd
  <2> QED BY <2>2, <2>3, PrepEndsSound
<1> QED BY <1>1, <1>2, <1>3

----------------------------------------------------------------------------
(* Where the bridge is in its life.                                            *)
LEMMA RequestsWhen ==
  ASSUME Request
  PROVE  RuntimeInitialize \/ (bridge = "ready" /\ UNCHANGED bridge)
<1>1. CASE ProjectOpen \/ GeneralOpen
  BY <1>1 DEF ProjectOpen, GeneralOpen, OpenOwner, Ready
<1>2. CASE SessionNew
  BY <1>2 DEF SessionNew, Ready
<1>3. ASSUME NEW s \in Sessions, ResumeShown(s) \/ ResumeBackground(s) PROVE bridge = "ready" /\ UNCHANGED bridge
  BY <1>3 DEF ResumeShown, ResumeBackground, Ready
<1>4. ASSUME NEW s \in Sessions, ResumeTold(s) \/ ResumeCold(s) PROVE bridge = "ready" /\ UNCHANGED bridge
  BY <1>4 DEF ResumeTold, ResumeCold, Ready
<1>5. CASE TurnStart
  BY <1>5 DEF TurnStart, Ready
<1>6. CASE TurnCancel \/ TurnResume \/ StartCompaction
  BY <1>6 DEF TurnCancel, TurnResume, StartCompaction, Ready
<1>7. CASE SettingsSave \/ SettingsRetryApply
  BY <1>7 DEF SettingsSave, SettingsRetryApply
<1>8. CASE SlashNew
  BY <1>8 DEF SlashNew, Typed, Ready
<1>9. ASSUME NEW s \in Sessions, SlashResume(s) \/ \E p \in Projects : SessionMove(s, p) PROVE bridge = "ready" /\ UNCHANGED bridge
  BY <1>9 DEF SlashResume, SessionMove, Typed, Ready
<1> QED BY <1>1, <1>2, <1>3, <1>4, <1>5, <1>6, <1>7, <1>8, <1>9 DEF Request

LEMMA TasksWhen ==
  ASSUME TurnStep \/ PrepStep \/ CompactionStep \/ \E a \in Apps : ProcessEnds(a)
  PROVE  UNCHANGED <<bridge, waiting>>
<1>1. CASE TurnStep
  BY <1>1 DEF TurnStep, TurnPauses, TurnEnds, FinishTurn
<1>2. CASE PrepStep
  BY <1>2 DEF PrepStep, PrepClone, PrepOpen, PrepInstall
<1>3. CASE CompactionStep
  BY <1>3 DEF CompactionStep, EndCompaction
<1>4. ASSUME NEW a \in Apps, ProcessEnds(a) PROVE UNCHANGED <<bridge, waiting>>
  BY <1>4 DEF ProcessEnds
<1> QED BY <1>1, <1>2, <1>3, <1>4

\* Nothing begins to be built once no request comes any more.
LEMMA BuildsFewer ==
  ASSUME Kept, TurnStep \/ PrepStep \/ CompactionStep \/ \E a \in Apps : ProcessEnds(a)
  PROVE  \A c \in Apps : Builds(prep', c) => Builds(prep, c)
<1>0. prep \in [Apps -> [st : {"none", "cloning", "opening", "installing", "done"}, ses : Sessions \cup {Null}]]
  BY DEF Kept, TaskTypes
<1>1. CASE TurnStep
  <2>1. UNCHANGED prep
    BY <1>1 DEF TurnStep, TurnPauses, TurnEnds, FinishTurn
  <2> QED BY <2>1
<1>2. CASE CompactionStep
  <2>1. UNCHANGED prep
    BY <1>2 DEF CompactionStep, EndCompaction
  <2> QED BY <2>1
<1>3. ASSUME NEW a \in Apps, ProcessEnds(a) PROVE UNCHANGED prep
  BY <1>3 DEF ProcessEnds
<1>4. ASSUME NEW c \in Apps, PrepClone(c) \/ PrepOpen(c) \/ PrepInstall(c) PROVE \A b \in Apps : Builds(prep', b) => Builds(prep, b)
  <2>1. Builds(prep, c)
    BY <1>4 DEF PrepClone, PrepOpen, PrepInstall, Builds
  <2>2. \A b \in Apps : b # c => prep'[b] = prep[b]
    BY <1>0, <1>4 DEF PrepClone, PrepOpen, PrepInstall, PrepEnds
  <2> QED BY <2>1, <2>2 DEF Builds
<1> QED BY <1>1, <1>2, <1>3, <1>4 DEF PrepStep

LEMMA ShutdownWhen ==
  ASSUME ShutdownStep
  PROVE  /\ bridge # "new" /\ bridge' # "new"
         /\ bridge' = "closing" => CloseApplications \/ (bridge = "closing" /\ waiting' \subseteq waiting /\ UNCHANGED prep)
<1>1. CASE Shutdown
  BY <1>1 DEF Shutdown
<1>2. CASE AwaitTask
  BY <1>2 DEF AwaitTask
<1>3. CASE CloseApplications
  BY <1>3 DEF CloseApplications
<1>4. CASE CloseNext
  BY <1>4 DEF CloseNext
<1>5. CASE Stopped
  BY <1>5 DEF Stopped
<1> QED BY <1>1, <1>2, <1>3, <1>4, <1>5 DEF ShutdownStep

LEMMA ClosesNoBuildStep ==
  ASSUME Kept, ClosesNoBuild, Next
  PROVE  ClosesNoBuild'
<1>1. CASE Request
  BY <1>1, RequestsWhen DEF RuntimeInitialize, ClosesNoBuild
<1>2. CASE TurnStep \/ PrepStep \/ CompactionStep \/ \E a \in Apps : ProcessEnds(a)
  BY <1>2, TasksWhen, BuildsFewer DEF ClosesNoBuild
<1>3. CASE ShutdownStep
  BY <1>3, ShutdownWhen, CloseApplicationsSound DEF ClosesNoBuild
<1> QED BY <1>1, <1>2, <1>3 DEF Next

\* Before the first request nothing happens to the registry.
LEMMA PristineStep ==
  ASSUME bridge = "new" => Pristine, Next
  PROVE  bridge' = "new" => Pristine'
<1> SUFFICES ASSUME bridge' = "new" PROVE Pristine'
  OBVIOUS
<1>1. ~Request
  BY RequestsWhen DEF RuntimeInitialize
<1>2. ~ShutdownStep
  BY ShutdownWhen
<1>3. bridge = "new" /\ Pristine
  BY <1>1, <1>2, TasksWhen DEF Next
<1>4. ~TurnStep
  BY <1>3 DEF TurnStep, TurnPauses, TurnEnds, FinishTurn, Pristine, Live
<1>5. ~PrepStep
  BY <1>3 DEF PrepStep, PrepClone, PrepOpen, PrepInstall, Pristine
<1>6. ~CompactionStep
  BY <1>3 DEF CompactionStep, EndCompaction, Pristine
<1>7. PICK a \in Apps : ProcessEnds(a)
  BY <1>1, <1>2, <1>4, <1>5, <1>6 DEF Next
<1> QED BY <1>3, <1>7 DEF ProcessEnds, Pristine

LEMMA InitializeSound ==
  ASSUME Kept, bridge = "new" => Pristine, RuntimeInitialize
  PROVE  Kept' /\ ClosesIdle
<1>0. bridge = "new" /\ Pristine /\ UNCHANGED <<workdir, handle, bg, procs, turns, comp, prep, store>>
  BY DEF RuntimeInitialize
<1>1. Sound(Here, turns, prep, store, "new") /\ TaskTypes(turns, prep, store) /\ workdir \in Projects
  BY <1>0 DEF Kept
<1>2. CASE bridge' = "failed" /\ UNCHANGED <<current, apps>>
  <2>1. Here' = Here
    BY <1>0, <1>2 DEF Here
  <2>2. "new" # "stopped" /\ "failed" \notin {"ready", "stopped"}
    OBVIOUS
  <2>3. Sound(Here, turns, prep, store, "failed")
    BY <1>1, <2>2, LaterSound
  <2> QED BY <1>0, <1>1, <1>2, <2>1, <2>3 DEF Kept, ClosesIdle
<1>3. ASSUME NEW bad \in Flaky, bridge' = "ready", current' = Fresh, apps' = [apps EXCEPT ![Fresh] = Built(Home, Null, bad)]
      PROVE  Kept' /\ ClosesIdle
  <2> DEFINE c == Fresh
             app == Built(Home, Null, bad)
             R == Here'
  <2>1. AppLeft
    <3>1. 1 \in Apps
      BY DesktopAssumption DEF Apps
    <3> QED BY <1>0, <3>1 DEF Pristine, AppLeft
  <2>2. c \in Apps /\ apps[c].st = "none" /\ prep[c].st = "none"
    BY <2>1, FreshFacts
  <2>3. app \in AppType /\ app.st = "open" /\ app.ses = Null
    BY FlakyIsBoolean, DesktopAssumption DEF Built, AppType, Owners
  <2>4. apps' = [apps EXCEPT ![c] = app] /\ current' = c
    BY <1>3
  <2> HIDE DEF c, app
  <2>5. apps' \in [Apps -> AppType] /\ apps'[c] = app /\ \A a \in Apps : a # c => apps'[a] = apps[a]
    BY <2>2, <2>3, <2>4, TypesHere
  <2>6. RegistryTypes(R)
    BY <1>0, <2>2, <2>4, <2>5, TypesHere, TypesNext
  <2>7. R.apps = apps' /\ R.current = c /\ DOMAIN R.bg = {} /\ \A s \in Sessions : R.comp[s] = NoApp
    BY <1>0, <2>4, HereNext DEF Pristine
  <2> HIDE DEF R
  <2>8. \A a \in Apps : apps[a].st = "none" /\ apps[a].ses = Null
    BY <1>0, <1>1, HereFacts DEF Pristine, Sound, OneOwner
  <2>9. \A n \in Turns : ~Runs(turns, n) /\ turns[n].app \notin Apps
    BY <1>0, <1>1, <2>8, HereFacts DEF Pristine, Runs, Sound, BuiltApart, Uses
  <2>10. OneOwner(R, store) /\ OwnName(R) /\ CompactsItsOwn(R)
    BY <2>3, <2>5, <2>7, <2>8 DEF OneOwner, OwnName, CompactsItsOwn
  <2>11. BuiltApart(R, turns, prep)
    <3>1. \A a \in Apps : prep[a].st = "none"
      BY <1>0 DEF Pristine
    <3>2. \A a \in Apps : a # c => ~Uses(R, turns, a)
      BY <2>7, <2>9, NamesDiffer DEF Uses
    <3>3. R.apps[c].st # "none"
      BY <2>3, <2>5, <2>7
    <3> QED BY <3>1, <3>2, <3>3 DEF BuiltApart, Builds
  <2>12. TurnsAreFiled(R, turns)
    BY <2>9 DEF TurnsAreFiled
  <2>13. \A a \in Apps : IsOpen(R, a) => Reached(R, prep, a)
    BY <2>5, <2>7, <2>8 DEF IsOpen, Reached
  <2>14. ShownIsSteered(R, turns)
    BY <2>2, <2>3, <2>5, <2>7, <2>9 DEF ShownIsSteered, IsOpen
  <2>15. Sound(R, turns, prep, store, "ready")
    BY <2>6, <2>9, <2>10, <2>11, <2>12, <2>13, <2>14 DEF Sound
  <2> QED BY <1>0, <1>1, <1>3, <2>8, <2>15 DEF Kept, ClosesIdle, R
<1> QED BY <1>2, <1>3 DEF RuntimeInitialize

----------------------------------------------------------------------------
(* The registry, for every number of Applications, Sessions and Turns.         *)
LEMMA StepSound ==
  ASSUME Kept, ClosesNoBuild, bridge = "new" => Pristine, Next, ~Misfiled', ~Overtaken', ~Revived'
  PROVE  Kept' /\ ClosesIdle
<1>1. CASE Request
  <2>1. CASE RuntimeInitialize
    BY <2>1, InitializeSound
  <2>2. CASE ProjectOpen \/ GeneralOpen
    BY <2>2, OpenOwnerSound DEF ProjectOpen, GeneralOpen, Owners
  <2>3. CASE SessionNew
    BY <2>3, SessionNewSound
  <2>4. ASSUME NEW s \in Sessions, ResumeShown(s) \/ ResumeBackground(s) PROVE Kept' /\ ClosesIdle
    BY <2>4, ResumeShownSound, ResumeBackgroundSound
  <2>5. ASSUME NEW s \in Sessions, ResumeTold(s) \/ ResumeCold(s) PROVE Kept' /\ ClosesIdle
    BY <2>5, QuietSteps, ResumeColdSound
  <2>6. CASE TurnStart
    BY <2>6, TurnStartSound
  <2>7. CASE TurnCancel \/ TurnResume \/ SettingsSave \/ SettingsRetryApply
    BY <2>7, QuietSteps
  <2>8. CASE StartCompaction
    BY <2>8, StartCompactionSound
  <2>9. CASE SlashNew
    BY <2>9, SlashNewSound
  <2>10. ASSUME NEW s \in Sessions, SlashResume(s) \/ \E p \in Projects : SessionMove(s, p) PROVE Kept' /\ ClosesIdle
    BY <2>10, SlashResumeSound, SessionMoveSound
  <2> QED BY <1>1, <2>1, <2>2, <2>3, <2>4, <2>5, <2>6, <2>7, <2>8, <2>9, <2>10 DEF Request
<1>2. CASE TurnStep
  BY <1>2, QuietSteps, FinishTurnSound DEF TurnStep
<1>3. CASE PrepStep
  BY <1>3, PrepStepSound
<1>4. CASE CompactionStep
  BY <1>4, EndCompactionSound DEF CompactionStep
<1>5. CASE ShutdownStep
  BY <1>5, ShutdownSound, QuietSteps, CloseApplicationsSound, CloseNextSound, StoppedSound DEF ShutdownStep
<1>6. CASE \E a \in Apps : ProcessEnds(a)
  BY <1>6, QuietSteps
<1> QED BY <1>1, <1>2, <1>3, <1>4, <1>5, <1>6 DEF Next

LEMMA TaggedStepSound ==
  ASSUME RegistryInvariant, TaggedNext, ~tangled'
  PROVE  Kept' /\ ClosesNoBuild' /\ (bridge' = "new" => Pristine') /\ ClosesIdle
<1>1. ~tangled /\ Next /\ ~Misfiled' /\ ~Overtaken' /\ ~Revived'
  BY DEF TaggedNext
<1>2. Kept /\ ClosesNoBuild /\ (bridge = "new" => Pristine)
  BY <1>1 DEF RegistryInvariant
<1> QED BY <1>1, <1>2, StepSound, ClosesNoBuildStep, PristineStep

LEMMA RegistryStart ==
  ASSUME Init
  PROVE  Kept /\ ClosesNoBuild /\ Pristine
<1>1. /\ DOMAIN bg = {} /\ bg \in [{} -> EntryType] /\ current = NoApp /\ handle = NoTurn /\ bridge = "new" /\ workdir \in Projects
      /\ comp = [s \in Sessions |-> NoApp] /\ procs \in [Apps -> BOOLEAN]
  BY DesktopAssumption DEF Init
<1>2. apps \in [Apps -> AppType] /\ \A a \in Apps : apps[a].st = "none" /\ apps[a].ses = Null
  BY DesktopAssumption DEF Init, AppType, Owners
<1>3. turns \in TurnTypes /\ \A n \in Turns : turns[n].st = "none" /\ turns[n].app = NoApp
  BY DEF Init, TurnTypes, NoRun
<1>4. prep \in [Apps -> [st : {"none", "cloning", "opening", "installing", "done"}, ses : Sessions \cup {Null}]]
      /\ \A a \in Apps : prep[a].st = "none"
  BY DEF Init
<1>5. store \in [Sessions -> Owners \cup {Null}]
  BY DesktopAssumption DEF Init, Owners
<1>6. RegistryTypes(Here)
  <2>1. comp \in [Sessions -> Apps \cup {NoApp}]
    BY <1>1
  <2> QED BY <1>1, <1>2, <2>1, HereFacts DEF RegistryTypes
<1>7. OneOwner(Here, store) /\ OwnName(Here) /\ CompactsItsOwn(Here)
  BY <1>1, <1>2, HereFacts DEF OneOwner, OwnName, CompactsItsOwn
<1>8. BuiltApart(Here, turns, prep)
  <2>1. \A c \in Apps : ~Uses(Here, turns, c)
    BY <1>1, <1>3, HereFacts, NamesDiffer DEF Uses
  <2> QED BY <1>4, <2>1 DEF BuiltApart
<1>9. (\A n \in Turns : ~Runs(turns, n)) /\ \A a \in Apps : ~IsOpen(Here, a)
  BY <1>2, <1>3, HereFacts DEF Runs, IsOpen
<1>10. Sound(Here, turns, prep, store, bridge)
  BY <1>1, <1>6, <1>7, <1>8, <1>9 DEF Sound, TurnsAreFiled
<1> QED BY <1>1, <1>2, <1>3, <1>4, <1>5, <1>10 DEF Kept, TaskTypes, ClosesNoBuild, Pristine

(* What the registry keeps at every moment: each open Application has one      *)
(* Session and one name in it, each Turn is filed with its handle where its    *)
(* Application is, and what is being built is nowhere in it yet.               *)
THEOREM RegistrySound == TaggedSpec => []RegistryInvariant
<1>1. TaggedInit => RegistryInvariant
  BY RegistryStart DEF TaggedInit, RegistryInvariant
<1>2. RegistryInvariant /\ [TaggedNext]_<<vars, tangled>> => RegistryInvariant'
  <2> SUFFICES ASSUME RegistryInvariant, [TaggedNext]_<<vars, tangled>> PROVE RegistryInvariant'
    OBVIOUS
  <2>1. CASE TaggedNext
    BY <2>1, TaggedStepSound DEF RegistryInvariant
  <2>2. CASE UNCHANGED <<vars, tangled>>
    <3>1. /\ Here' = Here /\ UNCHANGED <<turns, prep, store, bridge, workdir, tangled, waiting, apps, bg, comp>>
      BY <2>2 DEF vars, Here
    <3>2. ~tangled => Kept'
      BY <3>1 DEF RegistryInvariant, Kept
    <3>3. ~tangled => ClosesNoBuild'
      BY <3>1 DEF RegistryInvariant, ClosesNoBuild
    <3>4. ~tangled => (bridge' = "new" => Pristine')
      BY <3>1 DEF RegistryInvariant, Pristine
    <3> QED BY <3>1, <3>2, <3>3, <3>4 DEF RegistryInvariant
  <2> QED BY <2>1, <2>2
<1> QED BY <1>1, <1>2, PTL DEF TaggedSpec

(* An open Application can be reached, from the screen, from an entry of the   *)
(* registry or from its preparation, until shutdown has closed them all.       *)
THEOREM NothingIsLost == TaggedSpec => []NothingIsForgotten
<1>1. RegistryInvariant => NothingIsForgotten
  <2> SUFFICES ASSUME RegistryInvariant, ~tangled, NEW a \in Apps, apps[a].st = "open", bridge # "stopped" PROVE Registered(a)
    BY DEF NothingIsForgotten, Forgotten
  <2>1. Reached(Here, prep, a)
    BY HereFacts DEF RegistryInvariant, Kept, Sound, IsOpen
  <2> QED BY <2>1, HereFacts, NamesDiffer DEF Reached, Registered, Preparing, Builds
<1> QED BY <1>1, RegistrySound, PTL

(* No step before shutdown closes an Application under a Turn or a compaction  *)
(* that runs in it: not reclamation, not going to another project, not the end *)
(* of a preparation.                                                           *)
THEOREM WorkIsNotClosed == TaggedSpec => ClosesOnlyInactive
<1> DEFINE Closes == ~tangled' /\ bridge # "closing" => \A a \in Apps : apps[a].st = "open" /\ apps'[a].st # "open" => ~Working(a)'
<1>1. RegistryInvariant /\ [TaggedNext]_<<vars, tangled>> => [Closes]_<<vars, tangled>>
  <2> SUFFICES ASSUME RegistryInvariant, TaggedNext, ~tangled', bridge # "closing",
                      NEW a \in Apps, apps[a].st = "open", apps'[a].st # "open"
               PROVE  ~Working(a)'
    BY DEF Closes
  <2>1. ~WorksIn(Here', turns', a)
    BY TaggedStepSound DEF ClosesIdle
  <2> QED BY <2>1, HereNext DEF WorksIn, Working, Runs, Live
<1> HIDE DEF Closes
<1>2. TaggedSpec => [][Closes]_<<vars, tangled>>
  BY <1>1, RegistrySound, PTL DEF TaggedSpec
<1> QED BY <1>2 DEF ClosesOnlyInactive, Closes
=============================================================================
