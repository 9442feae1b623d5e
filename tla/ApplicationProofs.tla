-------------------------- MODULE ApplicationProofs --------------------------
(* Components of src/uthcode/application and of the files beneath them, each   *)
(* for every value of its constants: the locks, scopes and reported moves of   *)
(* application/sessions.py, the attachments of a Session, the model an          *)
(* Application talks to, the user's configuration, the message that the frames *)
(* of a Provider add up to, and the epochs of application/instructions.py.     *)
EXTENDS SessionService, Attachments, ModelSelection, UserConfiguration, ProviderStream,
        InstructionScopes, SequenceLemmas

----------------------------------------------------------------------------
(* Session service.                                                           *)
Names == SessionIds \cup {Nobody}
Directory == [made : {"no", "bare", "yes"}, own : Projects \cup {Nobody}, scopes : Names]

ServiceTypeOK ==
  /\ disk \in [SessionIds -> Directory]
  /\ lock \in [SessionIds -> Services \cup {Nobody}]
  /\ active \in [Services -> Names]
  /\ unknown \in [Services -> BOOLEAN]
  /\ loader \in [Services -> Names]
  /\ staged \in [Services -> [kind : {"none", "making", "create", "resume"}, ses : Names]]
  /\ receipts \in [Services -> SUBSET (SessionIds \X Projects)]

Holds(a) == staged[a].kind \in {"create", "resume"}
Making(a) == staged[a].kind = "making"

\* What is open or about to be has its metadata, and the two are not the same.
OpenIsMade ==
  \A a \in Services :
    /\ active[a] # Nobody => disk[active[a]].made = "yes"
    /\ Holds(a) => staged[a].ses \in SessionIds /\ disk[staged[a].ses].made = "yes" /\ staged[a].ses # active[a]

\* A directory without metadata is at most one Application's.
BareIsOnes ==
  \A a \in Services : Making(a) =>
    /\ staged[a].ses \in SessionIds /\ disk[staged[a].ses].made = "bare"
    /\ \A b \in Services : Making(b) /\ staged[b].ses = staged[a].ses => a = b

ServiceInvariant == ServiceTypeOK /\ OpenIsMade /\ BareIsOnes /\ SessionsAgree

----------------------------------------------------------------------------
LEMMA ServiceInitial == ServiceInit => ServiceInvariant
BY ServiceAssumption
DEF ServiceInit, ServiceInvariant, ServiceTypeOK, OpenIsMade, BareIsOnes, SessionsAgree, LocksAreInUse, Uses,
    ScopesFollowSession, MovesAreTrue, Names, Directory, Unmade, Holds, Making, Silent

LEMMA ServiceStutter == ServiceInvariant /\ UNCHANGED serviceVars => ServiceInvariant'
BY DEF serviceVars, ServiceInvariant, ServiceTypeOK, OpenIsMade, BareIsOnes, SessionsAgree, LocksAreInUse, Uses,
    ScopesFollowSession, MovesAreTrue, Holds, Making

----------------------------------------------------------------------------
\* A write leaves the other Sessions alone and this one as it was or as meant.
LEMMA StoreKeeps ==
  ASSUME ServiceTypeOK, NEW s \in SessionIds, NEW record \in Directory, NEW o \in Writes,
         disk' = Stored(s, record, o)
  PROVE  /\ disk' \in [SessionIds -> Directory]
         /\ \A t \in SessionIds : t # s => disk'[t] = disk[t]
         /\ disk'[s] = record \/ disk'[s] = disk[s]
         /\ o.ok => disk'[s] = record
BY DEF ServiceTypeOK, Stored, Writes, Outcomes

LEMMA OutcomeTypes == \A o \in Writes : o.ok \in BOOLEAN /\ o.known \in BOOLEAN
BY DEF Writes, Outcomes

LEMMA MakeDirectoryKeeps ==
  ASSUME ServiceInvariant, NEW a \in Services, NEW s \in SessionIds, MakeDirectory(a, s)
  PROVE  ServiceInvariant'
<1> USE ServiceAssumption
<1> USE DEF ServiceInvariant, ServiceTypeOK, MakeDirectory, Holds, Making, Names, Idle, Silent
<1>1. ServiceTypeOK'
  BY ZenonT(40) DEF Directory
<1>2. OpenIsMade'
  BY DEF OpenIsMade, Directory
<1>3. BareIsOnes'
  BY DEF BareIsOnes, Directory
<1>4. LocksAreInUse'
  BY DEF SessionsAgree, LocksAreInUse, Uses
<1>5. ScopesFollowSession'
  BY DEF SessionsAgree, ScopesFollowSession, Directory
<1>6. MovesAreTrue'
  BY DEF MovesAreTrue
<1> QED BY <1>1, <1>2, <1>3, <1>4, <1>5, <1>6 DEF SessionsAgree

LEMMA StageCreateKeeps ==
  ASSUME ServiceInvariant, NEW a \in Services, StageCreate(a)
  PROVE  ServiceInvariant'
<1> USE ServiceAssumption
<1> DEFINE s == staged[a].ses
<1>0. /\ s \in SessionIds /\ disk[s].made = "bare" /\ lock[s] = Nobody /\ Making(a)
      /\ UNCHANGED <<active, unknown, loader, receipts>> /\ told' = Silent
  <2>1. Making(a) /\ UNCHANGED <<active, unknown, loader, receipts>> /\ told' = Silent
    BY DEF StageCreate, Making
  <2>2. s \in SessionIds /\ disk[s].made = "bare"
    BY <2>1 DEF ServiceInvariant, BareIsOnes
  <2>3. \A b \in Services : s \notin Uses(b)
    BY <2>2 DEF ServiceInvariant, OpenIsMade, Uses, Holds
  <2>4. lock[s] = Nobody
    BY <2>2, <2>3 DEF ServiceInvariant, ServiceTypeOK, SessionsAgree, LocksAreInUse
  <2> QED BY <2>1, <2>2, <2>4
<1>1. /\ disk' \in [SessionIds -> Directory]
      /\ \A t \in SessionIds : t # s => disk'[t] = disk[t]
      /\ disk'[s] = disk[s] \/ (disk'[s].made = "yes" /\ disk'[s].scopes = s)
  <2>1. Record(a, s) \in Directory /\ Record(a, s).made = "yes" /\ Record(a, s).scopes = s
    BY <1>0 DEF Record, Directory, Names
  <2>2. disk' = disk \/ disk' = [disk EXCEPT ![s] = Record(a, s)]
    BY DEF StageCreate
  <2> QED BY <1>0, <2>1, <2>2 DEF ServiceInvariant, ServiceTypeOK
<1>2. /\ staged' \in [Services -> [kind : {"none", "making", "create", "resume"}, ses : Names]]
      /\ \A b \in Services : b # a => staged'[b] = staged[b]
      /\ \/ staged'[a].kind = "create" /\ staged'[a].ses = s /\ disk'[s].made = "yes" /\ lock' = [lock EXCEPT ![s] = a]
         \/ staged'[a].kind = "none" /\ UNCHANGED lock
  <2>1. CASE /\ disk' = [disk EXCEPT ![s] = Record(a, s)] /\ lock' = [lock EXCEPT ![s] = a]
             /\ staged' = [staged EXCEPT ![a].kind = "create"]
    BY <1>0, <2>1 DEF Record, ServiceInvariant, ServiceTypeOK
  <2>2. CASE staged' = [staged EXCEPT ![a] = [kind |-> "none", ses |-> Nobody]] /\ UNCHANGED lock
    BY <2>2 DEF ServiceInvariant, ServiceTypeOK, Names
  <2> QED BY <2>1, <2>2 DEF StageCreate
<1>3. ServiceTypeOK'
  BY <1>0, <1>1, <1>2 DEF ServiceInvariant, ServiceTypeOK
<1>. \A b \in Services : active[b] # Nobody => active[b] \in SessionIds
  BY DEF ServiceInvariant, ServiceTypeOK, Names
<1>4. OpenIsMade'
  BY <1>0, <1>1, <1>2 DEF ServiceInvariant, OpenIsMade, Holds
<1>5. BareIsOnes'
  BY <1>0, <1>1, <1>2 DEF ServiceInvariant, BareIsOnes, Making
<1>6. LocksAreInUse'
  BY <1>0, <1>2 DEF ServiceInvariant, ServiceTypeOK, SessionsAgree, LocksAreInUse, Uses, OpenIsMade, Holds, Making
<1>7. ScopesFollowSession'
  BY <1>0, <1>1 DEF ServiceInvariant, SessionsAgree, ScopesFollowSession
<1>8. MovesAreTrue'
  BY <1>0 DEF MovesAreTrue
<1> QED BY <1>3, <1>4, <1>5, <1>6, <1>7, <1>8 DEF ServiceInvariant, SessionsAgree

LEMMA StageResumeKeeps ==
  ASSUME ServiceInvariant, NEW a \in Services, NEW s \in SessionIds, StageResume(a, s)
  PROVE  ServiceInvariant'
<1> USE ServiceAssumption
<1> DEFINE record == [disk[s] EXCEPT !.scopes = s]
<1>1. CASE ~Opens(s, ProjectOf[a])
  BY <1>1
  DEF StageResume, ServiceInvariant, ServiceTypeOK, OpenIsMade, BareIsOnes, SessionsAgree, LocksAreInUse, Uses,
      ScopesFollowSession, MovesAreTrue, Holds, Making
<1>2. CASE Opens(s, ProjectOf[a])
  <2>1. PICK o \in Writes :
          /\ disk' = Stored(s, record, o)
          /\ lock' = [lock EXCEPT ![s] = IF o.ok THEN a ELSE Nobody]
          /\ staged' = [staged EXCEPT ![a] = IF o.ok THEN [kind |-> "resume", ses |-> s] ELSE @]
    BY <1>2 DEF StageResume
  <2>2. /\ UNCHANGED <<active, unknown, loader, receipts>> /\ told' = Silent
        /\ staged[a].kind = "none" /\ active[a] # s
    BY <1>2 DEF StageResume, Idle
  <2>3. /\ disk[s] \in Directory /\ disk[s].made = "yes" /\ disk[s].scopes = s /\ lock[s] = Nobody
        /\ record = disk[s]
    BY <1>2 DEF Opens, ServiceInvariant, SessionsAgree, ScopesFollowSession, ServiceTypeOK, Directory
  <2>4. UNCHANGED disk
    <3>1. /\ disk' \in [SessionIds -> Directory]
          /\ \A t \in SessionIds : t # s => disk'[t] = disk[t]
          /\ disk'[s] = disk[s]
      BY <2>1, <2>3, StoreKeeps DEF ServiceInvariant
    <3> QED BY <3>1 DEF ServiceInvariant, ServiceTypeOK
  <2>5. CASE o.ok
    <3>1. /\ staged' \in [Services -> [kind : {"none", "making", "create", "resume"}, ses : Names]]
          /\ \A b \in Services : b # a => staged'[b] = staged[b]
          /\ staged'[a].kind = "resume" /\ staged'[a].ses = s
      BY <2>1, <2>5 DEF ServiceInvariant, ServiceTypeOK, Names
    <3>2. ServiceTypeOK'
      BY <2>1, <2>2, <2>4, <2>5, <3>1 DEF ServiceInvariant, ServiceTypeOK
    <3>3. OpenIsMade'
      BY <2>2, <2>3, <2>4, <3>1 DEF ServiceInvariant, OpenIsMade, Holds
    <3>4. BareIsOnes'
      BY <2>2, <2>4, <3>1 DEF ServiceInvariant, BareIsOnes, Making
    <3>5. LocksAreInUse'
      BY <2>1, <2>2, <2>3, <2>5, <3>1 DEF ServiceInvariant, ServiceTypeOK, SessionsAgree, LocksAreInUse, Uses
    <3> QED BY <2>2, <2>4, <3>2, <3>3, <3>4, <3>5
            DEF ServiceInvariant, SessionsAgree, ScopesFollowSession, MovesAreTrue
  <2>6. CASE ~o.ok
    <3>1. UNCHANGED <<staged, lock>>
      BY <2>1, <2>3, <2>6 DEF ServiceInvariant, ServiceTypeOK
    <3> QED BY <2>2, <2>4, <3>1
            DEF ServiceInvariant, ServiceTypeOK, OpenIsMade, BareIsOnes, SessionsAgree, LocksAreInUse, Uses,
                ScopesFollowSession, MovesAreTrue, Holds, Making
  <2> QED BY <2>5, <2>6
<1> QED BY <1>1, <1>2

\* What a prepared Session replaces is unlocked, and only that.
LEMMA CommitKeeps ==
  ASSUME ServiceInvariant, NEW a \in Services, Commit(a)
  PROVE  ServiceInvariant'
<1> USE ServiceAssumption
<1> DEFINE s == staged[a].ses
           old == active[a]
<1>1. /\ s \in SessionIds /\ disk[s].made = "yes" /\ s # old /\ lock[s] = a /\ Holds(a)
      /\ old # Nobody => old \in SessionIds /\ disk[old] \in Directory /\ disk[old].made = "yes"
                         /\ disk[old].scopes = old /\ lock[old] = a /\ loader[a] = old
      /\ UNCHANGED receipts
  BY DEF Commit, ServiceInvariant, ServiceTypeOK, OpenIsMade, SessionsAgree, LocksAreInUse, ScopesFollowSession, Uses, Holds,
         Names
<1>2. /\ UNCHANGED disk
      /\ \/ Switch(a, old)
         \/ Abandon(a) /\ UNCHANGED <<active, loader>> /\ unknown' \in [Services -> BOOLEAN]
  <2>1. CASE old = Nobody
    BY <2>1 DEF Commit
  <2>2. CASE old # Nobody /\ unknown[a]
    BY <2>2 DEF Commit, ServiceInvariant, ServiceTypeOK
  <2>3. CASE old # Nobody /\ ~unknown[a]
    <3>1. PICK o \in Writes :
            /\ disk' = Stored(old, [disk[old] EXCEPT !.scopes = loader[a]], o)
            /\ IF o.ok THEN Switch(a, old)
               ELSE Abandon(a) /\ unknown' = [unknown EXCEPT ![a] = ~o.known] /\ UNCHANGED <<active, loader>>
      BY <2>3 DEF Commit
    <3>2. [disk[old] EXCEPT !.scopes = loader[a]] = disk[old]
      BY <1>1, <2>3 DEF Directory
    <3>3. /\ disk' \in [SessionIds -> Directory]
          /\ \A t \in SessionIds : t # old => disk'[t] = disk[t]
          /\ disk'[old] = disk[old]
      BY <1>1, <2>3, <3>1, <3>2, StoreKeeps DEF ServiceInvariant
    <3>4. UNCHANGED disk
      BY <3>3 DEF ServiceInvariant, ServiceTypeOK
    <3>5. o.known \in BOOLEAN
      BY OutcomeTypes
    <3>6. unknown' = [unknown EXCEPT ![a] = ~o.known] => unknown' \in [Services -> BOOLEAN]
      BY <3>5 DEF ServiceInvariant, ServiceTypeOK
    <3> QED BY <3>1, <3>4, <3>6
  <2> QED BY <2>1, <2>2, <2>3
<1>3. /\ staged' \in [Services -> [kind : {"none", "making", "create", "resume"}, ses : Names]]
      /\ \A b \in Services : b # a => staged'[b] = staged[b]
      /\ staged'[a].kind = "none"
  BY <1>2 DEF ServiceInvariant, ServiceTypeOK, Switch, Abandon, Names
<1>4. ServiceTypeOK'
  <2>1. CASE Switch(a, old)
    BY <1>1, <1>2, <1>3, <2>1 DEF ServiceInvariant, ServiceTypeOK, Switch, Names
  <2>2. CASE Abandon(a) /\ UNCHANGED <<active, loader>> /\ unknown' \in [Services -> BOOLEAN]
    BY <1>1, <1>2, <1>3, <2>2 DEF ServiceInvariant, ServiceTypeOK, Abandon
  <2> QED BY <1>2, <2>1, <2>2
<1>5. BareIsOnes'
  BY <1>2, <1>3 DEF ServiceInvariant, BareIsOnes, Making
<1>6. CASE Switch(a, old)
  <2>1. active' = [active EXCEPT ![a] = s] /\ loader' = [loader EXCEPT ![a] = s] /\ told' = Silent
    BY <1>6 DEF Switch
  <2>2. OpenIsMade'
    BY <1>1, <1>2, <1>3, <2>1 DEF ServiceInvariant, ServiceTypeOK, OpenIsMade, Holds
  <2>3. LocksAreInUse'
    BY <1>1, <1>3, <1>6 DEF ServiceInvariant, ServiceTypeOK, SessionsAgree, LocksAreInUse, Uses, Holds, Switch
  <2>4. ScopesFollowSession' /\ MovesAreTrue'
    BY <1>2, <2>1 DEF ServiceInvariant, ServiceTypeOK, SessionsAgree, ScopesFollowSession, MovesAreTrue
  <2> QED BY <1>4, <1>5, <2>2, <2>3, <2>4 DEF ServiceInvariant, SessionsAgree
<1>7. CASE Abandon(a) /\ UNCHANGED <<active, loader>>
  <2>1. OpenIsMade'
    BY <1>2, <1>3, <1>7 DEF ServiceInvariant, OpenIsMade, Holds
  <2>2. LocksAreInUse'
    BY <1>1, <1>3, <1>7 DEF ServiceInvariant, ServiceTypeOK, SessionsAgree, LocksAreInUse, Uses, Holds, Abandon
  <2>3. ScopesFollowSession' /\ MovesAreTrue'
    BY <1>2, <1>7 DEF ServiceInvariant, SessionsAgree, ScopesFollowSession, MovesAreTrue, Abandon
  <2> QED BY <1>4, <1>5, <2>1, <2>2, <2>3 DEF ServiceInvariant, SessionsAgree
<1> QED BY <1>2, <1>6, <1>7

LEMMA CrashKeeps ==
  ASSUME ServiceInvariant, NEW a \in Services, Crash(a)
  PROVE  ServiceInvariant'
<1> USE ServiceAssumption
<1> USE DEF ServiceInvariant, ServiceTypeOK, Crash, Holds, Making, Names, Silent
<1>1. ServiceTypeOK'
  BY DEF Directory
<1>2. OpenIsMade'
  BY DEF OpenIsMade, Directory
<1>3. BareIsOnes'
  BY DEF BareIsOnes, Directory
<1>4. LocksAreInUse'
  BY DEF SessionsAgree, LocksAreInUse, Uses, OpenIsMade
<1>5. ScopesFollowSession'
  BY DEF SessionsAgree, ScopesFollowSession, OpenIsMade, Directory
<1>6. MovesAreTrue'
  BY DEF MovesAreTrue
<1> QED BY <1>1, <1>2, <1>3, <1>4, <1>5, <1>6 DEF SessionsAgree

LEMMA QuarantineKeeps ==
  ASSUME ServiceInvariant, NEW a \in Services, Quarantine(a)
  PROVE  ServiceInvariant'
<1> USE ServiceAssumption
<1> USE DEF ServiceInvariant, ServiceTypeOK, Quarantine, Holds, Making, Names, Silent
<1>1. ServiceTypeOK'
  BY DEF Directory
<1>2. OpenIsMade'
  BY DEF OpenIsMade, Directory
<1>3. BareIsOnes'
  BY DEF BareIsOnes, Directory
<1>4. LocksAreInUse'
  BY DEF SessionsAgree, LocksAreInUse, Uses, OpenIsMade
<1>5. ScopesFollowSession'
  BY DEF SessionsAgree, ScopesFollowSession, OpenIsMade, Directory
<1>6. MovesAreTrue'
  BY DEF MovesAreTrue
<1> QED BY <1>1, <1>2, <1>3, <1>4, <1>5, <1>6 DEF SessionsAgree

----------------------------------------------------------------------------
\* What changes no lock and no active or prepared Session, and stores only what
\* agrees with the Session, keeps everything but the reported move.
Recorded ==
  /\ UNCHANGED staged
  /\ disk' \in [SessionIds -> Directory]
  /\ \A t \in SessionIds : disk'[t].made = disk[t].made /\ disk'[t].scopes \in {disk[t].scopes, t}
  /\ unknown' \in [Services -> BOOLEAN]
  /\ receipts' \in [Services -> SUBSET (SessionIds \X Projects)]

LEMMA RecordKeeps ==
  ASSUME ServiceInvariant, Recorded, UNCHANGED <<lock, active>>, loader' \in [Services -> Names],
         \A a \in Services : active[a] # Nobody => loader'[a] = active[a],
         MovesAreTrue'
  PROVE  ServiceInvariant'
<1> USE DEF ServiceInvariant, ServiceTypeOK, Recorded
<1>1. ServiceTypeOK'
  OBVIOUS
<1>2. OpenIsMade'
  BY DEF OpenIsMade, Holds, Names
<1>3. BareIsOnes'
  BY DEF BareIsOnes, Making
<1>4. LocksAreInUse'
  BY DEF SessionsAgree, LocksAreInUse, Uses
<1>5. ScopesFollowSession'
  BY DEF SessionsAgree, ScopesFollowSession
<1> QED BY <1>1, <1>2, <1>3, <1>4, <1>5 DEF SessionsAgree

\* Giving up the active Session with its lock.
LEMMA ReleaseKeeps ==
  ASSUME ServiceInvariant, NEW a \in Services, active[a] # Nobody, Recorded, UNCHANGED loader,
         lock' = [lock EXCEPT ![active[a]] = Nobody], active' = [active EXCEPT ![a] = Nobody],
         MovesAreTrue'
  PROVE  ServiceInvariant'
<1> USE ServiceAssumption
<1>1. ServiceTypeOK'
  BY DEF ServiceInvariant, ServiceTypeOK, Recorded, Names
<1>2. /\ active'[a] = Nobody /\ \A b \in Services : b # a => active'[b] = active[b]
      /\ \A b \in Services : active[b] \in SessionIds \cup {Nobody}
  BY DEF ServiceInvariant, ServiceTypeOK, Names
<1>3. OpenIsMade'
  BY <1>2 DEF ServiceInvariant, OpenIsMade, Recorded, Holds
<1>4. BareIsOnes'
  BY DEF ServiceInvariant, BareIsOnes, Recorded, Making
<1>5. LocksAreInUse'
  BY <1>2 DEF ServiceInvariant, ServiceTypeOK, SessionsAgree, LocksAreInUse, Uses, OpenIsMade, Holds, Recorded
<1>6. ScopesFollowSession'
  BY <1>2 DEF ServiceInvariant, SessionsAgree, ScopesFollowSession, Recorded
<1> QED BY <1>1, <1>3, <1>4, <1>5, <1>6 DEF ServiceInvariant, SessionsAgree

LEMMA ActiveIsMade ==
  ASSUME ServiceInvariant, NEW a \in Services, active[a] # Nobody
  PROVE  /\ active[a] \in SessionIds /\ loader[a] = active[a] /\ disk[active[a]] \in Directory
         /\ disk[active[a]].made = "yes" /\ disk[active[a]].scopes = active[a]
BY DEF ServiceInvariant, ServiceTypeOK, OpenIsMade, SessionsAgree, ScopesFollowSession, Names

LEMMA RefreshKeeps ==
  ASSUME ServiceInvariant, NEW a \in Services, Refresh(a)
  PROVE  ServiceInvariant'
<1> DEFINE s == active[a]
<1> USE ActiveIsMade
<1>1. /\ s # Nobody /\ told' = Silent
      /\ UNCHANGED <<lock, active, staged, receipts>>
  BY DEF Refresh
<1>2. CASE unknown[a]
  BY <1>1, <1>2, RecordKeeps
  DEF Refresh, Refused, Recorded, MovesAreTrue, Silent, ServiceInvariant, ServiceTypeOK, SessionsAgree, ScopesFollowSession
<1>3. CASE ~unknown[a]
  <2>1. PICK o \in Writes :
          /\ disk' = Stored(s, disk[s], o) /\ unknown' = [unknown EXCEPT ![a] = ~o.known]
          /\ loader' = IF o.ok THEN [loader EXCEPT ![a] = disk[s].scopes] ELSE loader
    BY <1>3 DEF Refresh, Written
  <2>2. disk' \in [SessionIds -> Directory] /\ \A t \in SessionIds : disk'[t] = disk[t]
    BY <1>1, <2>1, StoreKeeps DEF ServiceInvariant
  <2>3. o.ok \in BOOLEAN /\ o.known \in BOOLEAN
    BY DEF Writes, Outcomes
  <2>4. /\ loader' \in [Services -> Names]
        /\ \A b \in Services : active[b] # Nobody => loader'[b] = active[b]
    BY <1>1, <2>1, <2>3 DEF ServiceInvariant, ServiceTypeOK, SessionsAgree, ScopesFollowSession, Names
  <2>5. Recorded
    BY <1>1, <2>1, <2>2, <2>3 DEF Recorded, ServiceInvariant, ServiceTypeOK
  <2>6. MovesAreTrue'
    BY <1>1 DEF MovesAreTrue, Silent
  <2> QED BY <1>1, <2>4, <2>5, <2>6, RecordKeeps
<1> QED BY <1>2, <1>3

LEMMA UpdateMetadataKeeps ==
  ASSUME ServiceInvariant, NEW a \in Services, NEW s \in SessionIds, UpdateMetadata(a, s)
  PROVE  ServiceInvariant'
<1>1. told' = Silent /\ UNCHANGED <<lock, active, loader, staged, receipts>>
  BY DEF UpdateMetadata
<1>2. Recorded
  <2>1. CASE UNCHANGED <<disk, unknown>>
    BY <1>1, <2>1 DEF Recorded, ServiceInvariant, ServiceTypeOK
  <2>2. ASSUME NEW o \in Writes, Written(a, s, disk[s], o)
        PROVE  Recorded
    <3>1. disk' \in [SessionIds -> Directory] /\ \A t \in SessionIds : disk'[t] = disk[t]
      BY <2>2, StoreKeeps DEF Written, ServiceInvariant, ServiceTypeOK
    <3>2. o.known \in BOOLEAN
      BY DEF Writes, Outcomes
    <3> QED BY <1>1, <2>2, <3>1, <3>2 DEF Written, Recorded, ServiceInvariant, ServiceTypeOK
  <2> QED BY <2>1, <2>2 DEF UpdateMetadata, Refused
<1>3. MovesAreTrue'
  BY <1>1 DEF MovesAreTrue, Silent
<1> QED BY <1>1, <1>2, <1>3, RecordKeeps DEF ServiceInvariant, ServiceTypeOK, SessionsAgree, ScopesFollowSession

LEMMA CloseKeeps ==
  ASSUME ServiceInvariant, NEW a \in Services, Close(a)
  PROVE  ServiceInvariant'
<1> DEFINE s == active[a]
           record == [disk[s] EXCEPT !.scopes = loader[a]]
<1>1. s # Nobody /\ told' = Silent /\ UNCHANGED <<loader, staged, receipts>>
  BY DEF Close
<1>2. s \in SessionIds /\ record \in Directory /\ record = disk[s]
  BY <1>1, ActiveIsMade DEF Directory, Names
<1>3. ASSUME NEW o \in Writes, disk' = Stored(s, record, o)
      PROVE  disk' \in [SessionIds -> Directory] /\ \A t \in SessionIds : disk'[t] = disk[t]
  BY <1>2, <1>3, StoreKeeps DEF ServiceInvariant
<1>4. disk' \in [SessionIds -> Directory] /\ \A t \in SessionIds : disk'[t] = disk[t]
  BY <1>3 DEF Close, ServiceInvariant, ServiceTypeOK
<1>5. Recorded
  BY <1>1, <1>4 DEF Close, Recorded, Writes, Outcomes, ServiceInvariant, ServiceTypeOK
<1>6. MovesAreTrue'
  BY <1>1 DEF MovesAreTrue, Silent
<1>7. CASE lock' = [lock EXCEPT ![s] = Nobody] /\ active' = [active EXCEPT ![a] = Nobody]
  BY <1>1, <1>5, <1>6, <1>7, ReleaseKeeps
<1>8. CASE UNCHANGED <<lock, active>>
  BY <1>1, <1>5, <1>6, <1>8, RecordKeeps DEF ServiceInvariant, ServiceTypeOK, SessionsAgree, ScopesFollowSession
<1> QED BY <1>7, <1>8 DEF Close

\* The move of an open Session stores its own scopes and reports only what is
\* on disk.
LEMMA MoveOpenKeeps ==
  ASSUME ServiceInvariant, NEW a \in Services, NEW p \in Projects, MoveOpen(a, p)
  PROVE  ServiceInvariant'
<1> DEFINE s == active[a]
           record == [disk[s] EXCEPT !.scopes = loader[a], !.own = p]
<1>1. s # Nobody /\ UNCHANGED <<loader, staged>>
  BY DEF MoveOpen
<1>2. s \in SessionIds /\ record \in Directory /\ record.own = p /\ record.made = disk[s].made /\ record.scopes = s
  BY <1>1, ActiveIsMade DEF Directory, Names
<1>3. CASE Refused /\ told' = Silent /\ UNCHANGED <<active, lock, receipts>>
  BY <1>1, <1>3, RecordKeeps
  DEF Refused, Recorded, MovesAreTrue, Silent, ServiceInvariant, ServiceTypeOK, SessionsAgree, ScopesFollowSession
<1>4. ASSUME NEW o \in Writes, disk' = Stored(s, record, o),
             IF ~o.ok
             THEN told' = Silent /\ unknown' = [unknown EXCEPT ![a] = ~o.known]
                  /\ UNCHANGED <<active, lock, receipts>>
             ELSE /\ told' = Moved(s, p) /\ Receive(a, s, p) /\ UNCHANGED unknown
                  /\ IF disk[s].own = p THEN UNCHANGED <<active, lock>>
                     ELSE /\ active' = [active EXCEPT ![a] = Nobody]
                          /\ lock' = [lock EXCEPT ![s] = Nobody]
      PROVE  ServiceInvariant'
  <2>1. /\ disk' \in [SessionIds -> Directory]
        /\ \A t \in SessionIds : t # s => disk'[t] = disk[t]
        /\ disk'[s] = record \/ disk'[s] = disk[s]
        /\ o.ok => disk'[s] = record
    BY <1>2, <1>4, StoreKeeps DEF ServiceInvariant
  <2>. o.ok \in BOOLEAN /\ o.known \in BOOLEAN
    BY OutcomeTypes
  <2>6. \A t \in SessionIds : disk'[t].made = disk[t].made /\ disk'[t].scopes \in {disk[t].scopes, t}
    BY <1>2, <2>1
  <2>7. unknown' \in [Services -> BOOLEAN]
    BY <1>4 DEF ServiceInvariant, ServiceTypeOK
  <2>8. receipts' \in [Services -> SUBSET (SessionIds \X Projects)]
    <3>1. Receive(a, s, p) => receipts' \in [Services -> SUBSET (SessionIds \X Projects)]
      BY <1>2 DEF Receive, ServiceInvariant, ServiceTypeOK
    <3> QED BY <1>4, <3>1 DEF ServiceInvariant, ServiceTypeOK
  <2>2. Recorded
    BY <1>1, <2>1, <2>6, <2>7, <2>8 DEF Recorded
  <2>3. MovesAreTrue'
    <3>1. CASE ~o.ok
      BY <1>4, <3>1 DEF MovesAreTrue
    <3>2. CASE o.ok
      <4>1. told' = <<s, p>> /\ disk'[s].own = p
        BY <1>2, <1>4, <2>1, <3>2 DEF Moved
      <4> QED BY <4>1 DEF MovesAreTrue
    <3> QED BY <3>1, <3>2
  <2>4. CASE UNCHANGED <<active, lock>>
    BY <1>1, <2>2, <2>3, <2>4, RecordKeeps DEF ServiceInvariant, ServiceTypeOK, SessionsAgree, ScopesFollowSession
  <2>5. CASE active' = [active EXCEPT ![a] = Nobody] /\ lock' = [lock EXCEPT ![s] = Nobody]
    BY <1>1, <2>2, <2>3, <2>5, ReleaseKeeps
  <2> QED BY <1>4, <2>4, <2>5
<1> QED BY <1>3, <1>4 DEF MoveOpen

LEMMA MoveByReceiptKeeps ==
  ASSUME ServiceInvariant, NEW a \in Services, NEW s \in SessionIds, NEW p \in Projects, MoveByReceipt(a, s, p)
  PROVE  ServiceInvariant'
<1>1. UNCHANGED <<disk, lock, active, unknown, loader, staged, receipts>>
  BY DEF MoveByReceipt
<1>2. MovesAreTrue'
  BY DEF MoveByReceipt, MovesAreTrue, Opens, Moved, Silent
<1>3. Recorded
  BY <1>1 DEF Recorded, ServiceInvariant, ServiceTypeOK
<1> QED BY <1>1, <1>2, <1>3, RecordKeeps DEF ServiceInvariant, ServiceTypeOK, SessionsAgree, ScopesFollowSession

LEMMA MoveClosedKeeps ==
  ASSUME ServiceInvariant, NEW a \in Services, NEW s \in SessionIds, NEW p \in Projects, MoveClosed(a, s, p)
  PROVE  ServiceInvariant'
<1> DEFINE record == [disk[s] EXCEPT !.own = p]
<1>1. UNCHANGED <<lock, active, loader, staged>>
  BY DEF MoveClosed
<1>2. CASE Refused /\ told' = Silent /\ UNCHANGED receipts
  BY <1>1, <1>2, RecordKeeps
  DEF Refused, Recorded, MovesAreTrue, Silent, ServiceInvariant, ServiceTypeOK, SessionsAgree, ScopesFollowSession
<1>3. ASSUME NEW o \in Writes, disk' = Stored(s, record, o), UNCHANGED unknown,
             told' = IF o.ok THEN Moved(s, p) ELSE Silent,
             IF o.ok THEN Receive(a, s, p) ELSE UNCHANGED receipts
      PROVE  ServiceInvariant'
  <2>1. record \in Directory /\ record.own = p /\ record.made = disk[s].made /\ record.scopes = disk[s].scopes
    BY DEF ServiceInvariant, ServiceTypeOK, Directory
  <2>2. /\ disk' \in [SessionIds -> Directory]
        /\ \A t \in SessionIds : t # s => disk'[t] = disk[t]
        /\ disk'[s] = record \/ disk'[s] = disk[s]
        /\ o.ok => disk'[s] = record
    BY <1>3, <2>1, StoreKeeps DEF ServiceInvariant
  <2>5. receipts' \in [Services -> SUBSET (SessionIds \X Projects)]
    <3>1. Receive(a, s, p) => receipts' \in [Services -> SUBSET (SessionIds \X Projects)]
      BY DEF Receive, ServiceInvariant, ServiceTypeOK
    <3> QED BY <1>3, <3>1 DEF ServiceInvariant, ServiceTypeOK
  <2>6. unknown' \in [Services -> BOOLEAN]
    BY <1>3 DEF ServiceInvariant, ServiceTypeOK
  <2>3. Recorded
    BY <1>1, <2>1, <2>2, <2>5, <2>6 DEF Recorded
  <2>4. MovesAreTrue'
    BY <1>3, <2>1, <2>2 DEF MovesAreTrue, Moved, Silent
  <2> QED BY <1>1, <2>3, <2>4, RecordKeeps DEF ServiceInvariant, ServiceTypeOK, SessionsAgree, ScopesFollowSession
<1>4. CASE Opens(s, ProjectOf[a])
  <2>1. PICK o \in IF p = ProjectOf[a] THEN {o \in Writes : o.ok} ELSE Writes :
          /\ disk' = Stored(s, record, o) /\ UNCHANGED unknown
          /\ told' = IF o.ok THEN Moved(s, p) ELSE Silent
          /\ IF o.ok THEN Receive(a, s, p) ELSE UNCHANGED receipts
    BY <1>4 DEF MoveClosed
  <2>2. o \in Writes
    OBVIOUS
  <2> QED BY <1>3, <2>1, <2>2
<1>5. CASE ~Opens(s, ProjectOf[a])
  BY <1>2, <1>5 DEF MoveClosed
<1> QED BY <1>4, <1>5

----------------------------------------------------------------------------
LEMMA ServiceKeeps == ServiceInvariant /\ [ServiceNext]_serviceVars => ServiceInvariant'
<1> SUFFICES ASSUME ServiceInvariant, ServiceNext PROVE ServiceInvariant'
  BY ServiceStutter
<1>1. PICK a \in Services : ServiceStep(a)
  BY DEF ServiceNext
<1>2. ASSUME NEW s \in SessionIds, NEW p \in Projects, MoveSession(a, s, p)
      PROVE  ServiceInvariant'
  BY <1>2, MoveOpenKeeps, MoveByReceiptKeeps, MoveClosedKeeps DEF MoveSession
<1> QED BY <1>1, <1>2, StageCreateKeeps, CommitKeeps, RefreshKeeps, CloseKeeps, QuarantineKeeps, CrashKeeps,
           MakeDirectoryKeeps, StageResumeKeeps, UpdateMetadataKeeps
        DEF ServiceStep

\* A Session is locked exactly while somebody has it open or is about to, its
\* stored scopes are its own, and a move reported as done was done
\* (application/sessions.py 1153 and 1449), whatever fails or dies in between.
THEOREM LocksScopesAndMoves == ServiceSpec => []SessionsAgree
<1>1. ServiceInvariant => SessionsAgree
  BY DEF ServiceInvariant
<1> QED BY <1>1, ServiceInitial, ServiceKeeps, PTL DEF ServiceSpec

----------------------------------------------------------------------------
(* Attachments.                                                               *)
AttachmentTypes ==
  /\ original \in [Refs -> Kinds]
  /\ durable \subseteq Refs /\ loaded \subseteq Refs /\ sent \subseteq Refs

LEMMA AttachmentInitial == AttachmentInit => AttachmentTypes
BY DEF AttachmentInit, AttachmentTypes, Kinds

LEMMA CleaningIsSafe ==
  ASSUME original \in [Refs -> Kinds]
  PROVE  /\ Cleaned(original) \in [Refs -> Kinds]
         /\ \A r \in Refs : original[r] = "stored" => Cleaned(original)[r] = "stored"
BY DEF Cleaned, Kinds

\* A boundary of the Session, whose reconciliation works or fails.
LEMMA BoundaryIsSafe ==
  ASSUME AttachmentTypes, NEW refs, Reconcile(refs) \/ ReconcileFails
  PROVE  /\ original' \in [Refs -> Kinds]
         /\ \A r \in Refs : original[r] = "stored" => original'[r] = "stored"
BY CleaningIsSafe DEF AttachmentTypes, Reconcile, ReconcileFails

\* Only a removal, and a crash in the middle of one, touches what is stored, and
\* both have asked the Transcript on disk.
LEMMA AttachmentStep ==
  ASSUME AttachmentTypes, [AttachmentNext]_attachmentVars
  PROVE  /\ AttachmentTypes'
         /\ \A r \in durable : original[r] = "stored" => original'[r] = "stored"
<1> DEFINE Kept == \A r \in durable : original[r] = "stored" => original'[r] = "stored"
<1> USE DEF AttachmentTypes
<1>1. ASSUME NEW r \in Refs, Persist(r)
      PROVE  AttachmentTypes' /\ Kept
  BY <1>1 DEF Persist, Kinds
<1>2. ASSUME NEW r \in Refs, RemoveDraft(r)
      PROVE  AttachmentTypes' /\ Kept
  BY <1>2 DEF RemoveDraft, Erased, Kinds
<1>3. ASSUME NEW r \in Refs, MaterializeOpenPath(r)
      PROVE  AttachmentTypes' /\ Kept
  BY <1>3 DEF MaterializeOpenPath
<1>4. ASSUME NEW refs \in SUBSET Refs, SendMessage(refs)
      PROVE  AttachmentTypes' /\ Kept
  BY <1>4 DEF SendMessage
<1>5. CASE OpenWriter
  BY <1>5, BoundaryIsSafe DEF OpenWriter
<1>6. CASE CloseWriter
  BY <1>6, BoundaryIsSafe DEF CloseWriter
<1>7. CASE AppendTranscript
  <2>1. /\ original' \in [Refs -> Kinds]
        /\ \A r \in Refs : original[r] = "stored" => original'[r] = "stored"
    BY <1>7, BoundaryIsSafe DEF AppendTranscript
  <2>2. durable' \subseteq Refs /\ loaded' \subseteq Refs /\ sent' \subseteq Refs
    BY <1>7 DEF AppendTranscript
  <2> QED BY <2>1, <2>2
<1>8. CASE ProcessDies
  <2>1. \A r \in Refs : CrashedImport(r) => original' \in [Refs -> Kinds] /\ Kept
    BY DEF CrashedImport, Kinds
  <2>2. \A r \in Refs : CrashedRemoval(r) => original' \in [Refs -> Kinds] /\ Kept
    BY DEF CrashedRemoval, Kinds
  <2> QED BY <1>8, <2>1, <2>2 DEF ProcessDies
<1>9. CASE UNCHANGED attachmentVars
  BY <1>9 DEF attachmentVars
<1> QED BY <1>1, <1>2, <1>3, <1>4, <1>5, <1>6, <1>7, <1>8, <1>9 DEF AttachmentNext

\* No step deletes or damages the original of an attachment that the Transcript
\* on disk names, with any quotas and any number of failures and crashes
\* (integrations/attachment_files.py, remove_draft and cleanup).
THEOREM SubmittedStays == AttachmentSpec => OriginalsAreKept
BY AttachmentInitial, AttachmentStep, PTL DEF AttachmentSpec, OriginalsAreKept

----------------------------------------------------------------------------
(* Model selection.                                                           *)
Referable == Models \cup {NoChat}
ProviderObjects == [model : Referable, config : Nat]
Identities == [provider : ProviderObjects, model : Referable, preferred : Referable, commits : Nat, budget : ProviderObjects]
SwitchJobs == [kind : {"switch"}, at : {"limits", "summary"}, cand : ProviderObjects, chat : Chats \cup {NoChat},
               seen : Nat, cover : Int]
NewJobs == [kind : {"new"}, old : Identities, cand : ProviderObjects]
ResumeJobs == [kind : {"resume"}, at : {"preflight", "restore"}, chat : Chats]

SelectionTypeOK ==
  /\ reloads \in Nat /\ commits \in Nat
  /\ provider \in ProviderObjects /\ budget \in ProviderObjects
  /\ model \in Referable /\ preferred \in Referable
  /\ chatModel \in [Chats -> Referable] /\ here \in Chats \cup {NoChat}
  /\ images \in [Chats -> Int]
  /\ job \in [Jobs -> SwitchJobs \cup NewJobs \cup ResumeJobs \cup {NoJob}]

\* While a new Session is prepared, only a committed switch changes what was
\* captured, and the candidate is the Provider of the default of that moment.
CapturedIsCurrent ==
  job["front"].kind = "new" =>
    LET old == job["front"].old
        cand == job["front"].cand
    IN /\ old.provider.model = old.model
       /\ IF old.preferred # old.model THEN cand.model = old.preferred ELSE cand = old.provider
       /\ old.commits <= commits
       /\ old.commits = commits => old = Captured

\* The Session whose model is about to be adopted is open.
Restoring(r) == r.kind = "resume" /\ r.at = "restore"
RestoringIsOpen == Restoring(job["front"]) => here \in Chats

SelectionInvariant == SelectionTypeOK /\ CapturedIsCurrent /\ RestoringIsOpen /\ ModelIsTheSessions

LEMMA SelectionInitial == SelectionInit => SelectionInvariant
BY SelectionAssumption
DEF SelectionInit, SelectionInvariant, SelectionTypeOK, CapturedIsCurrent, RestoringIsOpen, Restoring, ModelIsTheSessions,
    ProviderObjects, Referable, Built, Jobs, NoJob

\* A step that leaves the identity, the Sessions and adrift alone, and starts no
\* new Session but from what is current.
LEMMA QuietKeeps ==
  ASSUME SelectionInvariant, SelectionTypeOK', UNCHANGED <<identity, chatModel, here, adrift>>,
         job'["front"] = job["front"] \/ ~Restoring(job'["front"]),
         job'["front"].kind = "new" =>
           \/ job'["front"] = job["front"]
           \/ job'["front"].old = Captured
              /\ IF preferred # model THEN job'["front"].cand.model = preferred ELSE job'["front"].cand = provider
  PROVE  SelectionInvariant'
<1>1. ModelIsTheSessions'
  BY DEF SelectionInvariant, ModelIsTheSessions, identity
<1>2. Captured' = Captured /\ commits' = commits /\ commits \in Nat
  BY DEF Captured, identity, SelectionInvariant, SelectionTypeOK
<1>3. CapturedIsCurrent'
  <2>1. CASE job'["front"] = job["front"]
    BY <1>2, <2>1 DEF SelectionInvariant, CapturedIsCurrent
  <2>2. CASE job'["front"].old = Captured
             /\ IF preferred # model THEN job'["front"].cand.model = preferred ELSE job'["front"].cand = provider
    BY <1>2, <2>2 DEF SelectionInvariant, CapturedIsCurrent, Captured, ModelIsTheSessions
  <2>3. CASE job'["front"].kind # "new"
    BY <2>3 DEF CapturedIsCurrent
  <2> QED BY <2>1, <2>2, <2>3
<1>4. RestoringIsOpen'
  BY DEF SelectionInvariant, RestoringIsOpen, Restoring
<1> QED BY <1>1, <1>3, <1>4 DEF SelectionInvariant

\* What a job can be replaced by.
LEMMA JobTypes ==
  ASSUME SelectionTypeOK, NEW j \in Jobs,
         NEW r \in SwitchJobs \cup NewJobs \cup ResumeJobs \cup {NoJob},
         job' = [job EXCEPT ![j] = r]
  PROVE  /\ job' \in [Jobs -> SwitchJobs \cup NewJobs \cup ResumeJobs \cup {NoJob}]
         /\ job'[j] = r
         /\ \A k \in Jobs : k # j => job'[k] = job[k]
BY DEF SelectionTypeOK

LEMMA KindsOfJobs ==
  /\ \A r \in SwitchJobs \cup NewJobs \cup {NoJob} : ~Restoring(r)
  /\ \A r \in SwitchJobs : r.kind = "switch"
  /\ \A r \in NewJobs : r.kind = "new"
  /\ \A r \in ResumeJobs : r.kind = "resume"
  /\ NoJob.kind = "none"
BY DEF SwitchJobs, NewJobs, ResumeJobs, NoJob, Restoring

LEMMA JobOfKind ==
  ASSUME SelectionTypeOK, NEW j \in Jobs
  PROVE  /\ job[j].kind = "switch" => job[j] \in SwitchJobs
         /\ job[j].kind = "new" => job[j] \in NewJobs
         /\ job[j].kind = "resume" => job[j] \in ResumeJobs
BY KindsOfJobs DEF SelectionTypeOK

\* A step that only replaces a job by one that is not a new Session.
LEMMA JobChanges ==
  ASSUME SelectionInvariant, NEW j \in Jobs, NEW r \in SwitchJobs \cup ResumeJobs \cup {NoJob},
         job' = [job EXCEPT ![j] = r], ~Restoring(r), images' \in [Chats -> Int],
         UNCHANGED <<reloads, identity, chatModel, here, adrift>>
  PROVE  SelectionInvariant'
<1>1. /\ job' \in [Jobs -> SwitchJobs \cup NewJobs \cup ResumeJobs \cup {NoJob}]
      /\ job'[j] = r /\ \A k \in Jobs : k # j => job'[k] = job[k]
  BY JobTypes DEF SelectionInvariant
<1>2. SelectionTypeOK'
  BY <1>1 DEF SelectionInvariant, SelectionTypeOK, identity
<1>3. r.kind # "new"
  BY KindsOfJobs
<1>4. /\ job'["front"].kind = "new" => job'["front"] = job["front"]
      /\ job'["front"] = job["front"] \/ ~Restoring(job'["front"])
  BY <1>1, <1>3 DEF Jobs
<1> QED BY <1>2, <1>4, QuietKeeps

LEMMA StartSwitchKeeps ==
  ASSUME SelectionInvariant, NEW j \in Jobs, NEW m \in Models, NEW h \in Handlings, StartSwitch(j, m, h)
  PROVE  SelectionInvariant'
<1> DEFINE r == [kind |-> "switch", at |-> "limits", cand |-> Built(m), chat |-> here, seen |-> commits,
                 cover |-> IF m \notin Vision /\ h = "summarize" THEN Uncovered ELSE 0]
<1>1. Built(m) \in ProviderObjects
  BY DEF Built, ProviderObjects, Referable, SelectionInvariant, SelectionTypeOK
<1>2. Uncovered \in Int
  BY DEF Uncovered, SelectionInvariant, SelectionTypeOK
<1>3. r \in SwitchJobs
  BY <1>1, <1>2 DEF SwitchJobs, SelectionInvariant, SelectionTypeOK
<1>4. job' = [job EXCEPT ![j] = r] /\ UNCHANGED <<reloads, identity, chatModel, here, images, adrift>>
  BY DEF StartSwitch
<1> HIDE DEF r
<1> QED BY <1>3, <1>4, JobChanges, KindsOfJobs DEF SelectionInvariant, SelectionTypeOK

LEMMA LimitsForSummaryKeeps ==
  ASSUME SelectionInvariant, NEW j \in Jobs, LimitsForSummary(j)
  PROVE  SelectionInvariant'
<1>1. job[j] \in SwitchJobs
  BY JobOfKind DEF LimitsForSummary, SelectionInvariant
<1>2. [job[j] EXCEPT !.at = "summary"] \in SwitchJobs
  BY <1>1 DEF SwitchJobs
<1>3. job' = [job EXCEPT ![j] = [job[j] EXCEPT !.at = "summary"]]
      /\ UNCHANGED <<reloads, identity, chatModel, here, images, adrift>>
  BY DEF LimitsForSummary
<1> QED BY <1>2, <1>3, JobChanges, KindsOfJobs DEF SelectionInvariant, SelectionTypeOK

\* The images a finished summary covers.
LEMMA CoveringTypes ==
  ASSUME SelectionTypeOK, NEW j \in Jobs, job[j] \in SwitchJobs,
         UNCHANGED images \/ images' = [images EXCEPT ![job[j].chat] = @ - job[j].cover]
  PROVE  images' \in [Chats -> Int]
<1>1. job[j].cover \in Int
  BY DEF SwitchJobs
<1> QED BY <1>1 DEF SelectionTypeOK

LEMMA AbandonSwitchKeeps ==
  ASSUME SelectionInvariant, NEW j \in Jobs, AbandonSwitch(j)
  PROVE  SelectionInvariant'
<1>1. job[j] \in SwitchJobs
  BY JobOfKind DEF AbandonSwitch, SelectionInvariant
<1>2. images' \in [Chats -> Int]
  BY <1>1, CoveringTypes DEF AbandonSwitch, SelectionInvariant
<1>3. job' = [job EXCEPT ![j] = NoJob] /\ UNCHANGED <<reloads, identity, chatModel, here, adrift>>
  BY DEF AbandonSwitch, Ended
<1> QED BY <1>2, <1>3, JobChanges, KindsOfJobs

\* A committed switch puts model, Provider, limits and Session in one step, and
\* a new Session that is being prepared notices by the number of commits.
LEMMA CommitSwitchKeeps ==
  ASSUME SelectionInvariant, NEW j \in Jobs, CommitSwitch(j)
  PROVE  SelectionInvariant'
<1>1. job[j] \in SwitchJobs
  BY JobOfKind DEF CommitSwitch, SelectionInvariant
<1>2. images' \in [Chats -> Int] /\ job' = [job EXCEPT ![j] = NoJob] /\ UNCHANGED <<reloads, here>>
  BY <1>1, CoveringTypes DEF CommitSwitch, Ended, SelectionInvariant
<1>3. CASE RollBack
  BY <1>2, <1>3, JobChanges, KindsOfJobs DEF RollBack
<1>4. CASE Adopt(job[j].cand, here)
  <2> DEFINE cand == job[j].cand
  <2>1. cand \in ProviderObjects /\ cand.model \in Referable
    BY <1>1 DEF SwitchJobs, ProviderObjects
  <2>2. /\ job' \in [Jobs -> SwitchJobs \cup NewJobs \cup ResumeJobs \cup {NoJob}]
        /\ job'[j] = NoJob /\ \A k \in Jobs : k # j => job'[k] = job[k]
    BY <1>2, JobTypes DEF SelectionInvariant
  <2>3. /\ commits' = commits + 1 /\ provider' = cand /\ budget' = cand /\ model' = cand.model /\ preferred' = cand.model
        /\ chatModel' = IF here = NoChat THEN chatModel ELSE [chatModel EXCEPT ![here] = cand.model]
        /\ adrift' = (adrift /\ here = NoChat)
    BY <1>4 DEF Adopt
  <2> HIDE DEF cand
  <2>4. SelectionTypeOK'
    BY <1>2, <2>1, <2>2, <2>3 DEF SelectionInvariant, SelectionTypeOK
  <2>5. ModelIsTheSessions'
    BY <1>2, <2>3, SelectionAssumption DEF SelectionInvariant, SelectionTypeOK, ModelIsTheSessions
  <2>6. CapturedIsCurrent'
    <3> SUFFICES ASSUME job'["front"].kind = "new" PROVE CapturedIsCurrent'
      BY DEF CapturedIsCurrent
    <3>1. job'["front"] = job["front"]
      BY <2>2, KindsOfJobs DEF Jobs
    <3>2. job["front"].old.commits \in Nat /\ commits \in Nat
      BY <3>1, JobOfKind DEF NewJobs, Identities, Jobs, SelectionInvariant, SelectionTypeOK
    <3> QED BY <2>3, <3>1, <3>2 DEF SelectionInvariant, CapturedIsCurrent
  <2>7. RestoringIsOpen'
    <3>1. job'["front"] = job["front"] \/ ~Restoring(job'["front"])
      BY <2>2, KindsOfJobs DEF Jobs
    <3> QED BY <1>2, <3>1 DEF SelectionInvariant, RestoringIsOpen, Restoring
  <2> QED BY <2>4, <2>5, <2>6, <2>7 DEF SelectionInvariant
<1> QED BY <1>3, <1>4 DEF CommitSwitch, CommitChoice

LEMMA StartNewKeeps ==
  ASSUME SelectionInvariant, StartNew
  PROVE  SelectionInvariant'
<1> DEFINE cand == IF preferred # model THEN Built(preferred) ELSE provider
           r == [kind |-> "new", old |-> Captured, cand |-> cand]
<1>1. Captured \in Identities
  BY DEF Captured, Identities, SelectionInvariant, SelectionTypeOK
<1>2. /\ cand \in ProviderObjects
      /\ IF preferred # model THEN cand.model = preferred ELSE cand = provider
  BY DEF Built, ProviderObjects, SelectionInvariant, SelectionTypeOK
<1>3. job' = [job EXCEPT !["front"] = r] /\ UNCHANGED <<reloads, identity, chatModel, here, images, adrift>>
  BY DEF StartNew
<1> HIDE DEF cand
<1>4. r \in NewJobs /\ r.old = Captured /\ r.cand = cand
  BY <1>1, <1>2 DEF NewJobs
<1> HIDE DEF r
<1>5. job' \in [Jobs -> SwitchJobs \cup NewJobs \cup ResumeJobs \cup {NoJob}] /\ job'["front"] = r
  BY <1>3, <1>4, JobTypes DEF Jobs, SelectionInvariant
<1>6. SelectionTypeOK'
  BY <1>3, <1>5 DEF SelectionInvariant, SelectionTypeOK, identity
<1> QED BY <1>2, <1>3, <1>4, <1>5, <1>6, QuietKeeps, KindsOfJobs

LEMMA StartResumeKeeps ==
  ASSUME SelectionInvariant, NEW c \in Chats, StartResume(c)
  PROVE  SelectionInvariant'
<1>1. /\ [kind |-> "resume", at |-> "preflight", chat |-> c] \in ResumeJobs
      /\ ~Restoring([kind |-> "resume", at |-> "preflight", chat |-> c])
  BY DEF ResumeJobs, Restoring
<1> QED BY <1>1, JobChanges DEF StartResume, Jobs, SelectionInvariant, SelectionTypeOK

LEMMA FailResumeKeeps ==
  ASSUME SelectionInvariant, FailPreflight \/ FailRestore
  PROVE  SelectionInvariant'
<1>1. job' = [job EXCEPT !["front"] = NoJob] /\ UNCHANGED <<reloads, identity, chatModel, here, images, adrift>>
  BY DEF FailPreflight, FailRestore, Ended
<1> QED BY <1>1, JobChanges, KindsOfJobs DEF Jobs, SelectionInvariant, SelectionTypeOK

\* After a step that ends the job in the foreground no new Session is prepared.
LEMMA FrontEnds ==
  ASSUME SelectionTypeOK, Ended("front")
  PROVE  /\ job' \in [Jobs -> SwitchJobs \cup NewJobs \cup ResumeJobs \cup {NoJob}]
         /\ CapturedIsCurrent' /\ RestoringIsOpen'
<1>1. /\ job' \in [Jobs -> SwitchJobs \cup NewJobs \cup ResumeJobs \cup {NoJob}]
      /\ job'["front"] = NoJob
  BY JobTypes DEF Ended, Jobs
<1>2. NoJob.kind = "none"
  BY KindsOfJobs
<1> QED BY <1>1, <1>2 DEF CapturedIsCurrent, RestoringIsOpen, Restoring

\* A new Session records the default of this moment; unless a switch came in
\* between, that is the model of the candidate.
LEMMA CreateSessionKeeps ==
  ASSUME SelectionInvariant, NEW c \in Chats, CreateSession(c)
  PROVE  SelectionInvariant'
<1> DEFINE old == job["front"].old
           cand == job["front"].cand
<1>1. job["front"] \in NewJobs /\ Ended("front")
  BY JobOfKind DEF CreateSession, Jobs, SelectionInvariant
<1>2. cand \in ProviderObjects /\ cand.model \in Referable /\ old.commits \in Nat
  BY <1>1 DEF NewJobs, Identities, ProviderObjects
<1>3. /\ IF old.preferred # old.model THEN cand.model = old.preferred ELSE cand = old.provider
      /\ old.commits = commits => old = Captured
  BY DEF CreateSession, SelectionInvariant, CapturedIsCurrent
<1>4. /\ chatModel' = [chatModel EXCEPT ![c] = preferred] /\ here' = c /\ budget' = cand
      /\ IF old.preferred # old.model
         THEN commits' = commits + 1 /\ provider' = cand /\ model' = cand.model
         ELSE UNCHANGED <<provider, model, commits>>
      /\ adrift' = (commits # old.commits)
      /\ UNCHANGED <<reloads, preferred, images>>
  BY DEF CreateSession
<1>5. SelectionTypeOK'
  BY <1>1, <1>2, <1>4, FrontEnds DEF SelectionInvariant, SelectionTypeOK
<1>6. ModelIsTheSessions'
  <2>1. provider'.model = model'
    BY <1>4 DEF SelectionInvariant, ModelIsTheSessions
  <2>2. ASSUME commits = old.commits
        PROVE  budget' = provider' /\ chatModel'[here'] = model'
    <3>1. old.preferred = preferred /\ old.model = model /\ old.provider = provider
      BY <1>3, <2>2 DEF Captured
    <3>2. chatModel'[here'] = preferred
      BY <1>4 DEF SelectionInvariant, SelectionTypeOK
    <3> QED BY <1>3, <1>4, <3>1, <3>2
  <2> QED BY <1>4, <2>1, <2>2 DEF ModelIsTheSessions
<1> QED BY <1>1, <1>5, <1>6, FrontEnds DEF SelectionInvariant

LEMMA FailNewKeeps ==
  ASSUME SelectionInvariant, FailNew
  PROVE  SelectionInvariant'
<1> DEFINE old == job["front"].old
<1>1. job["front"] \in NewJobs /\ Ended("front")
  BY JobOfKind DEF FailNew, Jobs, SelectionInvariant
<1>2. old \in Identities
  BY <1>1 DEF NewJobs
<1>3. /\ old.provider.model = old.model
      /\ old.commits = commits => old = Captured
  BY DEF FailNew, SelectionInvariant, CapturedIsCurrent
<1>4. /\ provider' = old.provider /\ model' = old.model /\ preferred' = old.preferred
      /\ commits' = old.commits /\ budget' = old.budget
      /\ adrift' = (adrift \/ commits # old.commits)
      /\ UNCHANGED <<reloads, chatModel, here, images>>
  BY DEF FailNew
<1>5. SelectionTypeOK'
  <2>1. old.provider \in ProviderObjects /\ old.model \in Referable /\ old.preferred \in Referable
        /\ old.commits \in Nat /\ old.budget \in ProviderObjects
    BY <1>2 DEF Identities
  <2> QED BY <1>1, <1>4, <2>1, FrontEnds DEF SelectionInvariant, SelectionTypeOK
<1>6. ModelIsTheSessions'
  <2>1. ASSUME commits = old.commits
        PROVE  provider' = provider /\ model' = model /\ budget' = budget
    BY <1>3, <1>4, <2>1 DEF Captured
  <2> QED BY <1>3, <1>4, <2>1 DEF SelectionInvariant, ModelIsTheSessions
<1> QED BY <1>1, <1>5, <1>6, FrontEnds DEF SelectionInvariant

LEMMA OpenSessionKeeps ==
  ASSUME SelectionInvariant, OpenSession
  PROVE  SelectionInvariant'
<1> DEFINE c == job["front"].chat
<1>1. job["front"] \in ResumeJobs /\ c \in Chats
  BY JobOfKind DEF OpenSession, Jobs, SelectionInvariant, ResumeJobs
<1>2. /\ here' = c /\ adrift' = (model # chatModel[c])
      /\ UNCHANGED <<reloads, provider, model, preferred, commits, chatModel, images>>
  BY DEF OpenSession
<1>3. CASE model = chatModel[c]
  <2>1. Ended("front") /\ budget' = provider
    BY <1>3 DEF OpenSession, RefreshContext
  <2>2. SelectionTypeOK'
    BY <1>1, <1>2, <2>1, FrontEnds DEF SelectionInvariant, SelectionTypeOK
  <2>3. ModelIsTheSessions'
    BY <1>2, <1>3, <2>1 DEF SelectionInvariant, ModelIsTheSessions
  <2> QED BY <2>1, <2>2, <2>3, FrontEnds DEF SelectionInvariant
<1>4. CASE model # chatModel[c]
  <2>1. job' = [job EXCEPT !["front"] = [job["front"] EXCEPT !.at = "restore"]] /\ UNCHANGED budget
    BY <1>4 DEF OpenSession
  <2>2. [job["front"] EXCEPT !.at = "restore"] \in ResumeJobs
    BY <1>1 DEF ResumeJobs
  <2>3. /\ job' \in [Jobs -> SwitchJobs \cup NewJobs \cup ResumeJobs \cup {NoJob}]
        /\ job'["front"].kind = "resume"
    BY <2>1, <2>2, JobTypes, KindsOfJobs DEF Jobs, SelectionInvariant
  <2>4. SelectionTypeOK'
    BY <1>1, <1>2, <2>1, <2>3 DEF SelectionInvariant, SelectionTypeOK
  <2>5. ModelIsTheSessions'
    BY <1>2, <1>4 DEF SelectionInvariant, ModelIsTheSessions
  <2> QED BY <1>1, <1>2, <2>3, <2>4, <2>5 DEF SelectionInvariant, CapturedIsCurrent, RestoringIsOpen
<1> QED BY <1>3, <1>4

LEMMA RestoreModelKeeps ==
  ASSUME SelectionInvariant, RestoreModel
  PROVE  SelectionInvariant'
<1> DEFINE m == chatModel[here]
<1>1. here \in Chats /\ m \in Referable
  BY DEF RestoreModel, SelectionInvariant, SelectionTypeOK, RestoringIsOpen, Restoring
<1>2. /\ commits' = commits + 1 /\ provider' = Built(m) /\ budget' = Built(m) /\ model' = m
      /\ Ended("front")
      /\ UNCHANGED <<reloads, preferred, chatModel, here, images>>
  BY DEF RestoreModel
<1>3. Built(m) \in ProviderObjects /\ Built(m).model = m
  BY <1>1 DEF Built, ProviderObjects, SelectionInvariant, SelectionTypeOK
<1>4. SelectionTypeOK'
  BY <1>1, <1>2, <1>3, FrontEnds DEF SelectionInvariant, SelectionTypeOK
<1>5. ModelIsTheSessions'
  BY <1>2, <1>3 DEF ModelIsTheSessions
<1> QED BY <1>2, <1>4, <1>5, FrontEnds DEF SelectionInvariant

LEMMA ReloadKeeps ==
  ASSUME SelectionInvariant, NEW default \in Models, ReloadConfiguration(default)
  PROVE  SelectionInvariant'
<1> DEFINE m == IF here # NoChat THEN model ELSE default
<1>1. m \in Referable
  BY DEF SelectionInvariant, SelectionTypeOK, Referable
<1>2. /\ reloads' = reloads + 1 /\ preferred' = default /\ model' = m
      /\ provider' = [model |-> m, config |-> reloads + 1] /\ budget' = provider'
      /\ UNCHANGED <<commits, chatModel, here, images, job, adrift>>
      /\ FrontIdle
  BY DEF ReloadConfiguration
<1>3. provider' \in ProviderObjects /\ provider'.model = m
  BY <1>1, <1>2 DEF ProviderObjects, SelectionInvariant, SelectionTypeOK
<1>4. SelectionTypeOK'
  BY <1>1, <1>2, <1>3 DEF SelectionInvariant, SelectionTypeOK, Referable
<1>5. ModelIsTheSessions'
  BY <1>2, <1>3 DEF SelectionInvariant, ModelIsTheSessions
<1>6. CapturedIsCurrent' /\ RestoringIsOpen'
  BY <1>2, KindsOfJobs DEF CapturedIsCurrent, RestoringIsOpen, FrontIdle
<1> QED BY <1>4, <1>5, <1>6 DEF SelectionInvariant

LEMMA TurnKeeps ==
  ASSUME SelectionInvariant, EndTurn \/ (\E image \in BOOLEAN : StartTurn(image)) \/ UNCHANGED selectionVars
  PROVE  SelectionInvariant'
<1>1. UNCHANGED <<reloads, identity, chatModel, here, job, adrift>> /\ images' \in [Chats -> Int]
  <2>1. CASE \E image \in BOOLEAN : StartTurn(image)
    BY <2>1 DEF StartTurn, SelectionInvariant, SelectionTypeOK
  <2>2. CASE EndTurn \/ UNCHANGED selectionVars
    BY <2>2 DEF EndTurn, selectionVars, identity, SelectionInvariant, SelectionTypeOK
  <2> QED BY <2>1, <2>2
<1>2. SelectionTypeOK'
  BY <1>1 DEF SelectionInvariant, SelectionTypeOK, identity
<1> QED BY <1>1, <1>2, QuietKeeps

LEMMA SelectionKeeps == SelectionInvariant /\ [SelectionNext]_selectionVars => SelectionInvariant'
BY StartNewKeeps, FailNewKeeps, OpenSessionKeeps, FailResumeKeeps, RestoreModelKeeps, CreateSessionKeeps,
   StartResumeKeeps, CommitSwitchKeeps, LimitsForSummaryKeeps, AbandonSwitchKeeps, StartSwitchKeeps, ReloadKeeps, TurnKeeps
DEF SelectionNext

\* Model, Provider, limits and Session belong together, for every number of
\* models and Sessions and whatever switches, new and resumed Sessions, reloads
\* and failures come between each other's awaits (application/generation.py 3345).
THEOREM ModelFollowsTheSession == SelectionSpec => []ModelIsTheSessions
<1>1. SelectionInvariant => ModelIsTheSessions
  BY DEF SelectionInvariant
<1> QED BY <1>1, SelectionInitial, SelectionKeeps, PTL DEF SelectionSpec

----------------------------------------------------------------------------
(* The user's configuration, and what projects lay over it.                   *)
ConfigurationInvariant == MeasuresAreSound(file) /\ ProjectsOnlyTighten

\* A model of a configuration beside the user's own.
ModelNarrowed(used, own) ==
  /\ IF own.window = Absent THEN used.window = Absent ELSE used.window <= own.window
  /\ used.images = TRUE => own.images = TRUE

\* After some of a project's files a configuration has the user's Providers,
\* and nothing that the user speaks about is wider than the user allowed.
Narrowed(config) ==
  /\ {"default", "providers", "models", "timeout", "bytes", "search"} \subseteq DOMAIN config
  /\ config.providers = User.providers
  /\ DOMAIN User.models \subseteq DOMAIN config.models
  /\ \A m \in DOMAIN config.models : ModelNarrowed(config.models[m], UserModel(m))
  /\ config.search.on = TRUE => User.search.on = TRUE
  /\ User.search # NoSearch => config.search.limit # Absent /\ config.search.limit <= User.search.limit
  /\ config.bytes # Absent /\ config.bytes <= User.bytes
  /\ User.timeout # Absent => config.timeout # Absent /\ config.timeout <= User.timeout

----------------------------------------------------------------------------
\* A model follows its Provider, and keeps its window.
LEMMA FollowedModels ==
  ASSUME NEW renames, NEW models, NEW m \in DOMAIN models,
         {"provider", "window"} \subseteq DOMAIN models[m]
  PROVE  /\ {"provider", "window"} \subseteq DOMAIN Follow(renames, models)[m]
         /\ Follow(renames, models)[m].provider = NewName(renames, models[m].provider)
         /\ Follow(renames, models)[m].window = models[m].window
BY DEF Follow

LEMMA FollowedNames == ASSUME NEW renames, NEW models PROVE DOMAIN Follow(renames, models) = DOMAIN models
BY DEF Follow

\* Every Provider is found under its new name, with the profile it had.
LEMMA ProfilesMove ==
  ASSUME NEW renames, NEW providers, RenamesAreValid(renames, providers), NEW old \in DOMAIN providers
  PROVE  /\ NewName(renames, old) \in DOMAIN Rename(renames, providers)
         /\ Rename(renames, providers)[NewName(renames, old)] = providers[old]
<1>1. CASE old \in DOMAIN renames
  <2>1. (CHOOSE p \in DOMAIN renames : renames[p] = renames[old]) = old
    BY <1>1 DEF RenamesAreValid
  <2>2. /\ renames[old] \in DOMAIN MovedProfiles(renames, providers)
        /\ MovedProfiles(renames, providers)[renames[old]] = providers[old]
    BY <1>1, <2>1 DEF MovedProfiles
  <2>3. QED
    BY <1>1, <2>2 DEF Rename, NewName
<1>2. CASE old \notin DOMAIN renames
  <2>1. old \notin DOMAIN MovedProfiles(renames, providers)
    BY <1>2 DEF MovedProfiles, RenamesAreValid
  <2>2. old \in DOMAIN Without(providers, DOMAIN renames) /\ Without(providers, DOMAIN renames)[old] = providers[old]
    BY <1>2 DEF Without
  <2>3. QED
    BY <1>2, <2>1, <2>2 DEF Rename, NewName
<1>3. QED
  BY <1>1, <1>2

\* What is sent replaces what was there, unless it is not given or Delete.
LEMMA ProfilesApply ==
  ASSUME NEW requested, NEW providers, NEW p \in DOMAIN providers
  PROVE  /\ p \notin DOMAIN requested => ApplyProviders(requested, providers)[p] = providers[p]
         /\ p \in DOMAIN requested /\ requested[p] # Delete =>
              ApplyProviders(requested, providers)[p].key = Given(requested[p].key, providers[p].key)
BY DEF ApplyProviders

LEMMA ModelsApply ==
  ASSUME NEW requested, NEW models, NEW m \in DOMAIN ApplyModels(requested, models)
  PROVE  /\ m \in DOMAIN requested =>
              /\ requested[m] # Delete
              /\ {"provider", "window"} \subseteq DOMAIN ApplyModels(requested, models)[m]
              /\ ApplyModels(requested, models)[m].window = requested[m].window
         /\ m \notin DOMAIN requested =>
              m \in DOMAIN models /\ ApplyModels(requested, models)[m] = models[m]
BY DEF ApplyModels

LEMMA ModelsStay ==
  ASSUME NEW requested, NEW models, NEW m \in DOMAIN models, m \notin DOMAIN requested
  PROVE  ApplyModels(requested, models)[m] = models[m]
BY DEF ApplyModels

----------------------------------------------------------------------------
\* A save does what it should, for every change the settings may send.
LEMMA SaveKeepsKeys ==
  ASSUME MeasuresAreSound(file), NEW p \in Payloads, IsAccepted(p), file' = Merged(p)
  PROVE  /\ \A old \in DOMAIN file.providers :
              LET new == NewName(p.renames, old) IN
              /\ new \notin DOMAIN p.providers => file'.providers[new] = file.providers[old]
              /\ new \in DOMAIN p.providers =>
                   \/ p.providers[new] = Delete
                   \/ file'.providers[new].key = Given(p.providers[new].key, file.providers[old].key)
         /\ \A m \in DOMAIN file.models \ DOMAIN p.models :
              file'.models[m].provider = NewName(p.renames, file.models[m].provider)
<1>1. /\ file'.providers = ApplyProviders(p.providers, Rename(p.renames, file.providers))
      /\ file'.models = ApplyModels(p.models, Follow(p.renames, file.models))
  BY DEF Merged
<1>2. RenamesAreValid(p.renames, file.providers)
  BY DEF IsAccepted
<1>3. ASSUME NEW old \in DOMAIN file.providers
      PROVE  LET new == NewName(p.renames, old) IN
             /\ new \notin DOMAIN p.providers => file'.providers[new] = file.providers[old]
             /\ new \in DOMAIN p.providers =>
                  \/ p.providers[new] = Delete
                  \/ file'.providers[new].key = Given(p.providers[new].key, file.providers[old].key)
  <2> DEFINE new == NewName(p.renames, old)
             moved == Rename(p.renames, file.providers)
  <2>1. new \in DOMAIN moved /\ moved[new] = file.providers[old]
    BY <1>2, ProfilesMove
  <2> HIDE DEF new, moved
  <2>2. /\ new \notin DOMAIN p.providers => ApplyProviders(p.providers, moved)[new] = moved[new]
        /\ new \in DOMAIN p.providers /\ p.providers[new] # Delete =>
             ApplyProviders(p.providers, moved)[new].key = Given(p.providers[new].key, moved[new].key)
    BY <2>1, ProfilesApply
  <2>3. file'.providers = ApplyProviders(p.providers, moved)
    BY <1>1 DEF moved
  <2>4. QED
    BY <2>1, <2>2, <2>3 DEF new
<1>4. ASSUME NEW m \in DOMAIN file.models \ DOMAIN p.models
      PROVE  file'.models[m].provider = NewName(p.renames, file.models[m].provider)
  <2>1. {"provider", "window"} \subseteq DOMAIN file.models[m]
    BY DEF MeasuresAreSound
  <2>2. m \in DOMAIN Follow(p.renames, file.models)
    BY FollowedNames
  <2>3. file'.models[m] = Follow(p.renames, file.models)[m]
    BY <1>1, <1>4, <2>2, ModelsStay
  <2>4. QED
    BY <1>4, <2>1, <2>3, FollowedModels
<1>5. QED
  BY <1>3, <1>4

LEMMA SaveIsSound ==
  ASSUME MeasuresAreSound(file), NEW p \in Payloads, IsAccepted(p), file' = Merged(p)
  PROVE  MeasuresAreSound(file')
<1>1. /\ {"default", "providers", "models", "timeout", "bytes", "search"} \subseteq DOMAIN file'
      /\ file'.models = ApplyModels(p.models, Follow(p.renames, file.models))
      /\ file'.timeout = SetOrDelete(p.timeout, file.timeout)
      /\ file'.bytes = SetOrDelete(p.bytes, file.bytes)
      /\ file'.search.limit = SetOrDelete(p.search.limit, file.search.limit)
  BY DEF Merged
<1>2. {file'.timeout, file'.bytes, file'.search.limit} \subseteq Measures
  <2>1. \A new \in Measures \cup {Delete}, old \in Measures : SetOrDelete(new, old) \in Measures
    BY DEF SetOrDelete, Given, Measures
  <2>2. {p.timeout, p.bytes, p.search.limit} \subseteq Measures \cup {Delete}
    BY ConfigurationAssumption
  <2>3. {file.timeout, file.bytes, file.search.limit} \subseteq Measures
    BY DEF MeasuresAreSound
  <2>4. QED
    BY <1>1, <2>1, <2>2, <2>3
<1>3. ASSUME NEW m \in DOMAIN file'.models
      PROVE  {"provider", "window"} \subseteq DOMAIN file'.models[m] /\ file'.models[m].window \in Measures
  <2> DEFINE followed == Follow(p.renames, file.models)
  <2>0. m \in DOMAIN ApplyModels(p.models, followed)
    BY <1>1, <1>3
  <2>1. CASE m \in DOMAIN p.models
    <3>1. p.models[m] # Delete => p.models[m].window \in Measures
      BY <2>1, ConfigurationAssumption
    <3> HIDE DEF followed
    <3>2. /\ p.models[m] # Delete
          /\ {"provider", "window"} \subseteq DOMAIN ApplyModels(p.models, followed)[m]
          /\ ApplyModels(p.models, followed)[m].window = p.models[m].window
      BY <2>0, <2>1, ModelsApply
    <3>3. QED
      BY <1>1, <3>1, <3>2 DEF followed
  <2>2. CASE m \notin DOMAIN p.models
    <3>1. m \in DOMAIN followed /\ file'.models[m] = followed[m]
      <4> HIDE DEF followed
      <4>1. m \in DOMAIN followed /\ ApplyModels(p.models, followed)[m] = followed[m]
        BY <2>0, <2>2, ModelsApply
      <4>2. QED
        BY <1>1, <4>1 DEF followed
    <3>2. m \in DOMAIN file.models
      BY <3>1, FollowedNames
    <3>3. {"provider", "window"} \subseteq DOMAIN file.models[m] /\ file.models[m].window \in Measures
      BY <3>2 DEF MeasuresAreSound
    <3>4. QED
      BY <3>1, <3>2, <3>3, FollowedModels
  <2>3. QED
    BY <2>1, <2>2
<1>4. QED
  BY <1>1, <1>2, <1>3 DEF MeasuresAreSound

----------------------------------------------------------------------------
\* What `Layers` says of place k, in terms of the function laid.
LayerAt(laid, chain, k) == IF k = 0 THEN User ELSE Lay(laid[k - 1], chain[k])

\* There is a function that lays the files as `Layers` does, up to every place.
LEMMA LayersExist ==
  ASSUME NEW chain, Len(chain) \in Nat
  PROVE  \A n \in Nat : n <= Len(chain) =>
           \E laid : laid = [k \in 0 .. n |-> LayerAt(laid, chain, k)]
<1> DEFINE Good == {n \in Nat : n <= Len(chain) =>
                      \E laid : laid = [k \in 0 .. n |-> LayerAt(laid, chain, k)]}
<1>1. 0 \in Good
  <2> DEFINE laid == [k \in 0 .. 0 |-> User]
  <2>1. laid = [k \in 0 .. 0 |-> LayerAt(laid, chain, k)]
    BY DEF LayerAt
  <2>2. QED
    BY <2>1
<1>2. ASSUME NEW n \in Nat, n \in Good PROVE n + 1 \in Good
  <2> SUFFICES ASSUME n + 1 <= Len(chain)
               PROVE  \E laid : laid = [k \in 0 .. (n + 1) |-> LayerAt(laid, chain, k)]
    OBVIOUS
  <2>1. PICK below : below = [k \in 0 .. n |-> LayerAt(below, chain, k)]
    BY <1>2
  <2> DEFINE laid == [k \in 0 .. (n + 1) |-> IF k = n + 1 THEN LayerAt(below, chain, k) ELSE below[k]]
  <2>2. \A k \in 0 .. (n + 1) : LayerAt(laid, chain, k) = LayerAt(below, chain, k)
    <3>1. \A k \in 0 .. n : laid[k] = below[k]
      OBVIOUS
    <3>2. QED
      BY <3>1 DEF LayerAt
  <2>3. \A k \in 0 .. n : below[k] = LayerAt(below, chain, k)
    BY <2>1
  <2>4. \A k \in 0 .. (n + 1) : laid[k] = LayerAt(laid, chain, k)
    BY <2>2, <2>3
  <2>5. laid = [k \in 0 .. (n + 1) |-> LayerAt(laid, chain, k)]
    BY <2>4
  <2>6. QED
    BY <2>5
<1>3. QED
  <2> HIDE DEF Good
  <2>1. Nat \subseteq Good
    BY <1>1, <1>2, SetInduction
  <2>2. QED
    BY <2>1 DEF Good

\* `Layers` satisfies the recursion by which it is defined.
LEMMA LayersUnfold ==
  ASSUME NEW chain, Len(chain) \in Nat, NEW k \in 0 .. Len(chain)
  PROVE  Layers(chain)[k] = IF k = 0 THEN User ELSE Lay(Layers(chain)[k - 1], chain[k])
<1> DEFINE laid == Layers(chain)
<1>1. \E g : g = [i \in 0 .. Len(chain) |-> LayerAt(g, chain, i)]
  BY LayersExist
<1>2. laid = [i \in 0 .. Len(chain) |-> LayerAt(laid, chain, i)]
  BY <1>1 DEF Layers, LayerAt
<1> HIDE DEF laid
<1>3. laid[k] = LayerAt(laid, chain, k)
  BY <1>2
<1>4. QED
  BY <1>3 DEF laid, LayerAt

\* A limit of the project that is accepted does not pass the user's.
LEMMA LimitStaysTight ==
  ASSUME NEW limit, NEW below, NEW own, LimitIsTighter(limit, own), own # Absent,
         below # Absent /\ below <= own
  PROVE  Given(limit, below) # Absent /\ Given(limit, below) <= own
BY DEF LimitIsTighter, Given

\* What the user's limits are when they are read.
LEMMA UserLimits ==
  ASSUME MeasuresAreSound(file)
  PROVE  User.bytes \in Nat /\ User.timeout \in Measures /\ (User.search # NoSearch => User.search.limit \in Nat)
<1>1. {file.timeout, file.bytes, file.search.limit} \subseteq Measures /\ DefaultLimit \in Nat
  BY ConfigurationAssumption DEF MeasuresAreSound
<1>2. /\ User.timeout = file.timeout /\ User.bytes = Given(file.bytes, DefaultLimit)
      /\ User.search = IF file.search = NoSearch THEN NoSearch ELSE Completed(file.search)
  BY DEF User, AsRead
<1>3. Completed(file.search).limit = Given(file.search.limit, DefaultLimit)
  BY DEF Completed
<1>4. QED
  BY <1>1, <1>2, <1>3 DEF Given, Measures

\* A project's file that is accepted leaves a configuration as narrow as it was.
LEMMA LayIsNarrow ==
  ASSUME MeasuresAreSound(file), NEW config, Narrowed(config),
         NEW project \in ProjectFiles, ProjectIsAccepted(project)
  PROVE  Narrowed(Lay(config, project))
<1> DEFINE next == Lay(config, project)
           above == Profiles(project.models)
<1>1. /\ {"default", "providers", "models", "timeout", "bytes", "search"} \subseteq DOMAIN next
      /\ next.providers = User.providers
      /\ DOMAIN next.models = DOMAIN config.models \cup DOMAIN above
  BY DEF Lay, Narrowed
<1>2. /\ next.timeout = Given(project.timeout, config.timeout)
      /\ next.bytes = Given(project.bytes, config.bytes)
      /\ next.search.on = Given(project.search.on, config.search.on)
      /\ next.search.limit = Given(project.search.limit, config.search.limit)
  BY DEF Lay
<1>3. next.bytes # Absent /\ next.bytes <= User.bytes
  <2>1. User.bytes # Absent
    BY UserLimits, ConfigurationAssumption
  <2>2. LimitIsTighter(project.bytes, User.bytes) /\ config.bytes # Absent /\ config.bytes <= User.bytes
    BY DEF ProjectIsAccepted, Narrowed
  <2>3. QED
    BY <1>2, <2>1, <2>2, LimitStaysTight
<1>4. User.timeout # Absent => next.timeout # Absent /\ next.timeout <= User.timeout
  <2>1. /\ LimitIsTighter(project.timeout, User.timeout)
        /\ User.timeout # Absent => config.timeout # Absent /\ config.timeout <= User.timeout
    BY DEF ProjectIsAccepted, Narrowed
  <2>2. QED
    BY <1>2, <2>1, LimitStaysTight
<1>5. User.search # NoSearch => next.search.limit # Absent /\ next.search.limit <= User.search.limit
  <2>1. User.search # NoSearch => User.search.limit # Absent
    BY UserLimits, ConfigurationAssumption
  <2>2. /\ LimitIsTighter(project.search.limit, User.search.limit)
        /\ User.search # NoSearch => config.search.limit # Absent /\ config.search.limit <= User.search.limit
    BY DEF ProjectIsAccepted, SearchIsTighter, Narrowed
  <2>3. QED
    BY <1>2, <2>1, <2>2, LimitStaysTight
<1>6. next.search.on = TRUE => User.search.on = TRUE
  <2>1. /\ project.search.on = TRUE => User.search.on = TRUE
        /\ config.search.on = TRUE => User.search.on = TRUE
    BY DEF ProjectIsAccepted, SearchIsTighter, Narrowed
  <2>2. QED
    BY <1>2, <2>1 DEF Given
<1>7. ASSUME NEW m \in DOMAIN next.models PROVE ModelNarrowed(next.models[m], UserModel(m))
  <2> DEFINE own == UserModel(m)
             below == IF m \in DOMAIN config.models THEN config.models[m] ELSE NoModel
  <2>1. ModelNarrowed(below, own)
    <3>1. CASE m \in DOMAIN config.models
      BY <3>1 DEF Narrowed
    <3>2. CASE m \notin DOMAIN config.models
      <4>1. m \notin DOMAIN User.models
        BY <3>2 DEF Narrowed
      <4>2. own = NoModel /\ below = NoModel /\ own.window = Absent
        BY <3>2, <4>1 DEF UserModel, NoModel
      <4>3. QED
        BY <4>2 DEF ModelNarrowed
    <3>3. QED
      BY <3>1, <3>2
  <2>2. next.models[m] = IF m \in DOMAIN above THEN LayModel(below, above[m]) ELSE below
    BY <1>1, <1>7 DEF Lay
  <2>3. m \in DOMAIN above => above[m] = project.models[m]
    BY DEF Profiles, Without
  <2>4. m \in DOMAIN above =>
          /\ project.models[m].window # Absent => own.window # Absent /\ project.models[m].window <= own.window
          /\ project.models[m].images = TRUE => own.images = TRUE
    BY DEF ProjectIsAccepted, WindowIsTighter, ImagesAreNarrower
  <2> HIDE DEF own, below, next, above
  <2>5. CASE m \in DOMAIN above
    <3>1. /\ next.models[m].window = Given(project.models[m].window, below.window)
          /\ next.models[m].images = Given(project.models[m].images, below.images)
      BY <2>2, <2>3, <2>5 DEF LayModel
    <3>2. ModelNarrowed(next.models[m], own)
      BY <2>1, <2>4, <2>5, <3>1 DEF Given, ModelNarrowed
    <3>3. QED
      BY <3>2 DEF own
  <2>6. CASE m \notin DOMAIN above
    BY <2>1, <2>2, <2>6 DEF own
  <2>7. QED
    BY <2>5, <2>6
<1>8. DOMAIN User.models \subseteq DOMAIN next.models
  BY <1>1 DEF Narrowed
<1>9. QED
  <2> HIDE DEF next, above
  <2>1. Narrowed(next)
    BY <1>1, <1>3, <1>4, <1>5, <1>6, <1>7, <1>8 DEF Narrowed
  <2>2. QED
    BY <2>1 DEF next

LEMMA UserIsNarrow == ASSUME MeasuresAreSound(file) PROVE Narrowed(User)
<1>1. {"default", "providers", "models", "timeout", "bytes", "search"} \subseteq DOMAIN User
  BY DEF User, AsRead
<1>2. /\ User.bytes # Absent /\ User.bytes <= User.bytes
      /\ User.timeout # Absent => User.timeout <= User.timeout
      /\ User.search # NoSearch => User.search.limit # Absent /\ User.search.limit <= User.search.limit
  BY UserLimits, ConfigurationAssumption DEF Measures
<1>3. ASSUME NEW m \in DOMAIN User.models PROVE ModelNarrowed(User.models[m], UserModel(m))
  <2>1. UserModel(m) = User.models[m]
    BY DEF UserModel
  <2>2. m \in DOMAIN file.models /\ User.models[m] = file.models[m]
    BY <1>3 DEF User, AsRead, Profiles, Without
  <2>3. User.models[m].window \in Measures
    BY <2>2 DEF MeasuresAreSound
  <2>4. QED
    BY <2>1, <2>3 DEF Measures, ModelNarrowed
<1>4. QED
  BY <1>1, <1>2, <1>3 DEF Narrowed

\* So however many files are laid, by induction over how many.
LEMMA LayersAreNarrow ==
  ASSUME MeasuresAreSound(file), NEW chain \in Chains, \A k \in DOMAIN chain : ProjectIsAccepted(chain[k])
  PROVE  Narrowed(Layers(chain)[Len(chain)])
<1> DEFINE Good == {n \in Nat : n <= Len(chain) => Narrowed(Layers(chain)[n])}
<1>1. Len(chain) \in Nat /\ DOMAIN chain = 1 .. Len(chain)
  BY ConfigurationAssumption
<1>2. \A k \in DOMAIN chain : chain[k] \in ProjectFiles
  BY DEF ProjectFiles
<1>3. 0 \in Good
  <2>1. Layers(chain)[0] = User
    BY <1>1, LayersUnfold
  <2>2. QED
    BY <2>1, UserIsNarrow
<1>4. ASSUME NEW n \in Nat, n \in Good PROVE n + 1 \in Good
  <2> SUFFICES ASSUME n + 1 <= Len(chain) PROVE Narrowed(Layers(chain)[n + 1])
    OBVIOUS
  <2>1. n + 1 \in 0 .. Len(chain) /\ n + 1 # 0 /\ (n + 1) - 1 = n /\ n + 1 \in DOMAIN chain
    BY <1>1
  <2>2. Layers(chain)[n + 1] = Lay(Layers(chain)[n], chain[n + 1])
    BY <1>1, <2>1, LayersUnfold
  <2>3. Narrowed(Layers(chain)[n])
    BY <1>1, <1>4
  <2>4. chain[n + 1] \in ProjectFiles /\ ProjectIsAccepted(chain[n + 1])
    BY <1>2, <2>1
  <2>5. QED
    BY <2>2, <2>3, <2>4, LayIsNarrow
<1>5. Nat \subseteq Good
  <2> HIDE DEF Good
  <2>1. QED
    BY <1>3, <1>4, SetInduction
<1>6. QED
  BY <1>1, <1>5

LEMMA LoadTightens ==
  ASSUME MeasuresAreSound(file), NEW chain \in Chains, NEW choice \in Selections, Load(chain, choice)
  PROVE  MeasuresAreSound(file') /\ ProjectsOnlyTighten'
<1> DEFINE top == Layers(chain)[Len(chain)]
<1>1. Narrowed(top)
  BY LayersAreNarrow DEF Load
<1> HIDE DEF top
<1>2. /\ effective' = [top EXCEPT !.default = Given(choice, @), !.search = Completed(@)]
      /\ basis' = file /\ file' = file /\ IsValid(effective')
  BY DEF Load, Loaded, top
<1>3. /\ effective'.providers = top.providers /\ effective'.models = top.models
      /\ effective'.timeout = top.timeout /\ effective'.bytes = top.bytes
      /\ effective'.search = Completed(top.search)
  BY <1>1, <1>2 DEF Narrowed
<1>4. AsRead(basis') = User
  BY <1>2 DEF User
<1>5. ASSUME NEW m \in DOMAIN effective'.models
      PROVE  LET own == IF m \in DOMAIN User.models THEN User.models[m] ELSE NoModel
                 used == effective'.models[m]
             IN /\ used.provider \in DOMAIN User.providers
                /\ IF own.window = Absent THEN used.window = Absent ELSE used.window <= own.window
                /\ used.images = TRUE => own.images = TRUE
  <2>1. effective'.models[m].provider \in DOMAIN User.providers
    BY <1>1, <1>2, <1>3, <1>5 DEF IsValid, ModelIsValid, Narrowed
  <2>2. ModelNarrowed(effective'.models[m], UserModel(m))
    BY <1>1, <1>3, <1>5 DEF Narrowed
  <2>3. QED
    BY <2>1, <2>2 DEF ModelNarrowed, UserModel
<1>6. /\ effective'.search.on = Given(top.search.on, FALSE)
      /\ effective'.search.limit = Given(top.search.limit, DefaultLimit)
  BY <1>3 DEF Completed
<1>7. effective'.search.on = TRUE => User.search.on = TRUE
  BY <1>1, <1>6 DEF Given, Narrowed
<1>8. effective'.search.limit <= (IF User.search = NoSearch THEN HardLimit ELSE User.search.limit)
  <2>1. CASE User.search = NoSearch
    <3>1. effective'.search.limit # Absent
      BY <1>6, ConfigurationAssumption DEF Given
    <3>2. effective'.search.limit <= HardLimit
      BY <1>2, <3>1 DEF IsValid, LimitsAreValid
    <3>3. QED
      BY <2>1, <3>2
  <2>2. CASE User.search # NoSearch
    BY <1>1, <1>6, <2>2 DEF Given, Narrowed
  <2>3. QED
    BY <2>1, <2>2
<1>9. /\ effective'.bytes <= User.bytes
      /\ User.timeout # Absent => effective'.timeout # Absent /\ effective'.timeout <= User.timeout
  BY <1>1, <1>3 DEF Narrowed
<1>10. effective'.providers = User.providers
  BY <1>1, <1>3 DEF Narrowed
<1>11. MeasuresAreSound(file')
  BY <1>2
<1>12. ProjectsOnlyTighten'
  BY <1>4, <1>5, <1>7, <1>8, <1>9, <1>10 DEF ProjectsOnlyTighten
<1>13. QED
  BY <1>11, <1>12

LEMMA ConfigurationInitial == ConfigurationInit => ConfigurationInvariant
BY ConfigurationAssumption
DEF ConfigurationInit, ConfigurationInvariant, MeasuresAreSound, ProjectsOnlyTighten

LEMMA ConfigurationInductive ==
  ConfigurationInvariant /\ [ConfigurationNext]_configurationVars => ConfigurationInvariant'
<1> SUFFICES ASSUME ConfigurationInvariant, [ConfigurationNext]_configurationVars
             PROVE  ConfigurationInvariant'
  OBVIOUS
<1>1. ASSUME NEW p \in Payloads, Save(p) PROVE ConfigurationInvariant'
  <2>1. MeasuresAreSound(file')
    BY <1>1, SaveIsSound DEF Save, ConfigurationInvariant
  <2>2. effective' = effective /\ basis' = basis
    BY <1>1 DEF Save
  <2>3. QED
    BY <2>1, <2>2 DEF ConfigurationInvariant, ProjectsOnlyTighten
<1>2. ASSUME NEW chain \in Chains, NEW choice \in Selections, Load(chain, choice)
      PROVE  ConfigurationInvariant'
  BY <1>2, LoadTightens DEF ConfigurationInvariant
<1>3. CASE UNCHANGED configurationVars
  BY <1>3 DEF configurationVars, ConfigurationInvariant, ProjectsOnlyTighten
<1>4. QED
  BY <1>1, <1>2, <1>3 DEF ConfigurationNext

(* No project's files, in any number and order, give an Application a wider   *)
(* window or images than the user's own configuration, a Provider that is not *)
(* the user's, a search the user has not turned on, or a limit above one the  *)
(* user has: those of the search count when the user has a table for it, the  *)
(* timeout when the user gives one (loader.py, load_config_data).             *)
THEOREM ProjectsTighten == ConfigurationSpec => []ProjectsOnlyTighten
<1>1. ConfigurationInvariant => ProjectsOnlyTighten
  BY DEF ConfigurationInvariant
<1>2. QED
  BY <1>1, ConfigurationInitial, ConfigurationInductive, PTL DEF ConfigurationSpec

(* A save of the settings leaves every Provider it does not speak about with   *)
(* its profile under its new name, keeps the key it does not give, and lets    *)
(* the models follow, whatever names are exchanged (writer.py).                *)
THEOREM KeysAreKept == ConfigurationSpec => SavesKeepKeys
<1> DEFINE Kept ==
      file' # file => \A p \in Payloads : IsAccepted(p) /\ file' = Merged(p) =>
        /\ \A old \in DOMAIN file.providers :
             LET new == NewName(p.renames, old) IN
             /\ new \notin DOMAIN p.providers => file'.providers[new] = file.providers[old]
             /\ new \in DOMAIN p.providers =>
                  \/ p.providers[new] = Delete
                  \/ file'.providers[new].key = Given(p.providers[new].key, file.providers[old].key)
        /\ \A m \in DOMAIN file.models \ DOMAIN p.models :
             file'.models[m].provider = NewName(p.renames, file.models[m].provider)
<1>1. ConfigurationInvariant => Kept
  BY SaveKeepsKeys DEF ConfigurationInvariant
<1>2. ConfigurationInvariant => [Kept]_configurationVars
  BY <1>1
<1> HIDE DEF Kept
<1>3. ConfigurationSpec => [][Kept]_configurationVars
  BY <1>2, ConfigurationInitial, ConfigurationInductive, PTL DEF ConfigurationSpec
<1>4. QED
  BY <1>3 DEF SavesKeepKeys, Kept

----------------------------------------------------------------------------
(* A message from the frames of a Provider.                                   *)
Stages == 0 .. Whole
StreamTypes ==
  /\ api \in {"responses", "messages", "chat"} /\ meant \in Seq({"text", "reasoning", "call"})
  /\ stage \in [Items -> Stages] /\ server \in {"streaming", "complete", "length", "gone"}
  /\ item \in [Items -> [pieces : 0 .. Pieces, done : BOOLEAN]] /\ order \in Seq(Items)
  /\ shown \in [Items -> 0 .. Pieces] /\ announced \in [Items -> {"nothing", "started", "completed"}]
  /\ repeats \in Nat /\ token \in BOOLEAN
  /\ outcome \in {"streaming", "closing", "completed", "failed", "cancelled"}

\* What the adapter has of an item are the pieces that were sent; Responses may
\* have left them out before a whole.
Followed(i) ==
  IF api = "responses"
  THEN /\ stage[i] <= Pieces + 1 => item[i].pieces = Sent(i) /\ shown[i] = Sent(i)
       /\ stage[i] > Pieces + 1 => item[i].pieces \in {0, Pieces} /\ shown[i] \in {0, Pieces}
       /\ server # "streaming" /\ outcome # "failed" => Sent(i) \in {0, Pieces}
  ELSE /\ item[i].pieces = Sent(i) /\ (api = "messages" \/ meant[i] # "call" => shown[i] = Sent(i))
       /\ api = "chat" => stage[i] \in {0} \cup Deltas

IsAnnounced(i) == api # "chat" /\ meant[i] = "call" /\ stage[i] = Whole => announced[i] = "completed"

\* Where the position of an item is that of its first piece, items begin in order.
BegunInOrder ==
  /\ api \in {"messages", "chat"} => \A i \in Items : \A j \in 1 .. i - 1 : Begun(i) => Begun(j)
  /\ api = "chat" => \A k \in 1 .. Len(order) : order[k] = k
  /\ api = "chat" => \A i \in Items : Begun(i) <=> i <= Len(order)

\* The answer has an item for each that has begun, at its own place.
Answered ==
  /\ DOMAIN answer \subseteq Items /\ \A i \in Items : Begun(i) => i \in DOMAIN answer
  /\ \A k \in DOMAIN answer :
       /\ answer[k].kind = meant[k]
       /\ IF api = "responses" THEN answer[k].pieces = Pieces
          ELSE answer[k].pieces = Sent(k) /\ Begun(k) /\ (meant[k] = "call" => Sent(k) = Pieces)

Published ==
  api = "chat" => \A k \in DOMAIN answer :
    meant[k] = "call" => shown[k] = Sent(k) /\ announced[k] = "completed"

StreamInvariant ==
  /\ StreamTypes /\ BegunInOrder
  /\ outcome # "failed" => \A i \in Items : Followed(i) /\ IsAnnounced(i)
  /\ outcome \in {"closing", "completed"} => Answered
  /\ outcome = "completed" => Published /\ (api = "responses" => server # "streaming")
  /\ outcome = "closing" => server # "streaming"

\* Nothing has been sent.
LEMMA StreamInitial == StreamInit => StreamInvariant
<1> SUFFICES ASSUME StreamInit PROVE StreamInvariant
  OBVIOUS
<1>1. Pieces \in Nat /\ Pieces # 0 /\ meant \in Seq({"text", "reasoning", "call"})
  BY StreamAssumption DEF StreamInit
<1>2. StreamTypes
  <2>1. order \in Seq(Items)
    BY DEF StreamInit
  <2>2. Fresh \in [pieces : 0 .. Pieces, done : BOOLEAN] /\ 0 \in Stages /\ 0 \in 0 .. Pieces
    BY <1>1 DEF Fresh, Stages, Whole
  <2>3. item \in [Items -> [pieces : 0 .. Pieces, done : BOOLEAN]]
    BY <2>2 DEF StreamInit
  <2>4. stage \in [Items -> Stages] /\ shown \in [Items -> 0 .. Pieces]
    BY <2>2 DEF StreamInit
  <2>5. QED
    BY <1>1, <2>1, <2>3, <2>4 DEF StreamInit, StreamTypes
<1>3. BegunInOrder
  BY DEF StreamInit, BegunInOrder, Begun, Items
<1>4. \A i \in Items : Followed(i) /\ IsAnnounced(i)
  BY <1>1 DEF StreamInit, Followed, IsAnnounced, Sent, Deltas, Whole, Fresh
<1>5. QED
  BY <1>2, <1>3, <1>4 DEF StreamInit, StreamInvariant

\* What the number of the last frame says of the pieces that were sent.
LEMMA SentOf ==
    ASSUME NEW i \in Items, stage[i] \in Stages
    PROVE  /\ Pieces \in Nat /\ Pieces > 0 /\ stage[i] \in Nat /\ stage[i] <= Pieces + 3
           /\ stage[i] <= 1 => Sent(i) = 0
           /\ stage[i] >= 2 /\ stage[i] <= Pieces + 1 => Sent(i) = stage[i] - 1
           /\ stage[i] > Pieces => Sent(i) = Pieces
           /\ Sent(i) \in 0 .. Pieces
  BY StreamAssumption DEF Sent, Stages, Deltas, Whole

\* The same after a step.
LEMMA SentAfter ==
    ASSUME NEW i \in Items', stage'[i] \in Stages
    PROVE  /\ stage'[i] <= 1 => Sent(i)' = 0
           /\ stage'[i] >= 2 /\ stage'[i] <= Pieces + 1 => Sent(i)' = stage'[i] - 1
           /\ stage'[i] > Pieces => Sent(i)' = Pieces
           /\ Sent(i)' \in 0 .. Pieces
  BY StreamAssumption DEF Sent, Stages, Deltas, Whole

\* An item whose frames, pieces and events are as before is followed as before.
LEMMA StillFollowed ==
    ASSUME NEW i \in Items, Followed(i), IsAnnounced(i),
           api' = api, meant' = meant, stage'[i] = stage[i],
           item'[i].pieces = item[i].pieces, shown'[i] = shown[i], announced'[i] = announced[i],
           server' = "streaming" \/ outcome' = "failed"
    PROVE  Followed(i)' /\ IsAnnounced(i)'
<1>1. Sent(i)' = Sent(i)
  BY DEF Sent
<1>2. Followed(i)'
  BY <1>1 DEF Followed
<1>3. IsAnnounced(i)'
  BY DEF IsAnnounced
<1>4. QED
  BY <1>2, <1>3

\* What a frame leaves alone, and the place where it changes anything.
FrameOf(i, t) ==
  /\ api' = api /\ meant' = meant /\ stage' = [stage EXCEPT ![i] = t]
  /\ server = "streaming" /\ server' = "streaming" /\ outcome = "streaming"
  /\ repeats' = repeats /\ token' = token
  /\ \A j \in Items : j # i => /\ item'[j] = item[j] /\ shown'[j] = shown[j]
                               /\ announced'[j] = announced[j]

\* A frame keeps the invariant when it does so for its item and for the order.
LEMMA FrameOfKeeps ==
    ASSUME StreamInvariant, NEW i \in Items, NEW t \in 1 .. Whole, FrameOf(i, t),
           outcome' = "streaming",
           item' \in [Items -> [pieces : 0 .. Pieces, done : BOOLEAN]],
           shown' \in [Items -> 0 .. Pieces],
           announced' \in [Items -> {"nothing", "started", "completed"}],
           order' \in Seq(Items), BegunInOrder', Followed(i)', IsAnnounced(i)'
    PROVE  StreamInvariant'
<1>1. Items' = Items /\ StreamTypes
  BY DEF FrameOf, Items, StreamInvariant
<1>2. stage' \in [Items -> Stages]
  <2>1. t \in Stages
    BY StreamAssumption DEF Stages, Whole
  <2>2. QED
    BY <1>1, <2>1 DEF FrameOf, StreamTypes
<1>3. StreamTypes'
  BY <1>1, <1>2 DEF StreamTypes, FrameOf, Stages, Whole
<1>4. \A j \in Items : Followed(j)' /\ IsAnnounced(j)'
  <2> SUFFICES ASSUME NEW j \in Items, j # i PROVE Followed(j)' /\ IsAnnounced(j)'
    OBVIOUS
  <2>1. Followed(j) /\ IsAnnounced(j)
    BY DEF StreamInvariant, FrameOf
  <2>2. /\ stage'[j] = stage[j] /\ item'[j].pieces = item[j].pieces /\ shown'[j] = shown[j]
        /\ announced'[j] = announced[j] /\ api' = api /\ meant' = meant /\ server' = "streaming"
    BY <1>1 DEF FrameOf, StreamTypes
  <2>3. QED
    BY <2>1, <2>2, StillFollowed
<1>5. QED
  BY <1>1, <1>3, <1>4 DEF StreamInvariant

\* A frame changes the record of its item only.
LEMMA FrameIsOf ==
    ASSUME StreamInvariant, NEW i \in Items, NEW t \in 1 .. Whole, ReceiveFrame(i, t)
    PROVE  /\ FrameOf(i, t) /\ item' \in [Items -> [pieces : Nat, done : BOOLEAN]]
           /\ shown' \in [Items -> Nat]
           /\ announced' \in [Items -> {"nothing", "started", "completed"}]
<1>1. /\ item \in [Items -> [pieces : Nat, done : BOOLEAN]] /\ shown \in [Items -> Nat]
      /\ announced \in [Items -> {"nothing", "started", "completed"}] /\ Pieces \in Nat
  <2>1. Pieces \in Nat /\ StreamTypes
    BY StreamAssumption DEF StreamInvariant
  <2>2. QED
    BY <2>1 DEF StreamTypes
<1>2. Frame(i, t)
  BY DEF ReceiveFrame
<1>3. /\ item' \in [Items -> [pieces : Nat, done : BOOLEAN]]
      /\ \A j \in Items : j # i => item'[j] = item[j]
  <2>1. CASE item' = item
    BY <1>1, <2>1
  <2>2. CASE item' = [item EXCEPT ![i].pieces = @ + 1]
    BY <1>1, <2>2
  <2>3. CASE item' = [item EXCEPT ![i].pieces = Pieces]
    BY <1>1, <2>3
  <2>4. CASE item' = [item EXCEPT ![i].done = TRUE]
    BY <1>1, <2>4
  <2>5. CASE item' = [item EXCEPT ![i] = [pieces |-> IF IsCall(i) THEN Pieces ELSE @.pieces, done |-> TRUE]]
    BY <1>1, <2>5
  <2>6. QED
    BY <1>2, <2>1, <2>2, <2>3, <2>4, <2>5 DEF Frame, ResponsesOpen, ResponsesPiece, ResponsesText,
       ResponsesWhole, MessagesOpen, MessagesPiece, MessagesStop, ChatPiece, Adds, Rejects
<1>4. shown' \in [Items -> Nat] /\ \A j \in Items : j # i => shown'[j] = shown[j]
  <2>1. shown' = shown \/ shown' = [shown EXCEPT ![i] = @ + 1]
    BY <1>2 DEF Frame, ResponsesOpen, ResponsesPiece, ResponsesText, ResponsesWhole, MessagesOpen,
       MessagesPiece, MessagesStop, ChatPiece, ChatContent, ChatArguments, Shows, Rejects
  <2>2. QED
    BY <1>1, <2>1
<1>5. /\ announced' \in [Items -> {"nothing", "started", "completed"}]
      /\ \A j \in Items : j # i => announced'[j] = announced[j]
  <2>1. \/ announced' = announced \/ announced' = [announced EXCEPT ![i] = "started"]
        \/ announced' = [announced EXCEPT ![i] = "completed"]
    BY <1>2 DEF Frame, ResponsesOpen, ResponsesPiece, ResponsesText, ResponsesWhole, MessagesOpen,
       MessagesPiece, MessagesStop, ChatPiece, Tells, TellsNothing, Rejects
  <2>2. QED
    BY <1>1, <2>1
<1>6. FrameOf(i, t)
  BY <1>3, <1>4, <1>5 DEF FrameOf, ReceiveFrame, Listening
<1>7. QED
  BY <1>3, <1>4, <1>5, <1>6

\* What is known of the item of a frame before it.
LEMMA FrameFacts ==
    ASSUME StreamInvariant, NEW i \in Items, NEW t \in 1 .. Whole, ReceiveFrame(i, t)
    PROVE  /\ Pieces \in Nat /\ Pieces > 0 /\ t \in Nat /\ t >= 1 /\ t <= Pieces + 3
           /\ Followed(i) /\ IsAnnounced(i) /\ outcome = "streaming" /\ server = "streaming"
           /\ Items' = Items /\ i \in Items' /\ stage[i] \in Stages /\ stage'[i] = t /\ t \in Stages
           /\ item[i].pieces \in Nat /\ shown[i] \in Nat /\ IsCall(i)' = IsCall(i)
           /\ \A j \in Items : j # i => stage'[j] = stage[j]
           /\ StreamTypes /\ BegunInOrder /\ api' = api /\ meant' = meant
<1>1. FrameOf(i, t)
  BY FrameIsOf
<1>2. StreamTypes /\ BegunInOrder /\ Pieces \in Nat /\ Pieces > 0
  BY StreamAssumption DEF StreamInvariant
<1>3. t \in Nat /\ t >= 1 /\ t <= Pieces + 3 /\ t \in Stages
  BY <1>2 DEF Whole, Stages
<1>4. Followed(i) /\ IsAnnounced(i)
  BY <1>1 DEF FrameOf, StreamInvariant
<1>5. Items' = Items /\ IsCall(i)' = IsCall(i) /\ api' = api /\ meant' = meant
  BY <1>1 DEF FrameOf, Items, IsCall
<1>6. stage'[i] = t /\ stage[i] \in Stages /\ \A j \in Items : j # i => stage'[j] = stage[j]
  BY <1>1, <1>2 DEF FrameOf, StreamTypes
<1>7. item[i].pieces \in Nat /\ shown[i] \in Nat
  BY <1>2 DEF StreamTypes
<1>8. outcome = "streaming" /\ server = "streaming"
  BY <1>1 DEF FrameOf
<1>9. QED
  BY <1>2, <1>3, <1>4, <1>5, <1>6, <1>7, <1>8

\* A frame of each protocol.  Responses: pieces are left out as a whole or come in order.
LEMMA ResponsesFrame ==
    ASSUME StreamInvariant, NEW i \in Items, NEW t \in 1 .. Whole, ReceiveFrame(i, t),
           api = "responses"
    PROVE  StreamInvariant'
<1>1. FrameOf(i, t)
  BY FrameIsOf
<1>2. /\ Pieces \in Nat /\ Pieces > 0 /\ t \in Nat /\ t >= 1 /\ t <= Pieces + 3
      /\ Followed(i) /\ IsAnnounced(i) /\ outcome = "streaming"
      /\ Items' = Items /\ i \in Items' /\ stage[i] \in Stages /\ stage'[i] = t /\ t \in Stages
      /\ item[i].pieces \in Nat /\ shown[i] \in Nat /\ IsCall(i)' = IsCall(i)
      /\ StreamTypes /\ BegunInOrder /\ api' = api /\ meant' = meant
  BY FrameFacts
<1>3. /\ t > stage[i] /\ (stage[i] \in 2 .. Pieces \/ t \in 3 .. Pieces + 1 => t = stage[i] + 1)
      /\ \/ t = Opened /\ ResponsesOpen(i)
         \/ t \in Deltas /\ ResponsesPiece(i)
         \/ t = Text /\ ResponsesText(i)
         \/ t = Whole /\ ResponsesWhole(i)
  BY DEF ReceiveFrame, Sends, Frame
<1>4. item \in [Items -> [pieces : 0 .. Pieces, done : BOOLEAN]] /\ shown \in [Items -> 0 .. Pieces]
  BY <1>2 DEF StreamTypes
<1>5. /\ stage[i] <= 1 => Sent(i) = 0
      /\ stage[i] >= 2 /\ stage[i] <= Pieces + 1 => Sent(i) = stage[i] - 1
      /\ stage[i] > Pieces => Sent(i) = Pieces
      /\ stage[i] \in Nat /\ stage[i] <= Pieces + 3
  BY <1>2, SentOf
<1>6. /\ t <= 1 => Sent(i)' = 0
      /\ t >= 2 /\ t <= Pieces + 1 => Sent(i)' = t - 1
      /\ t > Pieces => Sent(i)' = Pieces
  BY <1>2, SentAfter
<1>7. /\ stage[i] <= Pieces + 1 => item[i].pieces = Sent(i) /\ shown[i] = Sent(i)
      /\ stage[i] > Pieces + 1 => item[i].pieces \in {0, Pieces} /\ shown[i] \in {0, Pieces}
  BY <1>2 DEF Followed
<1>8. t > Pieces + 1 => Agrees(i) /\ item[i].pieces \in {0, Pieces} /\ shown[i] \in {0, Pieces}
  BY <1>2, <1>3, <1>5, <1>7 DEF Agrees
<1>9. /\ outcome' = "streaming" /\ order' = order
      /\ t <= 1 => item'[i].pieces = item[i].pieces /\ shown'[i] = shown[i]
      /\ t >= 2 /\ t <= Pieces + 1 => item'[i].pieces = item[i].pieces + 1 /\ shown'[i] = shown[i] + 1
      /\ t > Pieces + 1 => item'[i].pieces \in {item[i].pieces, Pieces} /\ shown'[i] = shown[i]
      /\ t = Pieces + 3 /\ IsCall(i) => announced'[i] = "completed"
  <2>1. CASE t = Opened /\ ResponsesOpen(i)
    BY <1>2, <2>1 DEF Opened, ResponsesOpen, Accepts
  <2>2. CASE t \in Deltas /\ ResponsesPiece(i)
    BY <1>2, <1>4, <2>2 DEF Deltas, ResponsesPiece, Accepts, Adds, Shows
  <2>3. CASE t = Text /\ ResponsesText(i)
    BY <1>2, <1>4, <1>8, <2>3 DEF Text, ResponsesText, Accepts
  <2>4. CASE t = Whole /\ ResponsesWhole(i)
    <3>1. announced \in [Items -> {"nothing", "started", "completed"}]
      BY <1>2 DEF StreamTypes
    <3>2. QED
      BY <1>2, <1>4, <1>8, <2>4, <3>1 DEF Whole, ResponsesWhole, Accepts, Tells
  <2>5. QED
    BY <1>3, <2>1, <2>2, <2>3, <2>4
<1>10. /\ t <= Pieces + 1 => item'[i].pieces = Sent(i)' /\ shown'[i] = Sent(i)'
       /\ t > Pieces + 1 => item'[i].pieces \in {0, Pieces} /\ shown'[i] \in {0, Pieces}
  <2>1. CASE t <= 1
    BY <1>2, <1>3, <1>5, <1>6, <1>7, <1>9, <2>1
  <2>2. CASE t >= 2 /\ t <= Pieces + 1
    BY <1>2, <1>3, <1>5, <1>6, <1>7, <1>9, <2>2
  <2>3. CASE t > Pieces + 1
    BY <1>2, <1>8, <1>9, <2>3
  <2>4. QED
    BY <1>2, <2>1, <2>2, <2>3
<1>11. server' = "streaming"
  BY <1>1 DEF FrameOf
<1>12. Followed(i)' /\ IsAnnounced(i)'
  BY <1>2, <1>9, <1>10, <1>11 DEF Followed, IsAnnounced, IsCall, Whole
<1>13. BegunInOrder' /\ order' \in Seq(Items)
  BY <1>2, <1>9 DEF BegunInOrder, StreamTypes
<1>14. item'[i].pieces \in 0 .. Pieces /\ shown'[i] \in 0 .. Pieces
  BY <1>2, <1>6, <1>10
<1>15. /\ item' \in [Items -> [pieces : 0 .. Pieces, done : BOOLEAN]]
       /\ shown' \in [Items -> 0 .. Pieces]
       /\ announced' \in [Items -> {"nothing", "started", "completed"}]
  <2>1. /\ item' \in [Items -> [pieces : Nat, done : BOOLEAN]] /\ shown' \in [Items -> Nat]
        /\ announced' \in [Items -> {"nothing", "started", "completed"}]
    BY FrameIsOf
  <2>2. \A j \in Items : item'[j].pieces \in 0 .. Pieces /\ shown'[j] \in 0 .. Pieces
    BY <1>1, <1>4, <1>14 DEF FrameOf
  <2>3. QED
    BY <2>1, <2>2
<1>16. QED
  BY <1>1, <1>9, <1>12, <1>13, <1>15, FrameOfKeeps

\* Messages: one item after the other, every piece in its order.
LEMMA MessagesFrame ==
    ASSUME StreamInvariant, NEW i \in Items, NEW t \in 1 .. Whole, ReceiveFrame(i, t),
           api = "messages"
    PROVE  StreamInvariant'
<1>1. FrameOf(i, t)
  BY FrameIsOf
<1>2. /\ Pieces \in Nat /\ Pieces > 0 /\ t \in Nat /\ t >= 1 /\ t <= Pieces + 3
      /\ Followed(i) /\ IsAnnounced(i) /\ outcome = "streaming"
      /\ Items' = Items /\ i \in Items' /\ stage[i] \in Stages /\ stage'[i] = t /\ t \in Stages
      /\ item[i].pieces \in Nat /\ shown[i] \in Nat /\ IsCall(i)' = IsCall(i)
      /\ StreamTypes /\ BegunInOrder /\ api' = api /\ meant' = meant
      /\ \A j \in Items : j # i => stage'[j] = stage[j]
  BY FrameFacts
<1>3. /\ t = IF stage[i] = Pieces + 1 THEN Whole ELSE stage[i] + 1
      /\ \A j \in 1 .. i - 1 : stage[j] = Whole
      /\ \/ t = Opened /\ MessagesOpen(i)
         \/ t \in Deltas /\ MessagesPiece(i)
         \/ t = Whole /\ MessagesStop(i)
  BY DEF ReceiveFrame, Sends, Frame
<1>4. item \in [Items -> [pieces : 0 .. Pieces, done : BOOLEAN]] /\ shown \in [Items -> 0 .. Pieces]
  BY <1>2 DEF StreamTypes
<1>5. /\ stage[i] <= 1 => Sent(i) = 0
      /\ stage[i] >= 2 /\ stage[i] <= Pieces + 1 => Sent(i) = stage[i] - 1
      /\ stage[i] > Pieces => Sent(i) = Pieces
      /\ stage[i] \in Nat /\ stage[i] <= Pieces + 3
  BY <1>2, SentOf
<1>6. /\ t <= 1 => Sent(i)' = 0
      /\ t >= 2 /\ t <= Pieces + 1 => Sent(i)' = t - 1
      /\ t > Pieces => Sent(i)' = Pieces
  BY <1>2, SentAfter
<1>7. item[i].pieces = Sent(i) /\ shown[i] = Sent(i)
  BY <1>2 DEF Followed
<1>8. /\ outcome' = "streaming" /\ order' = order
      /\ t <= 1 => item'[i].pieces = item[i].pieces /\ shown'[i] = shown[i]
      /\ t >= 2 /\ t <= Pieces + 1 => item'[i].pieces = item[i].pieces + 1 /\ shown'[i] = shown[i] + 1
      /\ t > Pieces + 1 => item'[i].pieces = item[i].pieces /\ shown'[i] = shown[i]
      /\ t = Pieces + 3 /\ IsCall(i) => announced'[i] = "completed"
  <2>1. CASE t = Opened /\ MessagesOpen(i)
    BY <1>2, <2>1 DEF Opened, MessagesOpen, ResponsesOpen, Accepts
  <2>2. CASE t \in Deltas /\ MessagesPiece(i)
    BY <1>2, <1>4, <2>2 DEF Deltas, MessagesPiece, ResponsesPiece, Accepts, Adds, Shows
  <2>3. CASE t = Whole /\ MessagesStop(i)
    <3>1. announced \in [Items -> {"nothing", "started", "completed"}]
      BY <1>2 DEF StreamTypes
    <3>2. IsCall(i) => announced'[i] = "completed"
      BY <2>3, <3>1 DEF MessagesStop, Tells
    <3>3. outcome' = "streaming" /\ order' = order /\ shown' = shown /\ t = Pieces + 3
      BY <1>2, <2>3 DEF Whole, MessagesStop, Accepts
    <3>4. item'[i].pieces = item[i].pieces
      BY <1>4, <2>3 DEF MessagesStop
    <3>5. QED
      BY <1>2, <3>2, <3>3, <3>4
  <2>4. QED
    BY <1>3, <2>1, <2>2, <2>3
<1>9. item'[i].pieces = Sent(i)' /\ shown'[i] = Sent(i)'
  BY <1>2, <1>3, <1>5, <1>6, <1>7, <1>8 DEF Whole
<1>10. Followed(i)' /\ IsAnnounced(i)'
  BY <1>2, <1>8, <1>9 DEF Followed, IsAnnounced, IsCall, Whole
<1>11. BegunInOrder'
  <2>1. \A a \in Items : \A b \in 1 .. a - 1 : Begun(a) => Begun(b)
    BY <1>2 DEF BegunInOrder
  <2>2. \A b \in 1 .. i - 1 : Begun(b)
    BY <1>2, <1>3 DEF Begun, Whole
  <2>3. \A j \in Items : Begun(j) => Begun(j)'
    BY <1>2 DEF Begun
  <2>4. \A a \in Items : \A b \in 1 .. a - 1 : b \in Items
    BY <1>2 DEF Items, StreamTypes
  <2>5. \A a \in Items : \A b \in 1 .. a - 1 : Begun(a)' => Begun(b)'
    <3> SUFFICES ASSUME NEW a \in Items, NEW b \in 1 .. a - 1, Begun(a)' PROVE Begun(b)'
      OBVIOUS
    <3>1. Begun(b)
      <4>1. CASE a = i
        BY <2>2, <4>1
      <4>2. CASE a # i
        BY <1>2, <2>1, <4>2 DEF Begun
      <4>3. QED
        BY <4>1, <4>2
    <3>2. QED
      BY <2>3, <2>4, <3>1
  <2>6. QED
    BY <1>2, <2>5 DEF BegunInOrder
<1>12. order' \in Seq(Items)
  BY <1>2, <1>8 DEF StreamTypes
<1>13. item'[i].pieces \in 0 .. Pieces /\ shown'[i] \in 0 .. Pieces
  BY <1>2, <1>6, <1>9
<1>14. /\ item' \in [Items -> [pieces : 0 .. Pieces, done : BOOLEAN]]
       /\ shown' \in [Items -> 0 .. Pieces]
       /\ announced' \in [Items -> {"nothing", "started", "completed"}]
  <2>1. /\ item' \in [Items -> [pieces : Nat, done : BOOLEAN]] /\ shown' \in [Items -> Nat]
        /\ announced' \in [Items -> {"nothing", "started", "completed"}]
    BY FrameIsOf
  <2>2. \A j \in Items : item'[j].pieces \in 0 .. Pieces /\ shown'[j] \in 0 .. Pieces
    BY <1>1, <1>4, <1>13 DEF FrameOf
  <2>3. QED
    BY <2>1, <2>2
<1>15. QED
  BY <1>1, <1>8, <1>10, <1>11, <1>12, <1>14, FrameOfKeeps

\* Chat: the order of first pieces is the order of the items.
LEMMA ChatFrame ==
    ASSUME StreamInvariant, NEW i \in Items, NEW t \in 1 .. Whole, ReceiveFrame(i, t),
           api = "chat"
    PROVE  StreamInvariant'
<1>1. FrameOf(i, t)
  BY FrameIsOf
<1>2. /\ Pieces \in Nat /\ Pieces > 0 /\ t \in Nat /\ t >= 1 /\ t <= Pieces + 3
      /\ Followed(i) /\ IsAnnounced(i) /\ outcome = "streaming"
      /\ Items' = Items /\ i \in Items' /\ stage[i] \in Stages /\ stage'[i] = t /\ t \in Stages
      /\ item[i].pieces \in Nat /\ shown[i] \in Nat /\ IsCall(i)' = IsCall(i)
      /\ StreamTypes /\ BegunInOrder /\ api' = api /\ meant' = meant
      /\ \A j \in Items : j # i => stage'[j] = stage[j]
  BY FrameFacts
<1>3. /\ t \in Deltas /\ t = IF stage[i] = 0 THEN 2 ELSE stage[i] + 1
      /\ \A j \in 1 .. i - 1 : stage[j] > Pieces \/ (Begun(j) /\ IsCall(i) /\ IsCall(j))
      /\ ChatPiece(i)
  BY DEF ReceiveFrame, Sends, Frame
<1>4. item \in [Items -> [pieces : 0 .. Pieces, done : BOOLEAN]] /\ shown \in [Items -> 0 .. Pieces]
  BY <1>2 DEF StreamTypes
<1>5. /\ item[i].pieces = Sent(i) /\ stage[i] \in {0} \cup Deltas
      /\ meant[i] # "call" => shown[i] = Sent(i)
  BY <1>2 DEF Followed
<1>6. item'[i].pieces = Sent(i)' /\ (meant[i] # "call" => shown'[i] = Sent(i)')
  <2>1. /\ stage[i] <= 1 => Sent(i) = 0
        /\ stage[i] >= 2 /\ stage[i] <= Pieces + 1 => Sent(i) = stage[i] - 1
        /\ stage[i] \in Nat
    BY <1>2, SentOf
  <2>2. t >= 2 /\ t <= Pieces + 1 => Sent(i)' = t - 1
    BY <1>2, SentAfter
  <2>3. Sent(i)' = Sent(i) + 1
    BY <1>2, <1>3, <1>5, <2>1, <2>2 DEF Deltas
  <2>4. item'[i].pieces = item[i].pieces + 1
    BY <1>3, <1>4 DEF ChatPiece, Adds
  <2>5. meant[i] # "call" => shown'[i] = shown[i] + 1
    BY <1>3, <1>4 DEF ChatPiece, ChatContent, ChatArguments, Shows, IsCall
  <2>6. QED
    BY <1>5, <2>3, <2>4, <2>5
<1>7. Followed(i)' /\ IsAnnounced(i)'
  BY <1>2, <1>3, <1>6 DEF Followed, IsAnnounced, Deltas
<1>8. /\ Len(order) \in Nat /\ order \in Seq(Items) /\ DOMAIN order = 1 .. Len(order)
      /\ \A k \in 1 .. Len(order) : order[k] = k
      /\ \A j \in Items : Begun(j) <=> j <= Len(order)
      /\ i \in Nat /\ i >= 1 /\ \A j \in 1 .. i - 1 : j \in Items
  BY <1>2 DEF BegunInOrder, StreamTypes, Items
<1>9. /\ Begun(i) => order' = order
      /\ ~Begun(i) => order' = Append(order, i) /\ i = Len(order) + 1
  <2>1. order' = IF \E k \in DOMAIN order : order[k] = i THEN order ELSE Append(order, i)
    BY <1>3 DEF ChatPiece
  <2>2. CASE Begun(i)
    <3>1. i \in DOMAIN order /\ order[i] = i
      BY <1>8, <2>2
    <3>2. QED
      BY <2>1, <2>2, <3>1
  <2>3. CASE ~Begun(i)
    <3>1. ~\E k \in DOMAIN order : order[k] = i
      BY <1>8, <2>3
    <3>2. \A j \in 1 .. i - 1 : j <= Len(order)
      <4> SUFFICES ASSUME NEW j \in 1 .. i - 1 PROVE Begun(j)
        BY <1>8
      <4>1. stage[j] \in Nat
        BY <1>2, <1>8 DEF StreamTypes, Stages
      <4>2. QED
        BY <1>2, <1>3, <4>1 DEF Begun
    <3>3. i = Len(order) + 1
      <4>1. i > Len(order)
        BY <1>8, <2>3
      <4>2. CASE i = 1
        BY <1>8, <4>1, <4>2
      <4>3. CASE i # 1
        <5>1. i - 1 \in 1 .. i - 1
          BY <1>8, <4>3
        <5>2. QED
          BY <1>8, <3>2, <4>1, <5>1
      <4>4. QED
        BY <4>2, <4>3
    <3>4. QED
      BY <2>1, <2>3, <3>1, <3>3
  <2>4. QED
    BY <2>2, <2>3
<1>10. /\ order' \in Seq(Items) /\ \A k \in 1 .. Len(order') : order'[k] = k
       /\ \A j \in Items : Begun(j)' <=> j <= Len(order')
  <2>1. Begun(i)' /\ \A j \in Items : j # i => (Begun(j)' <=> Begun(j))
    BY <1>2 DEF Begun
  <2>2. CASE Begun(i)
    BY <1>8, <1>9, <2>1, <2>2
  <2>3. CASE ~Begun(i)
    <3>1. /\ order' \in Seq(Items) /\ Len(order') = Len(order) + 1
          /\ \A k \in 1 .. Len(order) : order'[k] = order[k]
          /\ order'[Len(order) + 1] = i
      BY <1>8, <1>9, <2>3
    <3>2. \A j \in Items : j \in Nat
      BY <1>2 DEF Items, StreamTypes
    <3>3. QED
      BY <1>8, <1>9, <2>1, <2>3, <3>1, <3>2
  <2>4. QED
    BY <2>2, <2>3
<1>11. BegunInOrder'
  <2>1. \A a \in Items : \A b \in 1 .. a - 1 : a \in Nat /\ b \in Items
    BY <1>2 DEF Items, StreamTypes
  <2>2. Len(order') \in Nat
    BY <1>10
  <2>3. \A a \in Items : \A b \in 1 .. a - 1 : Begun(a)' => Begun(b)'
    BY <1>10, <2>1, <2>2, SMTT(60)
  <2>4. QED
    BY <1>2, <1>10, <2>3 DEF BegunInOrder
<1>12. /\ item' \in [Items -> [pieces : 0 .. Pieces, done : BOOLEAN]]
       /\ shown' \in [Items -> 0 .. Pieces]
       /\ announced' \in [Items -> {"nothing", "started", "completed"}]
  <2>1. /\ item' \in [Items -> [pieces : Nat, done : BOOLEAN]] /\ shown' \in [Items -> Nat]
        /\ announced' \in [Items -> {"nothing", "started", "completed"}]
    BY FrameIsOf
  <2>2. Sent(i)' \in 0 .. Pieces
    BY <1>2, SentAfter
  <2>3. shown'[i] \in 0 .. Pieces
    <3>1. CASE meant[i] # "call"
      BY <1>6, <2>2, <3>1
    <3>2. CASE meant[i] = "call"
      BY <1>3, <1>4, <3>2 DEF ChatPiece, ChatContent, ChatArguments, IsCall
    <3>3. QED
      BY <3>1, <3>2
  <2>4. \A j \in Items : item'[j].pieces \in 0 .. Pieces /\ shown'[j] \in 0 .. Pieces
    BY <1>1, <1>4, <1>6, <2>2, <2>3 DEF FrameOf
  <2>5. QED
    BY <2>1, <2>4
<1>13. outcome' = "streaming"
  BY <1>2, <1>3 DEF ChatPiece, Accepts
<1>14. QED
  BY <1>1, <1>7, <1>10, <1>11, <1>12, <1>13, FrameOfKeeps

\* A step that changes no message, no frame and no event keeps the invariant.
LEMMA SameStream ==
    ASSUME StreamInvariant, UNCHANGED <<api, meant, stage, item, order, shown, announced>>,
           repeats' \in Nat, token' \in BOOLEAN,
           \/ server' = server /\ answer' = answer /\ outcome' = outcome
           \/ server' \in {"streaming", "complete", "length", "gone"} /\ outcome' = "failed"
           \/ server' = server /\ answer' = answer /\ outcome' = "cancelled" /\ outcome = "streaming"
    PROVE  StreamInvariant'
<1>1. StreamTypes' /\ Items' = Items
  BY DEF StreamInvariant, StreamTypes, Items, Stages, Whole
<1>2. BegunInOrder'
  BY <1>1 DEF StreamInvariant, BegunInOrder, Begun
<1>3. ASSUME outcome' # "failed", NEW i \in Items PROVE Followed(i)' /\ IsAnnounced(i)'
  <2>1. Followed(i) /\ IsAnnounced(i) /\ server' = server /\ outcome # "failed"
    BY <1>3 DEF StreamInvariant
  <2>2. QED
    BY <2>1 DEF Followed, IsAnnounced, Sent
<1>4. ASSUME outcome' \in {"closing", "completed"}
      PROVE  /\ outcome' = outcome /\ Answered'
             /\ outcome = "completed" => Published' /\ (api' = "responses" => server' # "streaming")
             /\ outcome = "closing" => server' # "streaming"
  <2>1. Answered /\ outcome' = outcome /\ answer' = answer /\ server' = server
    BY <1>4 DEF StreamInvariant
  <2>2. Answered'
    BY <1>1, <2>1 DEF Answered, Begun, Sent
  <2>3. outcome = "completed" => Published' /\ (api' = "responses" => server' # "streaming")
    BY <1>4, <2>1 DEF StreamInvariant, Published, Sent
  <2>4. QED
    BY <1>4, <2>1, <2>2, <2>3 DEF StreamInvariant
<1>5. QED
  BY <1>1, <1>2, <1>3, <1>4 DEF StreamInvariant

\* The terminal frame and the end of the stream.
LEMMA TerminalKeeps ==
    ASSUME StreamInvariant, NEW how \in {"complete", "length"}, Terminal(how)
    PROVE  StreamInvariant'
<1>1. /\ UNCHANGED <<api, meant, stage, order, shown, announced, repeats, token, answer>>
      /\ server' = how /\ outcome = "streaming" /\ StreamTypes /\ BegunInOrder
      /\ \A i \in Items : Followed(i) /\ IsAnnounced(i)
  BY DEF Terminal, Listening, StreamInvariant
<1>2. /\ item' \in [Items -> [pieces : 0 .. Pieces, done : BOOLEAN]]
      /\ \A i \in Items : item'[i].pieces = item[i].pieces
  <2>1. item \in [Items -> [pieces : 0 .. Pieces, done : BOOLEAN]]
    BY <1>1 DEF StreamTypes
  <2>2. \/ item' = item \/ item' = [i \in Items |-> [item[i] EXCEPT !.done = TRUE]]
        \/ item' = [i \in Items |-> [item[i] EXCEPT !.done = @ \/ Begun(i)]]
    BY DEF Terminal, ResponsesTerminal, MessagesTerminal, ChatTerminal
  <2>3. CASE item' = [i \in Items |-> [item[i] EXCEPT !.done = @ \/ Begun(i)]]
    <3>1. \A i \in Items : /\ [item[i] EXCEPT !.done = @ \/ Begun(i)] \in [pieces : 0 .. Pieces, done : BOOLEAN]
                           /\ [item[i] EXCEPT !.done = @ \/ Begun(i)].pieces = item[i].pieces
      BY <2>1
    <3>2. QED
      BY <2>3, <3>1
  <2>4. QED
    BY <2>1, <2>2, <2>3, ZenonT(40)
<1>3. \/ outcome' = "failed"
      \/ /\ outcome' = "streaming"
         /\ api = "responses" => \A i \in Items : Sent(i) \in {0, Pieces}
  BY <1>1 DEF Terminal, ResponsesTerminal, MessagesTerminal, ChatTerminal
<1>4. Items' = Items
  BY <1>1 DEF Items
<1>5. StreamTypes'
  BY <1>1, <1>2, <1>3, <1>4 DEF StreamTypes, Stages, Whole
<1>6. BegunInOrder'
  BY <1>1, <1>4 DEF BegunInOrder, Begun
<1>7. ASSUME outcome' # "failed", NEW i \in Items PROVE Followed(i)' /\ IsAnnounced(i)'
  <2>1. /\ Sent(i)' = Sent(i) /\ (api = "responses" => Sent(i) \in {0, Pieces})
        /\ item'[i].pieces = item[i].pieces
    BY <1>1, <1>2, <1>3, <1>7 DEF Sent
  <2>2. Followed(i)'
    BY <1>1, <2>1 DEF Followed
  <2>3. IsAnnounced(i)'
    BY <1>1 DEF IsAnnounced
  <2>4. QED
    BY <2>2, <2>3
<1>8. QED
  BY <1>3, <1>4, <1>5, <1>6, <1>7 DEF StreamInvariant

\* The parts of the first m items, when those are the ones that have begun.
LEMMA PartsInOrder ==
    ASSUME StreamTypes, api \in {"messages", "chat"}, \A i \in Items : Followed(i),
           NEW m \in Nat, \A k \in 1 .. m : k \in Items, \A i \in Items : Begun(i) <=> i <= m,
           answer' = PartsOf([i \in 1 .. m |-> i]),
           \A k \in DOMAIN answer' : answer'[k].kind = "call" => answer'[k].pieces = Pieces,
           UNCHANGED <<api, meant, stage>>
    PROVE  Answered'
<1>1. Items' = Items /\ \A i \in Items : i \in Nat /\ i >= 1
  BY DEF StreamTypes, Items
<1>2. answer' = [k \in 1 .. m |-> [kind |-> meant[k], pieces |-> item[k].pieces]]
  BY DEF PartsOf
<1>3. DOMAIN answer' = 1 .. m
  BY <1>2
<1>4. \A i \in Items : (Begun(i)' <=> Begun(i)) /\ Sent(i)' = Sent(i) /\ item[i].pieces = Sent(i)
  BY DEF Begun, Sent, Followed
<1>5. \A k \in DOMAIN answer' :
        /\ answer'[k].kind = meant[k]
        /\ answer'[k].pieces = Sent(k) /\ Begun(k) /\ (meant[k] = "call" => Sent(k) = Pieces)
  BY <1>2, <1>3, <1>4
<1>6. \A i \in Items : Begun(i)' => i \in DOMAIN answer'
  BY <1>1, <1>3, <1>4
<1>7. DOMAIN answer' \subseteq Items'
  BY <1>1, <1>3
<1>8. \A k \in DOMAIN answer' : k \in Items
  BY <1>3
<1>9. \A k \in DOMAIN answer' :
        /\ answer'[k].kind = meant'[k]
        /\ IF api' = "responses" THEN answer'[k].pieces = Pieces
           ELSE answer'[k].pieces = Sent(k)' /\ Begun(k)' /\ (meant'[k] = "call" => Sent(k)' = Pieces)
  BY <1>4, <1>5, <1>8
<1>10. QED
  BY <1>1, <1>6, <1>7, <1>9 DEF Answered

\* The parts at the end of the stream are those of the items that have begun.
LEMMA EndOfStreamKeeps ==
    ASSUME StreamInvariant, EndOfStream
    PROVE  StreamInvariant'
<1>1. /\ UNCHANGED <<api, meant, stage, item, order, shown, announced, repeats, token>>
      /\ server' = "gone" /\ outcome = "streaming" /\ StreamTypes /\ BegunInOrder
      /\ \A i \in Items : Followed(i) /\ IsAnnounced(i)
  BY DEF EndOfStream, Listening, StreamInvariant
<1>2. CASE outcome' = "failed"
  <2>1. /\ server' \in {"streaming", "complete", "length", "gone"} /\ repeats' \in Nat
        /\ token' \in BOOLEAN
    BY <1>1 DEF StreamTypes
  <2>2. QED
    BY <1>1, <1>2, <2>1, SameStream
<1>3. CASE outcome' # "failed"
  <2>1. /\ server # "streaming" /\ outcome' = "closing" /\ answer' = Parts
        /\ \A k \in DOMAIN Parts : Parts[k].kind = "call" => Parts[k].pieces = Pieces
    BY <1>3 DEF EndOfStream, Parses
  <2>2. Pieces \in Nat /\ Pieces > 0
    BY StreamAssumption
  <2>3. Items = 1 .. Len(meant) /\ Len(meant) \in Nat /\ Items' = Items
    BY <1>1 DEF StreamTypes, Items
  <2>4. Answered'
    <3>1. CASE api = "responses"
      <4>1. \A i \in Items : item[i].pieces \in {0, Pieces}
        <5> SUFFICES ASSUME NEW i \in Items PROVE item[i].pieces \in {0, Pieces}
          OBVIOUS
        <5>1. Followed(i) /\ stage[i] \in Nat
          BY <1>1 DEF StreamTypes, Stages
        <5>2. /\ stage[i] <= Pieces + 1 => item[i].pieces = Sent(i)
              /\ stage[i] > Pieces + 1 => item[i].pieces \in {0, Pieces}
              /\ Sent(i) \in {0, Pieces}
          BY <1>1, <2>1, <3>1, <5>1 DEF Followed
        <5>3. QED
          BY <2>2, <5>1, <5>2
      <4>2. answer' = [i \in Items |-> [kind |-> meant[i], pieces |-> Pieces]]
        <5>1. answer' = ResponsesParts
          BY <2>1, <3>1 DEF Parts
        <5>2. \A i \in Items : (IF IsCall(i) /\ item[i].pieces > 0 THEN item[i].pieces ELSE Pieces) = Pieces
          BY <2>2, <4>1
        <5>3. QED
          BY <5>1, <5>2 DEF ResponsesParts
      <4>3. QED
        BY <1>1, <2>3, <3>1, <4>2 DEF Answered
    <3>2. CASE api = "messages"
      <4> DEFINE T == {i \in Items : Begun(i)}
      <4>1. answer' = PartsOf(Selected([i \in Items |-> i], T))
        BY <2>1, <3>2 DEF Parts, MessagesParts
      <4>2. \A i, j \in 1 .. Len(meant) : i <= j /\ j \in T => i \in T
        <5> SUFFICES ASSUME NEW i \in 1 .. Len(meant), NEW j \in 1 .. Len(meant), i <= j, Begun(j)
                     PROVE  Begun(i)
          BY <2>3
        <5>1. CASE i = j
          BY <5>1
        <5>2. CASE i # j
          <6>1. i \in 1 .. j - 1
            BY <2>3, <5>2
          <6>2. QED
            BY <1>1, <2>3, <3>2, <6>1 DEF BegunInOrder
        <5>3. QED
          BY <5>1, <5>2
      <4> HIDE DEF T
      <4>3. PICK m \in 0 .. Len(meant) :
              /\ \A i \in 1 .. Len(meant) : i \in T <=> i <= m
              /\ Selected([i \in 1 .. Len(meant) |-> i], T) = [i \in 1 .. m |-> i]
        BY <2>3, <4>2, SelectedNumbers
      <4>4. answer' = PartsOf([i \in 1 .. m |-> i])
        BY <2>3, <4>1, <4>3
      <4>5. m \in Nat /\ (\A k \in 1 .. m : k \in Items) /\ \A i \in Items : Begun(i) <=> i <= m
        BY <2>3, <4>3 DEF T
      <4>6. \A k \in DOMAIN answer' : answer'[k].kind = "call" => answer'[k].pieces = Pieces
        BY <2>1
      <4>7. QED
        BY <1>1, <3>2, <4>4, <4>5, <4>6, PartsInOrder
    <3>3. CASE api = "chat"
      <4> DEFINE m == Len(order)
      <4>1. /\ m \in Nat /\ order = [i \in 1 .. m |-> i] /\ (\A k \in 1 .. m : k \in Items)
            /\ \A i \in Items : Begun(i) <=> i <= m
        <5>1. /\ order \in Seq(Items) /\ (\A k \in 1 .. Len(order) : order[k] = k)
              /\ \A i \in Items : Begun(i) <=> i <= Len(order)
          BY <1>1, <3>3 DEF StreamTypes, BegunInOrder
        <5>2. QED
          BY <5>1
      <4>2. answer' = PartsOf(order)
        BY <2>1, <3>3 DEF Parts, ChatParts
      <4> HIDE DEF m
      <4>3. answer' = PartsOf([i \in 1 .. m |-> i])
        BY <4>1, <4>2
      <4>4. \A k \in DOMAIN answer' : answer'[k].kind = "call" => answer'[k].pieces = Pieces
        BY <2>1
      <4>5. QED
        BY <1>1, <3>3, <4>1, <4>3, <4>4, PartsInOrder
    <3>4. QED
      BY <1>1, <3>1, <3>2, <3>3 DEF StreamTypes
  <2>5. StreamTypes'
    BY <1>1, <2>1, <2>3 DEF StreamTypes, Stages, Whole
  <2>6. BegunInOrder'
    BY <1>1, <2>3 DEF BegunInOrder, Begun
  <2>7. \A i \in Items : Followed(i)' /\ IsAnnounced(i)'
    <3> SUFFICES ASSUME NEW i \in Items PROVE Followed(i)' /\ IsAnnounced(i)'
      OBVIOUS
    <3>1. Sent(i)' = Sent(i) /\ Followed(i) /\ IsAnnounced(i)
      BY <1>1 DEF Sent
    <3>2. Followed(i)'
      BY <1>1, <2>1, <3>1 DEF Followed
    <3>3. QED
      BY <1>1, <3>1, <3>2 DEF IsAnnounced
  <2>8. QED
    BY <1>1, <2>1, <2>3, <2>4, <2>5, <2>6, <2>7 DEF StreamInvariant
<1>4. QED
  BY <1>2, <1>3

\* The connection is closed, and calls of the chat protocol are published.
LEMMA CloseStreamKeeps ==
    ASSUME StreamInvariant, CloseStream
    PROVE  StreamInvariant'
<1>1. /\ UNCHANGED <<api, meant, stage, server, item, order, repeats, token, answer>>
      /\ outcome = "closing" /\ StreamTypes /\ BegunInOrder /\ Answered /\ server # "streaming"
      /\ \A i \in Items : Followed(i) /\ IsAnnounced(i)
  BY DEF CloseStream, StreamInvariant
<1>2. CASE UNCHANGED <<shown, announced>> /\ outcome' = "failed"
  <2>1. /\ server' \in {"streaming", "complete", "length", "gone"} /\ repeats' \in Nat
        /\ token' \in BOOLEAN
    BY <1>1 DEF StreamTypes
  <2>2. QED
    BY <1>1, <1>2, <2>1, SameStream
<1>3. CASE PublishCalls /\ outcome' \in {"cancelled", "completed"}
  <2>1. Items' = Items
    BY <1>1 DEF Items
  <2>2. /\ shown' \in [Items -> 0 .. Pieces]
        /\ announced' \in [Items -> {"nothing", "started", "completed"}]
        /\ \A i \in Items : meant[i] # "call" \/ api # "chat"
             => shown'[i] = shown[i] /\ announced'[i] = announced[i]
        /\ \A i \in Items : meant[i] = "call" /\ api = "chat"
             => shown'[i] = item[i].pieces /\ (item[i].pieces > 0 => announced'[i] = "completed")
    BY <1>1, <1>3 DEF PublishCalls, StreamTypes
  <2>3. StreamTypes'
    BY <1>1, <1>3, <2>1, <2>2, SMTT(60) DEF StreamTypes, Stages, Whole
  <2>4. BegunInOrder'
    BY <1>1, <2>1 DEF BegunInOrder, Begun
  <2>5. \A i \in Items : Followed(i)' /\ IsAnnounced(i)'
    <3> SUFFICES ASSUME NEW i \in Items PROVE Followed(i)' /\ IsAnnounced(i)'
      OBVIOUS
    <3>1. Sent(i)' = Sent(i) /\ Followed(i) /\ IsAnnounced(i)
      BY <1>1 DEF Sent
    <3>2. Followed(i)'
      BY <1>1, <1>3, <2>2, <3>1 DEF Followed
    <3>3. QED
      BY <1>1, <2>2, <3>1, <3>2 DEF IsAnnounced
  <2>6. Published'
    <3> SUFFICES ASSUME api = "chat", NEW k \in DOMAIN answer, meant[k] = "call"
                 PROVE  shown'[k] = Sent(k)' /\ announced'[k] = "completed"
      BY <1>1 DEF Published
    <3>1. k \in Items /\ answer[k].pieces = Sent(k) /\ Sent(k) = Pieces
      BY <1>1 DEF Answered
    <3>2. item[k].pieces = Sent(k) /\ Sent(k)' = Sent(k) /\ Pieces > 0
      BY <1>1, <3>1, StreamAssumption DEF Followed, Sent
    <3>3. QED
      BY <2>2, <3>1, <3>2
  <2>7. Answered'
    BY <1>1, <2>1 DEF Answered, Begun, Sent
  <2>8. QED
    BY <1>1, <1>3, <2>1, <2>3, <2>4, <2>5, <2>6, <2>7 DEF StreamInvariant
<1>4. QED
  BY <1>2, <1>3 DEF CloseStream

\* Every step of a stream.
LEMMA StreamStep == StreamInvariant /\ [StreamNext]_streamVars => StreamInvariant'
<1> SUFFICES ASSUME StreamInvariant, [StreamNext]_streamVars PROVE StreamInvariant'
  OBVIOUS
<1>0. StreamTypes
  BY DEF StreamInvariant
<1>1. CASE UNCHANGED streamVars
  BY <1>0, <1>1, SameStream DEF streamVars, StreamTypes
<1>2. ASSUME NEW i \in Items, Repeat(i) PROVE StreamInvariant'
  <2>1. repeats' \in Nat /\ token' = token
    BY <1>0, <1>2 DEF Repeat, StreamTypes
  <2>2. UNCHANGED <<api, meant, stage, server, item, order, shown, announced, outcome, answer>>
    BY <1>2 DEF Repeat
  <2>3. QED
    BY <1>0, <2>1, <2>2, SameStream DEF StreamTypes
<1>3. ASSUME NEW i \in Items, NEW t \in 1 .. Whole, ReceiveFrame(i, t) PROVE StreamInvariant'
  BY <1>0, <1>3, ResponsesFrame, MessagesFrame, ChatFrame DEF StreamTypes
<1>4. ASSUME NEW how \in {"complete", "length"}, Terminal(how) PROVE StreamInvariant'
  BY <1>4, TerminalKeeps
<1>5. CASE Break
  BY <1>0, <1>5, SameStream DEF Break, StreamTypes
<1>6. CASE CancelAttempt
  BY <1>0, <1>6, SameStream DEF CancelAttempt, StreamTypes
<1>7. CASE StopListening
  BY <1>0, <1>7, SameStream DEF StopListening, StreamTypes
<1>8. QED
  BY <1>1, <1>2, <1>3, <1>4, <1>5, <1>6, <1>7, EndOfStreamKeeps, CloseStreamKeeps DEF StreamNext

\* The invariant says of a committed message what is claimed.
LEMMA MeantFollows == StreamInvariant => CommittedIsMeant
<1> SUFFICES ASSUME StreamInvariant, outcome = "completed"
             PROVE  /\ {i \in Items : Begun(i)} \subseteq DOMAIN answer
                    /\ \A k \in DOMAIN answer :
                         /\ answer[k].kind = meant[k]
                         /\ answer[k].pieces = Pieces \/ (meant[k] # "call" /\ answer[k].pieces = Sent(k))
                         /\ shown[k] \in {0, answer[k].pieces}
                         /\ meant[k] = "call" /\ (api = "chat" \/ stage[k] = Whole) => announced[k] = "completed"
  BY DEF CommittedIsMeant
<1>1. /\ StreamTypes /\ Answered /\ Published /\ (api = "responses" => server # "streaming")
      /\ \A i \in Items : Followed(i) /\ IsAnnounced(i)
  BY DEF StreamInvariant
<1>2. {i \in Items : Begun(i)} \subseteq DOMAIN answer
  BY <1>1 DEF Answered
<1>3. ASSUME NEW k \in DOMAIN answer
      PROVE  /\ answer[k].kind = meant[k]
             /\ answer[k].pieces = Pieces \/ (meant[k] # "call" /\ answer[k].pieces = Sent(k))
  BY <1>1 DEF Answered
<1>4. ASSUME NEW k \in DOMAIN answer PROVE shown[k] \in {0, answer[k].pieces}
  <2>1. /\ k \in Items /\ Followed(k) /\ stage[k] \in Nat
        /\ IF api = "responses" THEN answer[k].pieces = Pieces ELSE answer[k].pieces = Sent(k)
    BY <1>1 DEF Answered, StreamTypes, Stages
  <2>2. CASE api = "responses"
    <3>1. /\ stage[k] <= Pieces + 1 => shown[k] = Sent(k)
          /\ stage[k] > Pieces + 1 => shown[k] \in {0, Pieces}
          /\ Sent(k) \in {0, Pieces}
      BY <1>1, <2>1, <2>2 DEF Followed
    <3>2. Pieces \in Nat
      BY StreamAssumption
    <3>3. QED
      BY <2>1, <2>2, <3>1, <3>2
  <2>3. CASE api # "responses"
    BY <1>1, <2>1, <2>3 DEF Followed, Published, StreamTypes
  <2>4. QED
    BY <2>2, <2>3
<1>5. ASSUME NEW k \in DOMAIN answer, meant[k] = "call", api = "chat" \/ stage[k] = Whole
      PROVE  announced[k] = "completed"
  <2>1. k \in Items /\ IsAnnounced(k)
    BY <1>1 DEF Answered
  <2>2. QED
    BY <1>1, <1>5, <2>1 DEF Published, IsAnnounced
<1>6. QED
  BY <1>2, <1>3, <1>4, <1>5

(* A committed message is the one the server had in mind, with all its calls
   whole, and what was shown of it is what was committed. *)
THEOREM AnswersAreMeant == StreamSpec => []CommittedIsMeant
<1>1. StreamInit => StreamInvariant
  BY StreamInitial
<1>2. StreamInvariant /\ [StreamNext]_streamVars => StreamInvariant'
  BY StreamStep
<1>3. StreamInvariant => CommittedIsMeant
  BY MeantFollows
<1>4. QED
  BY <1>1, <1>2, <1>3, PTL DEF StreamSpec

----------------------------------------------------------------------------
(* Instructions.  What the invariant adds: the state that is kept is the       *)
(* latest one, no request had a later epoch, and those of its epoch had its    *)
(* prefix.  Nothing is needed of what the files hold or how they are gathered. *)
IsLatest(w) ==
  /\ w.epoch \in Nat /\ w.epoch # 0 /\ w.prefix # NoPrefix
  /\ \A x \in named : x.epoch \in Nat /\ x.epoch <= w.epoch /\ (x.epoch = w.epoch => x.prefix = w.prefix)

InstructionInvariant ==
  /\ losses \in Nat /\ life \in {"none", "open", "closed"}
  /\ losses = 0 =>
       /\ life = "none" => named = {} /\ ~due
       /\ life = "open" => IsLatest(working) /\ (due \/ saved = working)
       /\ life = "closed" => IsLatest(saved) /\ ~due
       /\ EpochNamesPrefix

LEMMA InstructionInitial == InstructionInit => InstructionInvariant
BY DEF InstructionInit, InstructionInvariant, EpochNamesPrefix

\* Building on the latest state makes the latest one, also of the request's.
LEMMA RebuiltIsLatest ==
  ASSUME NEW w, NEW dirs, IsLatest(w), EpochNamesPrefix, losses = 0, losses' = 0, NEW now,
         now = Rebuild(dirs, w), Named(now)
  PROVE  /\ now.epoch \in Nat /\ now.epoch # 0 /\ now.prefix # NoPrefix
         /\ \A x \in named' : x.epoch \in Nat /\ x.epoch <= now.epoch /\ (x.epoch = now.epoch => x.prefix = now.prefix)
         /\ EpochNamesPrefix'
<1>1. PICK found : /\ now.prefix = found /\ found # NoPrefix
                   /\ now.epoch = w.epoch + (IF w.prefix = found THEN 0 ELSE 1)
  BY DEF Rebuild, AtLeastOne, IsLatest, NoPrefix
<1>2. named' = named \cup {[epoch |-> now.epoch, prefix |-> now.prefix]}
  BY DEF Named
<1>3. /\ now.epoch \in Nat /\ now.epoch # 0
      /\ \A x \in named : x.epoch \in Nat /\ x.epoch <= now.epoch /\ (x.epoch = now.epoch => x.prefix = now.prefix)
  BY <1>1 DEF IsLatest
<1>4. EpochNamesPrefix'
  BY <1>2, <1>3 DEF EpochNamesPrefix
<1>5. QED
  BY <1>1, <1>2, <1>3, <1>4

LEMMA InstructionStep == InstructionInvariant /\ [InstructionNext]_instructionVars => InstructionInvariant'
<1> SUFFICES ASSUME InstructionInvariant, [InstructionNext]_instructionVars
             PROVE  InstructionInvariant'
  OBVIOUS
<1>1. CASE CreateInstructions
  <2> DEFINE made == Rebuild({}, Blank)
  <2>1. /\ working' = made /\ saved' = made /\ Named(made) /\ life = "none" /\ life' = "open"
        /\ due' = due /\ losses' = losses
    BY <1>1 DEF CreateInstructions, Install
  <2>2. made.epoch = 1 /\ made.prefix # NoPrefix
    BY DEF Rebuild, AtLeastOne, Blank, NoPrefix
  <2> HIDE DEF made
  <2>3. ASSUME losses = 0
        PROVE  named' = {[epoch |-> made.epoch, prefix |-> made.prefix]}
    BY <2>1, <2>3 DEF InstructionInvariant, Named
  <2>4. losses = 0 => IsLatest(working)' /\ EpochNamesPrefix'
    BY <2>1, <2>2, <2>3 DEF IsLatest, EpochNamesPrefix, NoPrefix
  <2>5. QED
    BY <2>1, <2>4 DEF InstructionInvariant
<1>2. ASSUME NEW d \in Directories \cup {"project"}, Touch(d)
      PROVE  InstructionInvariant'
  <2> DEFINE now == Rebuild(working.dirs \cup Around(d), working)
  <2>1. life = "open" /\ life' = "open" /\ working' = now /\ Named(now) /\ due' = TRUE /\ losses' = losses
    BY <1>2 DEF Touch
  <2>2. losses = 0 => IsLatest(working)' /\ EpochNamesPrefix'
    <3> SUFFICES ASSUME losses = 0
                 PROVE  IsLatest(working)' /\ EpochNamesPrefix'
      OBVIOUS
    <3>1. IsLatest(working) /\ EpochNamesPrefix
      BY <2>1 DEF InstructionInvariant
    <3> HIDE DEF now
    <3>2. now = Rebuild(working.dirs \cup Around(d), working)
      BY DEF now
    <3>3. QED
      BY <2>1, <3>1, <3>2, RebuiltIsLatest DEF IsLatest, NoPrefix
  <2> HIDE DEF now
  <2>3. QED
    BY <2>1, <2>2 DEF InstructionInvariant
<1>3. CASE SaveInstructions
  BY <1>3 DEF SaveInstructions, Lose, InstructionInvariant, IsLatest, NoPrefix, EpochNamesPrefix
<1>4. CASE Recover
  <2> DEFINE now == Rebuild(saved.dirs, saved)
  <2>1. /\ life # "none" /\ ~due /\ life' = "open" /\ working' = now /\ saved' = now /\ Named(now)
        /\ due' = due /\ losses' = losses
    BY <1>4 DEF Recover, Install
  <2>2. losses = 0 => IsLatest(working)' /\ EpochNamesPrefix'
    <3> SUFFICES ASSUME losses = 0
                 PROVE  IsLatest(working)' /\ EpochNamesPrefix'
      OBVIOUS
    <3>1. IsLatest(saved) /\ EpochNamesPrefix
      BY <2>1 DEF InstructionInvariant
    <3> HIDE DEF now
    <3>2. now = Rebuild(saved.dirs, saved)
      BY DEF now
    <3>3. QED
      BY <2>1, <3>1, <3>2, RebuiltIsLatest DEF IsLatest, NoPrefix
  <2> HIDE DEF now
  <2>3. QED
    BY <2>1, <2>2 DEF InstructionInvariant
<1>5. CASE CloseInstructions
  BY <1>5 DEF CloseInstructions, InstructionInvariant, IsLatest, NoPrefix, EpochNamesPrefix
<1>6. CASE LoseProcess
  BY <1>6 DEF LoseProcess, Lose, InstructionInvariant
<1>7. ASSUME NEW f \in Sources, NEW content, EditSource(f, content)
      PROVE  InstructionInvariant'
  BY <1>7 DEF EditSource, InstructionInvariant, IsLatest, NoPrefix, EpochNamesPrefix
<1>8. CASE UNCHANGED instructionVars
  BY <1>8 DEF instructionVars, InstructionInvariant, IsLatest, NoPrefix, EpochNamesPrefix
<1>9. QED
  BY <1>1, <1>2, <1>3, <1>4, <1>5, <1>6, <1>7, <1>8 DEF InstructionNext

(* As long as every state was saved, no two requests of a Session have
   different instructions under one epoch, whichever directories were touched,
   files edited, and however often it was closed and resumed in between. *)
THEOREM EpochsAreNames == InstructionSpec => []EpochNamesPrefix
<1>1. InstructionInvariant => EpochNamesPrefix
  BY DEF InstructionInvariant, EpochNamesPrefix
<1>2. QED
  BY <1>1, InstructionInitial, InstructionStep, PTL DEF InstructionSpec
=============================================================================
