------------------------- MODULE InstructionScopes -------------------------
(* The instructions an Agent works under: the InstructionLoader of an          *)
(* Application (application/instructions.py) reads the AGENTS.md of the user,   *)
(* of the project and of every directory a tool has touched, and the files     *)
(* they include (integrations/instruction_files.py).  What it found is the     *)
(* stable prefix of every request; its epoch names it, and is kept with the    *)
(* directories in the Session's metadata (application/sessions.py).            *)
(* The life of one Session, while the files change at any time.                *)
EXTENDS Naturals, Sequences, FiniteSets
LOCAL INSTANCE SequencesExt

CONSTANTS Directories, Outer,      \* below the project root; what encloses each
          Rank,                    \* by depth, then by name
          FirstSources, MayHold,   \* what each file holds at first, and over time
          Elsewhere,               \* an include that is not below its file
          MaxReferences, MaxEdits, MaxLosses

Scopes == {"user", "project"} \cup Directories
Sources == DOMAIN MayHold

ASSUME InstructionAssumption ==
  /\ Outer \in [Directories -> Directories \cup {"project"}] /\ Scopes \subseteq Sources
  /\ MaxReferences > 0

VARIABLES
  sources,      \* the files: how they can be read, their text and includes
  working,      \* the InstructionLoader: directories, epoch and prefix
  saved,        \* instruction_state of the Session's metadata
  life,         \* the Session: "none", "open", "closed"
  due,          \* an append that will save the state is yet to come
  named,        \* history: the prefixes requests were made with, and their epochs
  edits, losses

instructionVars == <<sources, working, saved, life, due, named, edits, losses>>

----------------------------------------------------------------------------
(* _load_file: depth first, each file once and at most MaxReferences of them   *)
(* by inclusion, for which a file that is not there, a cycle, the limit and a  *)
(* path that leads elsewhere are errors.                                       *)
Empty == [blocks |-> <<>>, included |-> {}, wrong |-> FALSE]
FilesOf(g) == {g.blocks[k].file : k \in DOMAIN g.blocks}
Failure(g) == [g EXCEPT !.wrong = TRUE]

Contents == {FirstSources[f] : f \in Sources} \cup UNION {MayHold[f] : f \in Sources}
Gathered ==
  [blocks : Seq([file : Sources, scope : Scopes, text : Contents]), included : SUBSET Sources, wrong : BOOLEAN]
LoadFile[g \in Gathered, f \in Sources, scope \in Scopes, stack \in SUBSET Sources] ==
  IF f \in FilesOf(g) THEN g
  ELSE IF sources[f].read # "text" THEN IF sources[f].read = "missing" /\ stack = {} THEN g ELSE Failure(g)
  ELSE LET Include(h, r) ==
             IF r = Elsewhere THEN Failure(h)
             ELSE IF r \in FilesOf(h) \cup h.included THEN IF r \in stack \cup {f} THEN Failure(h) ELSE h
             ELSE IF Cardinality(h.included) >= MaxReferences THEN Failure(h)
             ELSE LoadFile[[h EXCEPT !.included = @ \cup {r}], r, scope, stack \cup {f}]
       IN FoldLeft(Include,
            [g EXCEPT !.blocks = Append(@, [file |-> f, scope |-> scope, text |-> sources[f]])], sources[f].refs)

(* _directory_chain, broad to narrow.                                          *)
DirectoryChain(dirs) == SetToSortSeq(dirs, LAMBDA d, e : Rank[d] < Rank[e])
Gather(dirs) ==
  FoldLeft(LAMBDA g, s : LoadFile[g, s, s, {}], Empty, <<"user", "project">> \o DirectoryChain(dirs))

(* _rebuild: the epoch advances when the prefix is another one than before.    *)
NoPrefix == {}                              \* no blocks were kept yet
Blank == [dirs |-> {}, epoch |-> 0, prefix |-> NoPrefix]
AtLeastOne(n) == IF n = 0 THEN 1 ELSE n
RebuildForgetting(dirs, before) ==         \* compares with nothing
  [dirs |-> dirs, prefix |-> {Gather(dirs).blocks}, epoch |-> AtLeastOne(before.epoch)]
Rebuild(dirs, before) ==
  LET found == {Gather(dirs).blocks} IN
  [dirs |-> dirs, prefix |-> found,
   epoch |-> AtLeastOne(before.epoch) + IF before.prefix \in {NoPrefix, found} THEN 0 ELSE 1]

Named(w) == named' = named \cup {[epoch |-> w.epoch, prefix |-> w.prefix]}
Install(w) == working' = w /\ saved' = w /\ Named(w)

----------------------------------------------------------------------------
(* The Session.  Creating and resuming it are strict: one wrong file, and      *)
(* nothing happens.  A tool that touches a path is not: it works with what     *)
(* could be read (load_for_path).                                              *)
CreateInstructions ==
  /\ life = "none" /\ ~Gather({}).wrong
  /\ Install(Rebuild({}, Blank)) /\ life' = "open"
  /\ UNCHANGED <<sources, due, edits, losses>>

Around(d) ==
  LET enclosing[e \in Directories \cup {"project"}] ==
        IF e = "project" THEN {} ELSE {e} \cup enclosing[Outer[e]]
  IN enclosing[d]
Touch(d) ==
  /\ life = "open"
  /\ LET now == Rebuild(working.dirs \cup Around(d), working) IN working' = now /\ Named(now)
  /\ due' = TRUE
  /\ UNCHANGED <<sources, saved, life, edits, losses>>

Lose == losses < MaxLosses /\ losses' = losses + 1
SaveInstructions ==                        \* with the next append, which may fail
  /\ due /\ due' = FALSE
  /\ \/ saved' = working /\ UNCHANGED losses
     \/ Lose /\ UNCHANGED saved
  /\ UNCHANGED <<sources, working, life, named, edits>>

Recover ==                                 \* of a closed Session, or of the open one again
  /\ life # "none" /\ ~due
  /\ ~Gather(saved.dirs).wrong /\ Install(Rebuild(saved.dirs, saved)) /\ life' = "open"
  /\ UNCHANGED <<sources, due, edits, losses>>

CloseInstructions ==                       \* saves nothing once the writer has failed
  /\ life = "open" /\ ~due
  /\ saved' = working \/ (losses > 0 /\ UNCHANGED saved)
  /\ life' = "closed" /\ working' = Blank
  /\ UNCHANGED <<sources, due, named, edits, losses>>
LoseProcess ==
  /\ life = "open" /\ Lose
  /\ life' = "closed" /\ working' = Blank /\ due' = FALSE
  /\ UNCHANGED <<sources, saved, named, edits>>

EditSource(f, content) ==
  /\ edits < MaxEdits /\ content # sources[f]
  /\ edits' = edits + 1 /\ sources' = [sources EXCEPT ![f] = content]
  /\ UNCHANGED <<working, saved, life, due, named, losses>>

InstructionInit ==
  /\ sources = FirstSources /\ working = Blank /\ saved = Blank /\ life = "none" /\ due = FALSE /\ named = {}
  /\ edits = 0 /\ losses = 0

InstructionNext ==
  \/ CreateInstructions \/ SaveInstructions \/ Recover \/ CloseInstructions \/ LoseProcess
  \/ \E d \in Directories \cup {"project"} : Touch(d)
  \/ \E f \in Sources : \E content \in MayHold[f] : EditSource(f, content)

InstructionSpec == InstructionInit /\ [][InstructionNext]_instructionVars

----------------------------------------------------------------------------
(* The epoch names the prefix: as long as every state was saved, no two        *)
(* requests of a Session, before and after it was resumed, have different      *)
(* instructions under one epoch (docs/core-design/A01-AgentRuntime/            *)
(* 03-系统指令权威链路.md, sections on epoch and on lazy activation).            *)
EpochNamesPrefix ==
  losses = 0 => \A x, y \in named : x.epoch = y.epoch => x.prefix = y.prefix

(* Whatever files include each other: an active directory's own instructions   *)
(* are among the blocks if they can be read, once, behind those of the         *)
(* directories around it unless one of these includes them; and a further      *)
(* directory takes no block away unless the limit of includes is reached.      *)
Position(g, f) == CHOOSE k \in DOMAIN g.blocks : g.blocks[k].file = f
BroadToNarrow == life = "open" =>
  LET g == Gather(working.dirs) IN
  /\ IsInjective([k \in DOMAIN g.blocks |-> g.blocks[k].file])
  /\ \A d \in working.dirs : sources[d].read = "text" =>
       /\ d \in FilesOf(g)
       /\ \A e \in Around(Outer[d]) \cap FilesOf(g) :
            d \notin g.included /\ e \notin g.included => Position(g, e) < Position(g, d)
  /\ \A d \in Directories :
       LET wider == Gather(working.dirs \cup Around(d)) IN
       Cardinality(wider.included) < MaxReferences => FilesOf(g) \subseteq FilesOf(wider)

(* Both: an epoch is one prefix, and the prefix goes from broad to narrow.     *)
EpochIsThePrefix == EpochNamesPrefix /\ BroadToNarrow
=============================================================================
