--------------------------- MODULE ModelSelection ---------------------------
(* Which model an Application talks to (application/generation.py): chosen by  *)
(* the user, remembered by every Session and, as the default, by the user's    *)
(* configuration; replaced when a Session is created or resumed, and rebuilt   *)
(* when the configuration is reloaded.                                         *)
(*                                                                             *)
(* Every change first awaits the Provider's limits and then commits in one     *)
(* step.  The Desktop lets a switch that deals with the images of a Session    *)
(* run in the background, while Turns, settings and Session commands go on;    *)
(* all other requests are served one after the other.                          *)
EXTENDS Naturals, FiniteSets

CONSTANTS Models, Vision,              \* Vision: those that take images
          Chats, NoChat,               \* Sessions
          MaxCommits, MaxImages, MaxReloads, MaxSetbacks   \* bounds

ASSUME SelectionAssumption ==
  /\ Vision \subseteq Models /\ NoChat \notin Chats
  /\ {MaxCommits, MaxImages, MaxReloads, MaxSetbacks} \subseteq Nat

VARIABLES
  reloads,     \* the configuration in memory, numbered
  provider,    \* the Provider object: for which model, from which configuration
  model,       \* _current_model_ref
  preferred,   \* _default_model_ref
  written,     \* the default in the user's configuration file
  chatModel,   \* model_ref of each Session; NoChat: not created
  here,        \* the active Session
  commits,     \* _model_state_generation
  budget,      \* the Provider object whose limits the Context uses
  images,      \* messages with images that no summary covers, per Session
  running,     \* a Turn of the Application is active
  job,         \* the background switch and the request in the foreground
  adrift,      \* a known failure has separated the model from the Session's
  setbacks     \* faults so far (bounded)

selectionVars == <<reloads, provider, model, preferred, written, chatModel, here, commits,
                   budget, images, running, job, adrift, setbacks>>

identity == <<provider, model, preferred, commits, budget>>

Jobs == {"front", "back"}
NoJob == [kind |-> "none"]
Built(m) == [model |-> m, config |-> reloads]

SelectionInit ==
  /\ reloads = 0 /\ running = FALSE /\ adrift = FALSE /\ setbacks = 0
  /\ \E m \in Models : model = m /\ preferred = m /\ written = m
  /\ provider = Built(model) /\ budget = provider /\ commits = 0
  /\ chatModel = [c \in Chats |-> NoChat] /\ here = NoChat
  /\ images = [c \in Chats |-> 0]
  /\ job = [j \in Jobs |-> NoJob]

FrontIdle == job["front"] = NoJob
Ended(j) == job' = [job EXCEPT ![j] = NoJob]
Setback == setbacks < MaxSetbacks /\ setbacks' = setbacks + 1

(* The Context's budget for the current identity; the code awaits the limits   *)
(* and asks again if the identity has changed meanwhile.                       *)
RefreshContext == budget' = provider

----------------------------------------------------------------------------
(* _commit_model_selection of a user's choice: the file, the Session and the   *)
(* memory, in this order; a failure puts everything back.  A second failure    *)
(* while putting back is not modelled.                                         *)
Adopt(cand, chat) ==
  /\ commits < MaxCommits /\ commits' = commits + 1
  /\ provider' = cand /\ budget' = cand /\ model' = cand.model
  /\ preferred' = cand.model /\ written' = cand.model
  /\ chatModel' = IF chat = NoChat THEN chatModel ELSE [chatModel EXCEPT ![chat] = cand.model]
  /\ adrift' = (adrift /\ chat = NoChat)
  /\ UNCHANGED setbacks

RollBack ==
  /\ Setback
  /\ written' \in {written, model}    \* nothing written yet, or old_model_ref written back
  /\ UNCHANGED <<identity, chatModel, adrift>>

CommitChoice(cand) == Adopt(cand, here) \/ RollBack

----------------------------------------------------------------------------
(* select_model_async: what is read before the first await.                   *)
Handlings == {"refuse", "placeholder", "summarize"}

Uncovered == IF here = NoChat THEN 0 ELSE images[here]

Handled(m, handling) ==                  \* the choice may go on
  \/ m \in Vision \/ Uncovered = 0
  \/ handling = "placeholder"
  \/ handling = "summarize" /\ model \in Vision

StartSwitch(j, m, handling) ==
  /\ FrontIdle /\ ~running /\ job[j] = NoJob
  /\ IF j = "front" THEN handling = "refuse" ELSE handling # "refuse" /\ here # NoChat
  /\ Handled(m, handling)
  /\ job' = [job EXCEPT ![j] =
       [kind |-> "switch", at |-> "limits", cand |-> Built(m), chat |-> here, seen |-> commits,
        cover |-> IF m \notin Vision /\ handling = "summarize" THEN Uncovered ELSE 0]]
  /\ UNCHANGED <<reloads, identity, written, chatModel, here, images, running, adrift, setbacks>>

Unchanged(j) == commits = job[j].seen /\ here = job[j].chat

(* After the last await everything is compared again and committed at once.   *)
CommitSwitch(j) ==
  /\ job[j].kind = "switch"
  /\ \/ job[j].at = "limits" /\ job[j].cover = 0 /\ UNCHANGED images
     \/ job[j].at = "summary" /\ images' = [images EXCEPT ![job[j].chat] = @ - job[j].cover]
  /\ Unchanged(j)
  /\ CommitChoice(job[j].cand)
  /\ Ended(j)
  /\ UNCHANGED <<reloads, here, running>>

LimitsForSummary(j) ==
  /\ job[j].kind = "switch" /\ job[j].at = "limits" /\ job[j].cover > 0
  /\ Unchanged(j)
  /\ job' = [job EXCEPT ![j].at = "summary"]
  /\ UNCHANGED <<reloads, identity, written, chatModel, here, images, running, adrift, setbacks>>

(* Cancelled, failed, or overtaken; a summary that was finished stays.        *)
AbandonSwitch(j) ==
  /\ job[j].kind = "switch"
  /\ \/ UNCHANGED images
     \/ job[j].at = "summary" /\ images' = [images EXCEPT ![job[j].chat] = @ - job[j].cover]
  /\ Ended(j)
  /\ UNCHANGED <<reloads, identity, written, chatModel, here, running, adrift, setbacks>>

----------------------------------------------------------------------------
(* new_session_for_command_async: the default's limits are awaited, then the   *)
(* Session is created with the default of that moment.                         *)
Captured == [provider |-> provider, model |-> model, preferred |-> preferred,
             commits |-> commits, budget |-> budget]

StartNew ==
  /\ FrontIdle /\ ~running
  /\ job' = [job EXCEPT !["front"] =
       [kind |-> "new", old |-> Captured,
        cand |-> IF preferred # model THEN Built(preferred) ELSE provider]]
  /\ UNCHANGED <<reloads, identity, written, chatModel, here, images, running, adrift, setbacks>>

CreateSession(c) ==
  LET old == job["front"].old
      cand == job["front"].cand
      replaced == old.preferred # old.model
  IN
  /\ job["front"].kind = "new" /\ chatModel[c] = NoChat
  /\ chatModel' = [chatModel EXCEPT ![c] = preferred] /\ here' = c
  /\ budget' = cand
  /\ IF replaced
     THEN /\ commits < MaxCommits /\ commits' = commits + 1
          /\ provider' = cand /\ model' = cand.model
     ELSE UNCHANGED <<provider, model, commits>>
  /\ adrift' = (commits # old.commits)         \* a switch was committed meanwhile
  /\ Ended("front")
  /\ UNCHANGED <<reloads, preferred, written, images, running, setbacks>>

(* _rollback_new_session puts back what was captured before the await.        *)
FailNew ==
  LET old == job["front"].old IN
  /\ job["front"].kind = "new" /\ Setback
  /\ provider' = old.provider /\ model' = old.model /\ preferred' = old.preferred
  /\ commits' = old.commits /\ budget' = old.budget
  /\ adrift' = (adrift \/ commits # old.commits)
  /\ Ended("front")
  /\ UNCHANGED <<reloads, written, chatModel, here, images, running>>

----------------------------------------------------------------------------
(* resume_session_for_command_async: the Session's model is tried out, the     *)
(* Session opened in a thread, and its model adopted after another await.      *)
StartResume(c) ==
  /\ FrontIdle /\ ~running /\ chatModel[c] # NoChat /\ c # here
  /\ job' = [job EXCEPT !["front"] = [kind |-> "resume", at |-> "preflight", chat |-> c]]
  /\ UNCHANGED <<reloads, identity, written, chatModel, here, images, running, adrift, setbacks>>

FailPreflight ==                               \* nothing has changed yet
  /\ job["front"].kind = "resume" /\ job["front"].at = "preflight" /\ Setback
  /\ Ended("front")
  /\ UNCHANGED <<reloads, identity, written, chatModel, here, images, running, adrift>>

OpenSession ==
  LET c == job["front"].chat IN
  /\ job["front"].kind = "resume" /\ job["front"].at = "preflight"
  /\ here' = c
  /\ adrift' = (model # chatModel[c])          \* until its model is adopted
  /\ IF model = chatModel[c]
     THEN Ended("front") /\ RefreshContext
     ELSE job' = [job EXCEPT !["front"].at = "restore"] /\ UNCHANGED budget
  /\ UNCHANGED <<reloads, provider, model, preferred, commits, written, chatModel, images, running, setbacks>>

RestoreModel ==
  LET m == chatModel[here] IN
  /\ job["front"].kind = "resume" /\ job["front"].at = "restore"
  /\ commits < MaxCommits /\ commits' = commits + 1
  /\ provider' = Built(m) /\ budget' = Built(m) /\ model' = m
  /\ adrift' = FALSE
  /\ Ended("front")
  /\ UNCHANGED <<reloads, preferred, written, chatModel, here, images, running, setbacks>>

FailRestore ==                                 \* the Session stays open all the same
  /\ job["front"].kind = "resume" /\ job["front"].at = "restore" /\ Setback
  /\ Ended("front")
  /\ UNCHANGED <<reloads, identity, written, chatModel, here, images, running, adrift>>

----------------------------------------------------------------------------
(* settings.save and reload_configuration of an Application that is not busy;  *)
(* a model switch in the background does not count as busy.                    *)
ReloadKeepsBudget(default) ==        \* the limits stay those of the old Provider
  LET m == IF here # NoChat THEN model ELSE default IN
  /\ FrontIdle /\ ~running /\ reloads < MaxReloads
  /\ reloads' = reloads + 1
  /\ written' = default /\ preferred' = default /\ model' = m
  /\ provider' = [model |-> m, config |-> reloads + 1] /\ UNCHANGED budget
  /\ UNCHANGED <<commits, chatModel, here, images, running, job, adrift, setbacks>>

ReloadConfiguration(default) ==
  LET m == IF here # NoChat THEN model ELSE default IN
  /\ FrontIdle /\ ~running /\ reloads < MaxReloads
  /\ reloads' = reloads + 1
  /\ written' = default /\ preferred' = default /\ model' = m
  /\ provider' = [model |-> m, config |-> reloads + 1] /\ budget' = provider'
  /\ UNCHANGED <<commits, chatModel, here, images, running, job, adrift, setbacks>>

(* A Turn; its images were accepted by _preflight_user_input.                 *)
StartTurn(image) ==
  /\ FrontIdle /\ ~running /\ here # NoChat
  /\ image => model \in Vision /\ images[here] < MaxImages
  /\ running' = TRUE
  /\ images' = IF image THEN [images EXCEPT ![here] = @ + 1] ELSE images
  /\ UNCHANGED <<reloads, identity, written, chatModel, here, job, adrift, setbacks>>

EndTurn ==
  /\ running /\ running' = FALSE
  /\ UNCHANGED <<reloads, identity, written, chatModel, here, images, job, adrift, setbacks>>

SelectionNext ==
  \/ StartNew \/ FailNew \/ OpenSession \/ FailPreflight \/ RestoreModel \/ FailRestore \/ EndTurn
  \/ \E c \in Chats : CreateSession(c) \/ StartResume(c)
  \/ \E j \in Jobs :
       \/ CommitSwitch(j) \/ LimitsForSummary(j) \/ AbandonSwitch(j)
       \/ \E m \in Models, h \in Handlings : StartSwitch(j, m, h)
  \/ \E m \in Models : ReloadConfiguration(m)
  \/ \E image \in BOOLEAN : StartTurn(image)

SelectionSpec == SelectionInit /\ [][SelectionNext]_selectionVars

----------------------------------------------------------------------------
(* The model, its Provider and the Context's limits belong together and to the *)
(* active Session, except after the two known failures that adrift records.    *)
ModelIsTheSessions ==
  /\ provider.model = model
  /\ ~adrift => budget = provider /\ (here # NoChat => chatModel[here] = model)

(* A switch that fails leaves the default in the user's file as it was.       *)
FailureKeepsDefault == [][setbacks' > setbacks => written' = written]_selectionVars
=============================================================================
