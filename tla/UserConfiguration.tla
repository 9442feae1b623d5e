-------------------------- MODULE UserConfiguration --------------------------
(* config.toml of the user, saved in parts from the settings (writer.py), and  *)
(* what an Application makes of it together with the config.toml files of the  *)
(* project's directories and the command line (loader.py, configuration.py).   *)
(* A section is a function from names to profiles; a field that is not there   *)
(* is Absent; an endpoint stands for a Provider's kind and base_url.  Of the   *)
(* limits of the tools there is the timeout, which need not be given, and one  *)
(* in bytes, which has a default; of the search whether it is on and a limit.  *)
EXTENDS Naturals, Sequences

CONSTANTS FirstFile,       \* the user's file at first
          Payloads,        \* what the settings may send
          Chains,          \* the project files found from the root to the directory
          Selections,         \* models named on the command line, or Absent
          Absent, Delete,
          Reasoning,       \* endpoints that take a reasoning_effort
          DefaultLimit, HardLimit   \* a limit that is not given, and the highest

\* A window of a model, or a limit, is a number that may not be given.
Measures == Nat \cup {Absent}
MeasuresAreSound(f) ==
  /\ {"default", "providers", "models", "timeout", "bytes", "search"} \subseteq DOMAIN f
  /\ {f.timeout, f.bytes, f.search.limit} \subseteq Measures
  /\ \A m \in DOMAIN f.models :
       {"provider", "window"} \subseteq DOMAIN f.models[m] /\ f.models[m].window \in Measures
ProjectFiles == UNION {{chain[k] : k \in DOMAIN chain} : chain \in Chains}

ASSUME ConfigurationAssumption ==
  /\ Absent \notin Nat /\ Chains \subseteq Seq(ProjectFiles)
  /\ DefaultLimit \in Nat /\ HardLimit \in Nat /\ DefaultLimit <= HardLimit
  /\ MeasuresAreSound(FirstFile)
  /\ \A p \in Payloads :
       /\ {p.timeout, p.bytes, p.search.limit} \subseteq Measures \cup {Delete}
       /\ \A m \in DOMAIN p.models : p.models[m] = Delete \/ p.models[m].window \in Measures
  /\ \A f \in ProjectFiles :
       /\ {f.timeout, f.bytes, f.search.limit} \subseteq Measures
       /\ \A m \in DOMAIN f.models : f.models[m].window \in Measures

VARIABLES
  file,        \* the user's file
  effective,   \* the configuration of an Application, Absent before it is loaded
  basis        \* history: the user's file it was loaded from

configurationVars == <<file, effective, basis>>

Given(new, old) == IF new = Absent THEN old ELSE new
SetOrDelete(new, old) == IF new = Delete THEN Absent ELSE Given(new, old)
NoProvider == [endpoint |-> Absent, key |-> Absent]
NoSearch == [on |-> Absent, limit |-> Absent]        \* no table, or an empty one
NoModel == [provider |-> Absent, window |-> Absent, images |-> Absent, effort |-> FALSE]
Without(section, names) == [n \in DOMAIN section \ names |-> section[n]]

----------------------------------------------------------------------------
(* What a file of the user says: a profile that is blank is passed over, and   *)
(* the limits get their defaults, those of the search only with its table.     *)
\* _model_tables looks at every field but supports_images.
IsBlank(m) == m.provider = Absent /\ m.window = Absent /\ ~m.effort
Profiles(section) == Without(section, {m \in DOMAIN section : IsBlank(section[m])})
Completed(search) == [on |-> Given(search.on, FALSE), limit |-> Given(search.limit, DefaultLimit)]
AsRead(f) ==
  [default |-> f.default,
   providers |-> Without(f.providers, {p \in DOMAIN f.providers : f.providers[p] = NoProvider}),
   models |-> Profiles(f.models),
   timeout |-> f.timeout, bytes |-> Given(f.bytes, DefaultLimit),
   search |-> IF f.search = NoSearch THEN NoSearch ELSE Completed(f.search)]

(* The checks of a file of the user, before it is written and when it is read. *)
ProviderIsValid(p) == p.endpoint # Absent /\ p.key # Absent
ModelIsValid(m, providers) ==
  /\ m.provider \in DOMAIN providers
  /\ m.effort => providers[m.provider].endpoint \in Reasoning
LimitsAreValid(f) ==
  \A limit \in {f.timeout, f.bytes, f.search.limit} : limit # Absent => limit <= HardLimit
IsValid(config) ==
  /\ \A p \in DOMAIN config.providers : ProviderIsValid(config.providers[p])
  /\ config.default \in DOMAIN config.models
  /\ \A m \in DOMAIN config.models : ModelIsValid(config.models[m], config.providers)
  /\ LimitsAreValid(config)

----------------------------------------------------------------------------
(* _apply_provider_renames: the profiles are taken out under their old names   *)
(* before they are put in under the new ones, and the models follow.           *)
RenamesAreValid(renames, providers) ==
  /\ DOMAIN renames \subseteq DOMAIN providers
  /\ \A p \in DOMAIN renames :
       /\ renames[p] # p /\ renames[p] \notin DOMAIN providers \ DOMAIN renames
       /\ \A q \in DOMAIN renames : renames[p] = renames[q] => p = q
MovedProfiles(renames, providers) ==
  [n \in {renames[p] : p \in DOMAIN renames} |->
     providers[CHOOSE p \in DOMAIN renames : renames[p] = n]]
Rename(renames, providers) ==
  LET moved == MovedProfiles(renames, providers)
      kept == Without(providers, DOMAIN renames)
  IN [n \in DOMAIN moved \cup DOMAIN kept |-> IF n \in DOMAIN moved THEN moved[n] ELSE kept[n]]
NewName(renames, p) == IF p \in DOMAIN renames THEN renames[p] ELSE p
FollowEach(renames, models) ==       \* one rename after the other
  [m \in DOMAIN models |-> [models[m] EXCEPT !.provider = NewName(renames, NewName(renames, @))]]
Follow(renames, models) ==
  [m \in DOMAIN models |-> [models[m] EXCEPT !.provider = NewName(renames, @)]]

(* _apply_providers, _apply_models: a profile that is Delete goes, the fields  *)
(* that are given replace the old ones; a key that is not given stays.         *)
ApplyProviders(requested, providers) ==
  [p \in (DOMAIN requested \cup DOMAIN providers) \ {q \in DOMAIN requested : requested[q] = Delete} |->
     LET old == IF p \in DOMAIN providers THEN providers[p] ELSE NoProvider
     IN IF p \in DOMAIN requested
        THEN [endpoint |-> Given(requested[p].endpoint, old.endpoint), key |-> Given(requested[p].key, old.key)]
        ELSE old]
ApplyModels(requested, models) ==
  [m \in (DOMAIN requested \cup DOMAIN models) \ {n \in DOMAIN requested : requested[n] = Delete} |->
     IF m \in DOMAIN requested
     THEN [provider |-> Given(requested[m].provider, (IF m \in DOMAIN models THEN models[m] ELSE NoModel).provider),
           window |-> requested[m].window, images |-> requested[m].images, effort |-> requested[m].effort]
     ELSE models[m]]

Merged(p) ==
  [default |-> Given(p.default, file.default),
   providers |-> ApplyProviders(p.providers, Rename(p.renames, file.providers)),
   models |-> ApplyModels(p.models, Follow(p.renames, file.models)),
   timeout |-> SetOrDelete(p.timeout, file.timeout), bytes |-> SetOrDelete(p.bytes, file.bytes),
   search |-> [on |-> SetOrDelete(p.search.on, file.search.on), limit |-> SetOrDelete(p.search.limit, file.search.limit)]]
IsAccepted(p) == RenamesAreValid(p.renames, file.providers) /\ IsValid(AsRead(Merged(p)))

(* write_user_config.  What is refused, or fails before the temporary file has *)
(* replaced the old one, leaves the old one.                                   *)
Save(p) ==
  /\ IsAccepted(p)
  /\ file' = Merged(p)
  /\ UNCHANGED <<effective, basis>>

----------------------------------------------------------------------------
(* load_config_data: the project files are laid over the user's in order, and  *)
(* each is compared with the user's own.                                       *)
User == AsRead(file)
UserModel(m) == IF m \in DOMAIN User.models THEN User.models[m] ELSE NoModel
WindowOnlyCompared(m, project) ==
  project.window # Absent /\ UserModel(m).window # Absent => project.window <= UserModel(m).window
WindowIsTighter(m, project) ==
  project.window # Absent => UserModel(m).window # Absent /\ project.window <= UserModel(m).window
ImagesAreNarrower(m, project) == project.images = TRUE => UserModel(m).images = TRUE
\* A limit the user did not give is none a project could pass.
LimitIsTighter(limit, own) == limit # Absent /\ own # Absent => limit <= own
SearchIsTighter(search) ==
  /\ search.on = TRUE => User.search.on = TRUE
  /\ LimitIsTighter(search.limit, User.search.limit)
ProjectIsAccepted(project) ==
  /\ LimitsAreValid(project)
  /\ \A m \in DOMAIN Profiles(project.models) :
       WindowIsTighter(m, project.models[m]) /\ ImagesAreNarrower(m, project.models[m])
  /\ SearchIsTighter(project.search)
  /\ LimitIsTighter(project.timeout, User.timeout) /\ LimitIsTighter(project.bytes, User.bytes)

LayModel(below, above) ==
  [provider |-> Given(above.provider, below.provider), window |-> Given(above.window, below.window),
   images |-> Given(above.images, below.images), effort |-> above.effort \/ below.effort]
Lay(config, project) ==
  [default |-> Given(project.default, config.default),
   providers |-> config.providers,
   models |-> LET above == Profiles(project.models) IN
              [m \in DOMAIN config.models \cup DOMAIN above |->
                 LET below == IF m \in DOMAIN config.models THEN config.models[m] ELSE NoModel
                 IN IF m \in DOMAIN above THEN LayModel(below, above[m]) ELSE below],
   timeout |-> Given(project.timeout, config.timeout), bytes |-> Given(project.bytes, config.bytes),
   search |-> [on |-> Given(project.search.on, config.search.on),
               limit |-> Given(project.search.limit, config.search.limit)]]

Layers(chain) ==                     \* after the first k files, for each k
  LET laid[k \in 0 .. Len(chain)] == IF k = 0 THEN User ELSE Lay(laid[k - 1], chain[k])
  IN laid
Loaded(chain, choice) ==
  [Layers(chain)[Len(chain)] EXCEPT !.default = Given(choice, @), !.search = Completed(@)]

(* EffectiveConfig: a configuration that fails its checks is not loaded, and   *)
(* an Application that had one keeps it.                                       *)
Load(chain, choice) ==
  /\ \A k \in DOMAIN chain : ProjectIsAccepted(chain[k])
  /\ IsValid(Loaded(chain, choice))
  /\ effective' = Loaded(chain, choice) /\ basis' = file
  /\ UNCHANGED file

ConfigurationInit == file = FirstFile /\ effective = Absent /\ basis = FirstFile

ConfigurationNext ==
  \/ \E p \in Payloads : Save(p)
  \/ \E chain \in Chains, choice \in Selections : Load(chain, choice)

ConfigurationSpec == ConfigurationInit /\ [][ConfigurationNext]_configurationVars

----------------------------------------------------------------------------
(* Whatever the settings send, a Provider they do not speak about keeps its    *)
(* profile under its new name, also where names are exchanged, one whose key   *)
(* they leave out keeps its key, and every model stays with its Provider.      *)
SavesKeepKeys ==
  [][file' # file => \A p \in Payloads : IsAccepted(p) /\ file' = Merged(p) =>
       /\ \A old \in DOMAIN file.providers :
            LET new == NewName(p.renames, old) IN
            /\ new \notin DOMAIN p.providers => file'.providers[new] = file.providers[old]
            /\ new \in DOMAIN p.providers =>
                 \/ p.providers[new] = Delete
                 \/ file'.providers[new].key = Given(p.providers[new].key, file.providers[old].key)
       /\ \A m \in DOMAIN file.models \ DOMAIN p.models :
            file'.models[m].provider = NewName(p.renames, file.models[m].provider)]_configurationVars

(* However many project files are laid over the user's, no model gets a wider  *)
(* window or images, a model of the project's own has neither, every Provider  *)
(* is the user's, nobody else turns the search on, and no limit the user has   *)
(* is passed.  Limits of a search the user says nothing about, and a timeout   *)
(* the user did not give, are the project's to set, up to the highest.         *)
ProjectsOnlyTighten ==
  effective # Absent =>
    LET user == AsRead(basis) IN
    /\ effective.providers = user.providers
    /\ \A m \in DOMAIN effective.models :
         LET own == IF m \in DOMAIN user.models THEN user.models[m] ELSE NoModel
             used == effective.models[m]
         IN /\ used.provider \in DOMAIN user.providers
            /\ IF own.window = Absent THEN used.window = Absent ELSE used.window <= own.window
            /\ used.images = TRUE => own.images = TRUE
    /\ effective.search.on = TRUE => user.search.on = TRUE
    /\ effective.search.limit <= (IF user.search = NoSearch THEN HardLimit ELSE user.search.limit)
    /\ effective.bytes <= user.bytes
    /\ user.timeout # Absent => effective.timeout # Absent /\ effective.timeout <= user.timeout
=============================================================================
