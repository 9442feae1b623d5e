---------------------------- MODULE Permissions ----------------------------
(* What a Run may do.  The rules of the built-in seed, of the user's           *)
(* permissions.toml and of those of the project's directories are read once,   *)
(* when the Run is created (integrations/permissions.py); every action of a    *)
(* tool, and every operation of the desktop on a process, is then judged by    *)
(* PermissionEvaluator (core/permission.py) under the Run's mode and the       *)
(* grants the user has given it (application/runs.py, bridge.py).  A rule's    *)
(* tool stands for its tool and action, a path is a sequence of names below    *)
(* its root, and a regular expression is the set of sensitive resources.       *)
EXTENDS Naturals, Sequences

CONSTANTS Actions,         \* what tools may want to do
          Files,           \* what a permissions.toml may hold: sets of rules
          Every, NoResource,
          DirectoryTools,  \* _OUTSIDE_DIRECTORY_GRANT_TOOLS
          MaxRuns, MaxRequests

Modes == {"default", "auto", "full_access"}
Decisions == {"allow", "ask", "deny"}

ASSUME PermissionAssumption ==
  /\ Every # NoResource
  /\ \A a \in Actions :
       /\ a.breaker \in BOOLEAN /\ a.sensitive \in BOOLEAN
       /\ a.resource = NoResource \/ a.resource \in Seq(STRING)
  /\ \A f \in Files : \A r \in f : r.decision \in Decisions

VARIABLES
  run,         \* number of the current Run, 0 before the first
  layers,      \* its rules: 1 the seed, 2 the user's file, then the project's
  mode,        \* its permission mode
  grants,      \* its Session grants
  approved,    \* history: actions it was granted for the Session
  turnAsks,    \* the action a Turn waits with for an approval, or NoResource
  requests,    \* _pending_process_operations: of each identity, Run and action
  carriedOut   \* history: of each identity, the Runs that carried it out

permissionVars == <<run, layers, mode, grants, approved, turnAsks, requests, carriedOut>>

----------------------------------------------------------------------------
(* Rules and paths.                                                            *)
Prefix(s, t) == Len(s) <= Len(t) /\ SubSeq(t, 1, Len(s)) = s
Within(place, prefix, resource) ==
  /\ resource # NoResource
  /\ IF prefix THEN place # <<>> /\ Prefix(place, resource) ELSE place = resource

Covers(r, a) ==
  /\ r.breaker => a.breaker
  /\ r.tool \in {Every, a.tool} /\ r.effect \in {Every, a.effect} /\ r.scope \in {Every, a.scope}
  /\ r.sensitive => a.sensitive
  /\ r.resource = Every \/ Within(r.resource, r.prefix, a.resource)

WellFormed(r) == r.sensitive \/ \E field \in {"tool", "effect", "scope", "resource"} : r[field] # Every

Configured(f) ==
  {[kind |-> r.kind, decision |-> r.decision, authority |-> "configured", breaker |-> FALSE,
    tool |-> r.tool, effect |-> r.effect, scope |-> r.scope, resource |-> r.resource,
    prefix |-> r.prefix, sensitive |-> r.sensitive] : r \in f}

SeedRule(authority) ==
  [kind |-> "guard", decision |-> "ask", authority |-> authority, breaker |-> authority = "circuit_breaker",
   tool |-> Every, effect |-> Every, scope |-> Every, resource |-> Every, prefix |-> FALSE,
   sensitive |-> authority = "builtin"]
Seed == {SeedRule("builtin"), SeedRule("circuit_breaker")}

----------------------------------------------------------------------------
(* PermissionEvaluator.evaluate: the last layer with a rule for the action     *)
(* decides, the strictest of its rules first; "none" if no layer has one.      *)
Hits(kind, authorities, a, l) ==
  {r \in layers[l] : r.kind = kind /\ r.authority \in authorities /\ Covers(r, a)}
Strictest(rules) ==
  IF \E r \in rules : r.decision = "deny" THEN "deny"
  ELSE IF \E r \in rules : r.decision = "ask" THEN "ask"
  ELSE IF rules # {} THEN "allow" ELSE "none"
Select(kind, authorities, a) ==
  LET heard == {l \in DOMAIN layers : Hits(kind, authorities, a, l) # {}} IN
  Strictest(UNION {Hits(kind, authorities, a, l) : l \in {k \in heard : \A j \in heard : j <= k}})

Strategy(m, a) ==
  IF a.scope = "inside" /\ (a.effect = "read" \/ (m = "auto" /\ a.effect = "write")) THEN "allow" ELSE "ask"
Granted(a) ==
  \E g \in grants : /\ g.tool = a.tool /\ g.effect = a.effect /\ g.scope = a.scope
                    /\ Within(g.resource, g.prefix, a.resource)
Verdict(decision, reason) == [decision |-> decision, reason |-> reason]

UnguardedGrantsFirst(m, a) ==         \* a grant before the Policies
  LET policy == Select("policy", {"configured"}, a) IN
  IF m = "full_access" THEN Verdict("allow", "fallback")
  ELSE IF Granted(a) THEN Verdict("allow", "grant")
  ELSE IF policy # "none" THEN Verdict(policy, "policy") ELSE Verdict(Strategy(m, a), "fallback")

Unguarded(m, a) ==
  LET policy == Select("policy", {"configured"}, a) IN
  IF m = "full_access" THEN Verdict("allow", "fallback")
  ELSE IF policy # "none" THEN Verdict(policy, "policy")
  ELSE IF Strategy(m, a) = "ask" /\ Granted(a) THEN Verdict("allow", "grant")
  ELSE Verdict(Strategy(m, a), "fallback")

Evaluate(m, a) ==
  LET configured == Select("guard", {"configured"}, a)
      guard == IF m = "full_access" THEN configured ELSE Select("guard", {"configured", "builtin"}, a)
  IN IF Select("guard", {"circuit_breaker"}, a) # "none"
     THEN Verdict(IF configured = "deny" THEN "deny" ELSE "ask", "guard")
     ELSE IF guard \in {"deny", "ask"} THEN Verdict(guard, "guard")
     ELSE Unguarded(m, a)

----------------------------------------------------------------------------
(* Grants.  What is granted outside the project by a tool that works on files  *)
(* is the directory of the file, unless that is a root.                        *)
Parent(path) == SubSeq(path, 1, Len(path) - 1)
WholeDirectory(a) ==
  a.scope = "outside" /\ a.tool \in DirectoryTools /\ a.resource # <<>> /\ Parent(a.resource) # <<>>
GrantOf(a) ==
  [tool |-> a.tool, effect |-> a.effect, scope |-> a.scope, prefix |-> WholeDirectory(a),
   resource |-> IF WholeDirectory(a) THEN Parent(a.resource) ELSE a.resource]
StoreGrant(a) ==
  /\ grants' = IF a.resource = NoResource THEN grants ELSE grants \cup {GrantOf(a)}
  /\ approved' = approved \cup {a}
KeepGrants == UNCHANGED <<grants, approved>>
MaySession(v, a) == v.reason = "fallback" /\ a.resource # NoResource

----------------------------------------------------------------------------
(* A Run takes its snapshot of the files, which the user edits at any time; a  *)
(* malformed rule anywhere, and there is no Run.                               *)
CreateRun(user, project, m) ==
  /\ run < MaxRuns /\ run' = run + 1 /\ m # "full_access"
  /\ \A r \in user \cup project : WellFormed(r)
  /\ layers' = <<Seed, Configured(user), Configured(project)>>
  /\ mode' = m /\ grants' = {} /\ approved' = {} /\ turnAsks' = NoResource
  /\ UNCHANGED <<requests, carriedOut>>

SetMode(m) ==
  /\ run > 0 /\ mode' = m
  /\ UNCHANGED <<run, layers, grants, approved, turnAsks, requests, carriedOut>>

(* A tool of the Turn that asks; one that need not changes nothing here.       *)
Ask(a) ==
  /\ run > 0 /\ turnAsks = NoResource
  /\ Evaluate(mode, a).decision = "ask"
  /\ turnAsks' = [action |-> a, session |-> MaySession(Evaluate(mode, a), a)]
  /\ UNCHANGED <<run, layers, mode, grants, approved, requests, carriedOut>>

Answer(choice) ==
  /\ turnAsks # NoResource
  /\ choice = "session" => turnAsks.session
  /\ turnAsks' = NoResource
  /\ \/ choice = "session" /\ StoreGrant(turnAsks.action)
     \/ choice \in {"once", "session", "reject"} /\ KeepGrants     \* also when the call fails
  /\ UNCHANGED <<run, layers, mode, requests, carriedOut>>

(* An operation of the desktop on a process is judged when it is asked for and *)
(* carried out when it comes again with the identity of the request.           *)
RequestOperation(a) ==
  /\ run > 0 /\ Len(requests) < MaxRequests
  /\ Evaluate(mode, a).decision = "ask"
  /\ requests' = Append(requests, [run |-> run, action |-> a, pending |-> TRUE])
  /\ carriedOut' = Append(carriedOut, <<>>)
  /\ UNCHANGED <<run, layers, mode, grants, approved, turnAsks>>

CarryOut(k, choice) ==
  /\ requests[k].pending
  /\ requests' = [requests EXCEPT ![k].pending = FALSE]
  /\ IF requests[k].run = run /\ choice # "reject"
     THEN /\ carriedOut' = [carriedOut EXCEPT ![k] = Append(@, run)]
          /\ (choice = "session" /\ StoreGrant(requests[k].action)) \/ KeepGrants
     ELSE UNCHANGED carriedOut /\ KeepGrants
  /\ UNCHANGED <<run, layers, mode, turnAsks>>

Release(k) ==
  /\ requests[k].pending /\ requests' = [requests EXCEPT ![k].pending = FALSE]
  /\ UNCHANGED <<run, layers, mode, grants, approved, turnAsks, carriedOut>>

PermissionInit ==
  /\ run = 0 /\ layers = <<>> /\ mode = "default" /\ grants = {} /\ approved = {}
  /\ turnAsks = NoResource /\ requests = <<>> /\ carriedOut = <<>>

PermissionNext ==
  \/ \E user, project \in Files, m \in Modes : CreateRun(user, project, m)
  \/ \E m \in Modes : SetMode(m)
  \/ \E a \in Actions : Ask(a) \/ RequestOperation(a)
  \/ \E choice \in {"once", "session", "reject"} :
       Answer(choice) \/ \E k \in DOMAIN requests : CarryOut(k, choice)
  \/ \E k \in DOMAIN requests : Release(k)

PermissionSpec == PermissionInit /\ [][PermissionNext]_permissionVars

----------------------------------------------------------------------------
(* A catastrophic action is never allowed without asking, whatever the files,  *)
(* the mode and the grants say; what the user's or the project's Guard denies  *)
(* no mode allows; a laxer mode allows whatever a stricter one does; and what  *)
(* a grant lets through was granted: an action of the same kind on the same    *)
(* resource or in the same directory outside, and one no rule speaks about.    *)
Laxer == {<<"default", "auto">>, <<"auto", "full_access">>}
Allowed(m, a) == Evaluate(m, a).decision = "allow"
SameKind(a, b) == a.tool = b.tool /\ a.effect = b.effect /\ a.scope = b.scope
SamePlace(a, b) ==
  \/ a.resource = b.resource
  \/ a.scope = "outside" /\ Len(b.resource) > 1 /\ Prefix(Parent(b.resource), a.resource)
AllowedIsJustified ==
  run > 0 => \A a \in Actions :
    /\ a.breaker => \A m \in Modes : ~Allowed(m, a)
    /\ Select("guard", {"configured"}, a) = "deny" => \A m \in Modes : ~Allowed(m, a)
    /\ \A ms \in Laxer : Allowed(ms[1], a) => Allowed(ms[2], a)
    /\ Evaluate(mode, a).reason = "grant" =>
         /\ \E b \in approved : SameKind(a, b) /\ SamePlace(a, b)
         /\ Select("policy", {"configured"}, a) = "none"
         /\ Select("guard", {"configured", "builtin"}, a) \in {"none", "allow"}

(* An approval of an operation on a process is spent by its first use, and     *)
(* only in the Run that asked for it.                                          *)
ApprovalsAreSpent ==
  \A k \in DOMAIN requests : carriedOut[k] \in {<<>>, <<requests[k].run>>}

(* Both: whatever is carried out was allowed, and was allowed for this.        *)
PermissionIsEarned == AllowedIsJustified /\ ApprovalsAreSpent
=============================================================================
