-------------------------- MODULE DesktopProperties --------------------------
(* What the Desktop bridge promises about the Applications it keeps.          *)
(*                                                                             *)
(* An entry of the registry is filed under the Session its Application serves, *)
(* or under the Application's own name while it serves none.  The first Turn   *)
(* of a parked Application, /new, /resume and a move change that Session and    *)
(* leave the old entry behind: the Application is then filed under two names.  *)
(* FoundClosedUnderTurn shows what follows from it.  And an entry that is kept  *)
(* for its processes stays when another project closes its Application, which  *)
(* session.resume then puts on screen again, closed.  tangled remembers that   *)
(* any of this has happened: the properties are about registries without it.   *)
EXTENDS DesktopRuntimes

VARIABLE tangled

FiledAs(a) == IF apps[a].ses = Null THEN a ELSE apps[a].ses
Misfiled == \E k \in DOMAIN bg : bg[k].app # NoApp /\ apps[bg[k].app].st = "open" /\ k # FiledAs(bg[k].app)
TwoNames == \E j, k \in DOMAIN bg : j # k /\ bg[j].app = bg[k].app /\ bg[j].app # NoApp
Overtaken ==                              \* the Session of a placeholder is opened elsewhere
  \E k \in DOMAIN bg : bg[k].app = NoApp /\ \E a \in Apps : apps[a].st = "open" /\ apps[a].ses = k /\ bg[k].prep # a

Revived ==                                \* a closed Application is on screen
  bridge = "ready" /\ apps[current].st # "open"

TaggedInit == Init /\ tangled = FALSE
TaggedNext == ~tangled /\ Next /\ tangled' = (Misfiled' \/ TwoNames' \/ Overtaken' \/ Revived')
TaggedSpec == TaggedInit /\ [][TaggedNext]_<<vars, tangled>> /\ Fairness

Registered(a) ==
  \/ current = a
  \/ \E k \in DOMAIN bg : bg[k].app = a
  \/ Preparing(a)

(* An Application that is open can be reached: it serves the screen, a        *)
(* background entry, or a preparation under way.  Nothing else would ever      *)
(* close it, and its Session would stay locked.                               *)
Forgotten(a) == apps[a].st = "open" /\ ~Registered(a) /\ bridge # "stopped"
NothingIsForgotten == ~tangled => \A a \in Apps : ~Forgotten(a)

(* Navigation and reclamation close an Application only when no Turn and no   *)
(* compaction runs in it.                                                     *)
Working(a) == (\E n \in Turns : Live(n) /\ turns[n].app = a) \/ (\E s \in Sessions : comp[s] = a)
ClosesOnlyInactive ==
  [][~tangled' /\ bridge # "closing" => \A a \in Apps : apps[a].st = "open" /\ apps'[a].st # "open" => ~Working(a)']_<<vars, tangled>>

(* Shutdown comes to an end, whatever a Turn, a preparation or a compaction   *)
(* does, and unless a close failed nothing is left running or open.           *)
Clean == (\A n \in Turns : ~Live(n)) /\ (\A a \in Apps : apps[a].st # "open")
ShutdownEnds == bridge = "stopping" ~> (bridge = "failed" \/ (bridge = "stopped" /\ (Clean \/ tangled)))
=============================================================================
