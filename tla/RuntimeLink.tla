---------------------------- MODULE RuntimeLink ----------------------------
(* Electron's main process and the Python child it talks to: PythonRuntime     *)
(* (desktop/src/python-runtime.ts), its users in desktop/src/main.ts, and the  *)
(* loop of the child, DesktopBridge.serve_forever.  Requests and answers are   *)
(* lines of two pipes; the exit of the child and the close of its pipes are    *)
(* two events, and both may come before or after lines that were written.      *)
(*                                                                             *)
(* The main process is single threaded: a handler runs to its next await, and  *)
(* what a settled promise resumes runs before the next event.                  *)
EXTENDS Naturals, Sequences

CONSTANTS MaxChildren, MaxCalls,
          MaxFaults   \* bound on crashes, failures and lines that make no sense

ASSUME LinkAssumption == MaxChildren > 0 /\ MaxCalls > 0

VARIABLES
  runtime,     \* _state
  child,       \* the child that is owned, or 0
  issued,      \* the requests so far: their kind, and whether they are settled
  pending,     \* identities somebody waits for
  timedOut,    \* timedOutRequestIds
  closing,     \* where shutdownInternal is
  quit,        \* the application: "open", "requested", "allowed"
  children,    \* every child there ever was
  faults,     \* faults that happened
  alarm        \* history: an answer was taken for nonsense while all was well

linkVars == <<runtime, child, issued, pending, timedOut, closing, quit, children, faults, alarm>>

NotClosing == [step |-> "no", call |-> 0, child |-> 0, waits |-> 0]
LinkInit ==
  /\ runtime = "idle" /\ child = 0 /\ issued = <<>> /\ pending = {} /\ timedOut = {}
  /\ closing = NotClosing /\ quit = "open" /\ children = <<>> /\ faults = 0 /\ alarm = FALSE

----------------------------------------------------------------------------
(* The child.  It lives until its pipes are closed; its process ends before.   *)
Born(life) == [life |-> life, bridge |-> "ready", eof |-> FALSE, input |-> <<>>, output |-> <<>>]
Alive(c) == children[c].life # "closed"
Running(c) == children[c].life = "running"
Dead(c) == [children EXCEPT ![c] = [@ EXCEPT !.life = "dead", !.bridge = "gone", !.input = <<>>, !.eof = FALSE]]
Response(id) == [type |-> "response", id |-> id, state |-> "none"]
StateLine(s) == [type |-> "state", id |-> 0, state |-> s]
Garbage == [type |-> "garbage", id |-> 0, state |-> "none"]
Fault == faults < MaxFaults /\ faults' = faults + 1
mainVars == <<runtime, child, issued, pending, timedOut, closing, quit, alarm>>

(* One request at a time.  A stop, and the end of the input, end the loop with *)
(* "stopped", or with "failed" if the Application could not be closed; so may  *)
(* an initialization.                                                          *)
Terminates(c, s, lines) ==
  children' = [children EXCEPT ![c].bridge = s, ![c].input = <<>>, ![c].output = @ \o lines]
Serve(c) ==
  /\ Running(c) /\ children[c].bridge = "ready" /\ children[c].input # <<>>
  /\ LET id == Head(children[c].input) IN
     \/ /\ issued[id].kind = "call" /\ UNCHANGED faults
        /\ children' = [children EXCEPT ![c].input = Tail(@), ![c].output = Append(@, Response(id))]
     \/ /\ issued[id].kind = "stop" /\ UNCHANGED faults
        /\ Terminates(c, "stopped", <<StateLine("stopped"), Response(id)>>)
     \/ Fault /\ Terminates(c, "failed", <<StateLine("failed"), Response(id)>>)
  /\ UNCHANGED mainVars
InputEnds(c) ==
  /\ Running(c) /\ children[c].bridge = "ready" /\ children[c].input = <<>> /\ children[c].eof
  /\ Terminates(c, "stopped", <<StateLine("stopped")>>) /\ UNCHANGED <<mainVars, faults>>
FailedTurn(c) ==                          \* _consume_turn reports a failure and goes on
  /\ Running(c) /\ children[c].bridge = "ready" /\ Fault
  /\ children' = [children EXCEPT ![c].output = Append(@, StateLine("failed"))] /\ UNCHANGED mainVars
Nonsense(c) ==
  /\ Running(c) /\ Fault
  /\ children' = [children EXCEPT ![c].output = Append(@, Garbage)] /\ UNCHANGED mainVars

ProcessEnds(c) ==
  /\ Running(c) /\ children[c].bridge # "ready"
  /\ children' = Dead(c) /\ UNCHANGED <<mainVars, faults>>
ProcessCrashes(c) ==                      \* the last lines may be lost, or one be torn
  /\ Running(c) /\ Fault
  /\ \E n \in 0 .. Len(children[c].output), torn \in BOOLEAN :
       children' = [Dead(c) EXCEPT ![c].output = SubSeq(@, 1, n) \o (IF torn THEN <<Garbage>> ELSE <<>>)]
  /\ UNCHANGED mainVars

----------------------------------------------------------------------------
(* PythonRuntime.  Settling all pending requests also forgets the late ones.   *)
Owned(c) == child = c
Settled(ids) == [k \in DOMAIN issued |-> IF k \in ids THEN [issued[k] EXCEPT !.outcome = "settled"] ELSE issued[k]]
RejectAll == issued' = Settled(pending) /\ pending' = {} /\ timedOut' = {}

(* Handlers of promises that are settled come before the next event.           *)
Closed(c) == c # 0 => ~Alive(c)
Waiting == closing.step \in {"wait", "terminated", "killed"}
StopReturns(id) == issued[id].kind = "stop" /\ id # closing.call /\ issued[id].outcome = "settled"
Quiet ==
  /\ closing.step = "asked" => closing.call \in pending
  /\ closing.step # "end" /\ ~(Waiting /\ Closed(closing.waits))
  /\ \A id \in DOMAIN issued : ~StopReturns(id)
Write(c, id) == [children EXCEPT ![c].input = IF Running(c) /\ children[c].bridge = "ready" THEN Append(@, id) ELSE @]

(* start, and the request that follows it at once: every request of the window *)
(* starts a child if none is owned; the start may fail, at once or later.      *)
Issue(kind) ==
  issued' = Append(issued, [kind |-> kind, outcome |-> "waiting"]) /\ pending' = pending \cup {Len(issued) + 1}
Stopped == runtime \in {"idle", "stopped", "failed"} /\ child = 0
Call(kind) ==
  /\ Quiet /\ Len(issued) < MaxCalls
  /\ \/ /\ runtime = "ready" /\ Issue(kind) /\ children' = Write(child, Len(issued) + 1)
        /\ UNCHANGED <<runtime, child, timedOut, faults>>
     \/ /\ Stopped /\ Len(children) < MaxChildren
        /\ runtime' = "ready" /\ child' = Len(children) + 1 /\ timedOut' = {} /\ Issue(kind)
        /\ \/ UNCHANGED faults
              /\ children' = Append(children, [Born("running") EXCEPT !.input = <<Len(issued) + 1>>])
           \/ Fault /\ children' = Append(children, Born("stillborn"))
     \/ /\ Stopped /\ Fault /\ runtime' = "failed" /\ timedOut' = {}
        /\ UNCHANGED <<child, issued, pending, children>>
  /\ UNCHANGED <<closing, quit, alarm>>

TimeOut(id) ==
  /\ Quiet /\ id \in pending /\ pending' = pending \ {id} /\ timedOut' = timedOut \cup {id}
  /\ issued' = Settled({id})
  /\ UNCHANGED <<runtime, child, closing, quit, children, faults, alarm>>
WriteFails(id) ==                         \* the pipe is broken
  /\ Quiet /\ id \in pending /\ child # 0 /\ ~Running(child)
  /\ pending' = pending \ {id} /\ issued' = Settled({id})
  /\ UNCHANGED <<runtime, child, timedOut, closing, quit, children, faults, alarm>>

(* consumeLine: of whatever child the line is.                                 *)
Malformed == runtime' = "failed" /\ RejectAll
Interpret(line) ==
  \/ line.type = "garbage" /\ Malformed
  \/ line.type = "state" /\ runtime' = line.state /\ UNCHANGED <<issued, pending, timedOut>>
  \/ /\ line.type = "response" /\ line.id \in timedOut
     /\ timedOut' = timedOut \ {line.id} /\ UNCHANGED <<runtime, issued, pending>>
  \/ /\ line.type = "response" /\ line.id \in pending
     /\ pending' = pending \ {line.id} /\ issued' = Settled({line.id})
     /\ UNCHANGED <<runtime, timedOut>>
  \/ line.type = "response" /\ line.id \notin timedOut \cup pending /\ Malformed
ReadLine(c) ==
  /\ children[c].output # <<>> /\ Interpret(Head(children[c].output))
  /\ children' = [children EXCEPT ![c].output = Tail(@)]
  /\ alarm' = (alarm \/ (/\ Running(c) /\ runtime = "ready" /\ runtime' = "failed"
                         /\ Head(children[c].output).type = "response"))
  /\ UNCHANGED <<child, closing, quit, faults>>

HandleError(c) ==
  /\ Quiet /\ children[c].life = "stillborn" /\ children' = [children EXCEPT ![c].life = "exited"]
  /\ IF Owned(c) THEN /\ runtime' = IF runtime = "stopping" THEN runtime ELSE "failed"
                      /\ RejectAll
     ELSE UNCHANGED <<runtime, issued, pending, timedOut>>
  /\ UNCHANGED <<child, closing, quit, faults, alarm>>
HandleExitDetaching(c) ==                 \* and the child is given up
  /\ Quiet /\ children[c].life = "dead" /\ children' = [children EXCEPT ![c].life = "exited"]
  /\ IF Owned(c) /\ runtime # "stopping" THEN runtime' = "failed" /\ RejectAll /\ child' = 0
     ELSE UNCHANGED <<runtime, issued, pending, timedOut, child>>
  /\ UNCHANGED <<closing, quit, faults, alarm>>
HandleExit(c) ==
  /\ Quiet /\ children[c].life = "dead" /\ children' = [children EXCEPT ![c].life = "exited"]
  /\ IF Owned(c) /\ runtime # "stopping" THEN runtime' = "failed" /\ RejectAll
     ELSE UNCHANGED <<runtime, issued, pending, timedOut>>
  /\ UNCHANGED <<child, closing, quit, faults, alarm>>
HandleClose(c) ==                         \* after the last line
  /\ Quiet /\ children[c].life = "exited" /\ children[c].output = <<>>
  /\ children' = [children EXCEPT ![c].life = "closed"]
  /\ IF ~Owned(c) \/ runtime \in {"stopping", "stopped"} THEN UNCHANGED <<runtime, issued, pending, timedOut>>
     ELSE runtime' = "failed" /\ RejectAll
  /\ child' = IF Owned(c) /\ runtime # "stopping" THEN 0 ELSE child
  /\ UNCHANGED <<closing, quit, faults, alarm>>

----------------------------------------------------------------------------
(* Closing: a request to stop (if the window has not asked already), the end   *)
(* of the input, and three windows of waiting with SIGTERM and SIGKILL between.*)
BeginClosing(ask) ==
  IF child = 0 THEN runtime' = "stopped" /\ UNCHANGED <<closing, children>>
  ELSE /\ runtime' = "stopping"
       /\ closing' = [NotClosing EXCEPT !.step = IF ask THEN "asked" ELSE "end", !.child = child,
                                        !.call = IF ask THEN Len(issued) + 1 ELSE 0]
       /\ children' = IF ask THEN Write(child, Len(issued) + 1) ELSE children

CloseShell ==                             \* the window or the application is to be closed
  /\ Quiet /\ quit = "open" /\ Len(issued) < MaxCalls
  /\ quit' = IF child = 0 /\ closing.step = "no" THEN "allowed" ELSE "requested"
  /\ IF closing.step = "no" THEN BeginClosing(TRUE) ELSE UNCHANGED <<runtime, closing, children>>
  /\ IF closing.step = "no" /\ child # 0 THEN Issue("stop") ELSE UNCHANGED <<issued, pending>>
  /\ UNCHANGED <<child, timedOut, faults, alarm>>
StopAnswered(id) ==                       \* the window's own request to stop
  /\ StopReturns(id) /\ issued' = [issued EXCEPT ![id].outcome = "closed for"]
  /\ IF closing.step = "no" THEN BeginClosing(FALSE) ELSE UNCHANGED <<runtime, closing, children>>
  /\ UNCHANGED <<child, pending, timedOut, quit, faults, alarm>>

EndInput ==
  /\ (closing.step = "asked" /\ closing.call \notin pending) \/ closing.step = "end"
  /\ closing' = [closing EXCEPT !.step = "wait", !.waits = child]
  /\ children' = [children EXCEPT ![closing.child].eof = Running(closing.child)]
  /\ UNCHANGED <<runtime, child, issued, pending, timedOut, quit, faults, alarm>>
Terminate ==                              \* a window has passed; a signal may be ignored
  /\ Quiet /\ closing.step \in {"wait", "terminated"} /\ Owned(closing.child)
  /\ closing' = [closing EXCEPT !.step = IF @ = "wait" THEN "terminated" ELSE "killed", !.waits = child]
  /\ \/ Running(child) /\ children' = Dead(child)
     \/ UNCHANGED children
  /\ UNCHANGED <<runtime, child, issued, pending, timedOut, quit, faults, alarm>>
GiveUp ==
  /\ Quiet /\ Waiting /\ (closing.step = "killed" \/ ~Owned(closing.child))
  /\ Fault /\ runtime' = "failed" /\ RejectAll /\ closing' = NotClosing
  /\ quit' = IF quit = "requested" THEN "open" ELSE quit
  /\ UNCHANGED <<child, children, alarm>>
FinishClosing ==
  /\ Waiting /\ Closed(closing.waits)
  /\ runtime' = "stopped" /\ RejectAll /\ closing' = NotClosing
  /\ child' = IF Owned(closing.child) THEN 0 ELSE child
  /\ quit' = IF quit = "requested" THEN "allowed" ELSE quit
  /\ UNCHANGED <<children, faults, alarm>>

LinkNext ==
  \/ \E kind \in {"call", "stop"} : Call(kind)
  \/ CloseShell \/ EndInput \/ Terminate \/ GiveUp \/ FinishClosing
  \/ \E id \in DOMAIN issued : TimeOut(id) \/ WriteFails(id) \/ StopAnswered(id)
  \/ \E c \in DOMAIN children :
       \/ Serve(c) \/ InputEnds(c) \/ FailedTurn(c) \/ Nonsense(c) \/ ProcessEnds(c) \/ ProcessCrashes(c)
       \/ ReadLine(c) \/ HandleError(c) \/ HandleExit(c) \/ HandleClose(c)

LinkSpec == LinkInit /\ [][LinkNext]_linkVars

----------------------------------------------------------------------------
(* No child is given up before its pipes are closed: there is never a second   *)
(* one beside it, nor one that nobody would stop.                              *)
OwnedUntilClosed == \A c \in DOMAIN children : Alive(c) => Owned(c)

(* When no child is left and no stop is under way, nobody waits for an answer. *)
NobodyWaitsForTheDead == child = 0 /\ closing.step = "no" => pending = {}

(* An answer that comes after its caller has stopped waiting never makes a     *)
(* Runtime that works count as broken.                                         *)
LateAnswersAreHarmless == ~alarm

(* All three: there is one Runtime at most, and whoever asks it is answered.    *)
OneRuntimeAnswers == OwnedUntilClosed /\ NobodyWaitsForTheDead /\ LateAnswersAreHarmless
=============================================================================
