---------------------------- MODULE Cancellation ----------------------------
(* CancellationToken of core/provider.py: one flag, set once from any thread,  *)
(* and the coroutines that wait for it in the event loop, most of them in      *)
(* next_stream_value, which waits for the token and for the next frame of a    *)
(* stream and takes whichever comes first.  The lock of the token protects the *)
(* flag and the set of waiters; a step is what happens under one hold of it,   *)
(* or between two.                                                             *)
EXTENDS Naturals, FiniteSets

CONSTANTS Cancellers,      \* threads that call cancel()
          Readers          \* coroutines in next_stream_value

VARIABLES
  flag,        \* _cancelled
  waiters,     \* _waiters
  calls,       \* callbacks the event loop was asked to run, one per waiter
  cancelPc,    \* of each canceller
  notified,    \* waiters each canceller still has to notify
  readPc,      \* of each reader
  value        \* readers whose frame has arrived

tokenVars == <<flag, waiters, calls, cancelPc, notified, readPc, value>>

TokenInit ==
  /\ flag = FALSE /\ waiters = {} /\ calls = {} /\ value = {}
  /\ cancelPc = [c \in Cancellers |-> "start"]
  /\ notified = [c \in Cancellers |-> {}]
  /\ readPc = [r \in Readers |-> "idle"]

Reading(r, from, to) == readPc[r] = from /\ readPc' = [readPc EXCEPT ![r] = to]

----------------------------------------------------------------------------
(* cancel(): the flag and a copy of the waiters under the lock, then one       *)
(* call_soon_threadsafe after the other without it.                            *)
SetFlag(c) ==
  /\ cancelPc[c] = "start"
  /\ flag' = TRUE
  /\ IF flag THEN cancelPc' = [cancelPc EXCEPT ![c] = "done"] /\ UNCHANGED notified
     ELSE /\ cancelPc' = [cancelPc EXCEPT ![c] = "notify"]
          /\ notified' = [notified EXCEPT ![c] = waiters]
  /\ UNCHANGED <<waiters, calls, readPc, value>>

Notify(c) ==
  /\ cancelPc[c] = "notify"
  /\ \/ \E r \in notified[c] :
          /\ notified' = [notified EXCEPT ![c] = @ \ {r}] /\ calls' = calls \cup {r}
          /\ UNCHANGED cancelPc
     \/ /\ notified[c] = {}
        /\ cancelPc' = [cancelPc EXCEPT ![c] = "done"] /\ UNCHANGED <<notified, calls>>
  /\ UNCHANGED <<flag, waiters, readPc, value>>

----------------------------------------------------------------------------
(* next_stream_value and wait() of its second task.                           *)
StartRead(r) ==                            \* raise_if_cancelled
  /\ Reading(r, "idle", IF flag THEN "stopped" ELSE "check")
  /\ UNCHANGED <<flag, waiters, calls, cancelPc, notified, value>>

CheckFlag(r) ==                            \* the first look, in wait()
  /\ Reading(r, "check", IF flag THEN "woken" ELSE "register")
  /\ UNCHANGED <<flag, waiters, calls, cancelPc, notified, value>>

RegisterUnchecked(r) ==                    \* without the second look
  /\ Reading(r, "register", "waiting")
  /\ waiters' = waiters \cup {r}
  /\ UNCHANGED <<flag, calls, cancelPc, notified, value>>

Register(r) ==                             \* the second look, under the lock
  /\ Reading(r, "register", IF flag THEN "woken" ELSE "waiting")
  /\ waiters' = IF flag THEN waiters ELSE waiters \cup {r}
  /\ UNCHANGED <<flag, calls, cancelPc, notified, value>>

ResolveWaiter(r) ==                        \* nothing if it is no longer waiting
  /\ r \in calls /\ calls' = calls \ {r}
  /\ readPc' = IF readPc[r] = "waiting" THEN [readPc EXCEPT ![r] = "woken"] ELSE readPc
  /\ UNCHANGED <<flag, waiters, cancelPc, notified, value>>

FrameArrives(r) ==
  /\ readPc[r] \in {"check", "register", "waiting", "woken"} /\ r \notin value
  /\ value' = value \cup {r}
  /\ UNCHANGED <<flag, waiters, calls, cancelPc, notified, readPc>>

(* The reader resumes when one of the two is done; a token that is done wins.  *)
(* The other is cancelled, and the waiter forgotten.                           *)
Resume(r) ==
  /\ \/ Reading(r, "woken", "stopped") /\ UNCHANGED value
     \/ r \in value /\ readPc[r] # "woken"
        /\ Reading(r, readPc[r], "idle") /\ value' = value \ {r}
  /\ waiters' = waiters \ {r}
  /\ UNCHANGED <<flag, calls, cancelPc, notified>>

TokenNext ==
  \/ \E c \in Cancellers : SetFlag(c) \/ Notify(c)
  \/ \E r \in Readers :
       \/ StartRead(r) \/ CheckFlag(r) \/ Register(r) \/ ResolveWaiter(r) \/ FrameArrives(r) \/ Resume(r)

TokenSpec == TokenInit /\ [][TokenNext]_tokenVars

----------------------------------------------------------------------------
(* Once cancel() has returned, no reader sleeps on: every registered waiter    *)
(* has been woken, or its callback is on the way, wherever its own two looks   *)
(* at the flag fell between the steps of the cancelling thread.                *)
NobodySleeps ==
  (\E c \in Cancellers : cancelPc[c] = "done") /\ (\A c \in Cancellers : cancelPc[c] # "notify") =>
    \A r \in Readers : readPc[r] = "waiting" => r \in calls
=============================================================================
