----------------------------- MODULE Connectivity -----------------------------
(***************************************************************************)
(* The connectivity gate of lib/vdsm/network/connectivity.py: check()     *)
(* polls the modification time of the client log, once per time.sleep(1), *)
(* for connectivityTimeout seconds, while the management client may write *)
(* the log at any moment.  Time is counted in ticks, Second ticks to a    *)
(* second; a sleep takes one second and may overrun by up to Oversleep    *)
(* ticks; the file system records mtimes to a granularity of Gran ticks.  *)
(***************************************************************************)
EXTENDS Integers

CONSTANTS
    Second,     \* ticks per second
    Oversleep,  \* how many ticks time.sleep(1) may overrun
    Gran,       \* mtime granularity of the file system, in ticks
    Timeouts    \* values connectivityTimeout may be given (int() of the option)

ASSUME ClockAssumption ==
    /\ Second \in Nat \ {0}
    /\ Oversleep \in Nat
    /\ Gran \in Nat \ {0}
    /\ Timeouts \subseteq Int

VARIABLES
    now,        \* time.time(), in ticks
    mtime,      \* st_mtime of P_VDSM_CLIENT_LOG, or Absent (ENOENT)
    pc,         \* control point of check()
    start,      \* start of _client_seen
    timeout,    \* _client_seen's loop counter
    wake,       \* when the current time.sleep(1) may return
    cfgTimeout, \* auxiliary: the timeout check() was called with
    touched     \* auxiliary: first time the client wrote the log after start

vars == <<now, mtime, pc, start, timeout, wake, cfgTimeout, touched>>

Absent == -1    \* the log does not exist (mtimes are never negative)
None == -1      \* the client has not written the log since start
Done == {"skipped", "seen", "lost", "error"}

TypeOK ==
    /\ now \in Nat
    /\ mtime \in Nat \cup {Absent}
    /\ pc \in {"idle", "loop", "sleep"} \cup Done
    /\ start \in Nat
    /\ timeout \in Int
    /\ wake \in Nat
    /\ cfgTimeout \in Int
    /\ touched \in Nat \cup {None}

(* The log as the file system stamps a write made at tick t. *)
Stamp(t) == t - (t % Gran)

(* check() is called at tick 1 or 2 (the two phases of a granule of two  *)
(* ticks); the log may be missing or left by an earlier write.            *)
Init ==
    /\ now \in {1, 2}
    /\ mtime \in {Absent} \cup {Stamp(t) : t \in 0..now}
    /\ pc = "idle"
    /\ start = 0
    /\ timeout = 0
    /\ wake = 0
    /\ cfgTimeout = 0
    /\ touched = None

(* Mutant: the loop starts from timeout - 1, one poll too few. *)
CheckShort ==
    /\ pc = "idle"
    /\ \E enabled \in BOOLEAN, T \in Timeouts :
          IF enabled
            THEN /\ pc' = "loop"
                 /\ start' = now
                 /\ timeout' = T - 1
                 /\ cfgTimeout' = T
            ELSE /\ pc' = "skipped"
                 /\ UNCHANGED <<start, timeout, cfgTimeout>>
    /\ UNCHANGED <<now, mtime, wake, touched>>

(* check(options): nothing when connectivityCheck is false; otherwise    *)
(* _client_seen(int(connectivityTimeout)) starts: start = time.time().   *)
Check ==
    /\ pc = "idle"
    /\ \E enabled \in BOOLEAN, T \in Timeouts :
          IF enabled
            THEN /\ pc' = "loop"
                 /\ start' = now
                 /\ timeout' = T
                 /\ cfgTimeout' = T
            ELSE /\ pc' = "skipped"
                 /\ UNCHANGED <<start, timeout, cfgTimeout>>
    /\ UNCHANGED <<now, mtime, wake, touched>>

(* Mutant: st_mtime >= start instead of > start. *)
PollGe ==
    /\ pc = "loop"
    /\ timeout >= 0
    /\ \/ /\ mtime # Absent
          /\ mtime >= start
          /\ pc' = "seen"
          /\ UNCHANGED wake
       \/ /\ ~(mtime # Absent /\ mtime >= start)
          /\ pc' = "sleep"
          /\ wake' = now + Second
       \/ /\ mtime # Absent
          /\ pc' = "error"
          /\ UNCHANGED wake
    /\ UNCHANGED <<now, mtime, start, timeout, cfgTimeout, touched>>

(* Mutant: `continue` on ENOENT, which skips the sleep and the decrement. *)
PollEnoentContinue ==
    /\ pc = "loop"
    /\ timeout >= 0
    /\ \/ /\ mtime # Absent
          /\ mtime > start
          /\ pc' = "seen"
          /\ UNCHANGED wake
       \/ /\ mtime = Absent
          /\ UNCHANGED <<pc, wake>>
       \/ /\ mtime # Absent /\ ~(mtime > start)
          /\ pc' = "sleep"
          /\ wake' = now + Second
       \/ /\ mtime # Absent
          /\ pc' = "error"
          /\ UNCHANGED wake
    /\ UNCHANGED <<now, mtime, start, timeout, cfgTimeout, touched>>

(* One pass of `while timeout >= 0`: stat the log; a mtime later than    *)
(* start returns True; ENOENT counts as not seen; any other OSError      *)
(* propagates; otherwise time.sleep(1).                                  *)
Poll ==
    /\ pc = "loop"
    /\ timeout >= 0
    /\ \/ /\ mtime # Absent
          /\ mtime > start
          /\ pc' = "seen"
          /\ UNCHANGED wake
       \/ /\ ~(mtime # Absent /\ mtime > start)
          /\ pc' = "sleep"
          /\ wake' = now + Second
       \/ /\ mtime # Absent
          /\ pc' = "error"
          /\ UNCHANGED wake
    /\ UNCHANGED <<now, mtime, start, timeout, cfgTimeout, touched>>

(* The loop condition fails: _client_seen returns False and check()      *)
(* raises ConfigNetworkError(ERR_LOST_CONNECTION).                        *)
GiveUp ==
    /\ pc = "loop"
    /\ timeout < 0
    /\ pc' = "lost"
    /\ UNCHANGED <<now, mtime, start, timeout, wake, cfgTimeout, touched>>

(* Time passes while check() sleeps. *)
Tick ==
    /\ pc = "sleep"
    /\ now < wake + Oversleep
    /\ now' = now + 1
    /\ UNCHANGED <<mtime, pc, start, timeout, wake, cfgTimeout, touched>>

(* time.sleep(1) returns; timeout -= 1. *)
Wake ==
    /\ pc = "sleep"
    /\ now >= wake
    /\ timeout' = timeout - 1
    /\ pc' = "loop"
    /\ UNCHANGED <<now, mtime, start, wake, cfgTimeout, touched>>

(* The management client writes its log. *)
ClientTouch ==
    /\ pc \notin Done
    /\ mtime' = Stamp(now)
    /\ touched' = IF touched = None /\ pc # "idle" /\ now > start
                    THEN now ELSE touched
    /\ UNCHANGED <<now, pc, start, timeout, wake, cfgTimeout>>

(* check() has returned or raised. *)
Finished ==
    /\ pc \in Done
    /\ UNCHANGED vars

Next == Check \/ Poll \/ GiveUp \/ Tick \/ Wake \/ ClientTouch \/ Finished

Spec == Init /\ [][Next]_vars

(* check() runs on the caller's thread and nothing else blocks it: each  *)
(* pass of its loop is taken, time advances and time.sleep(1) returns.   *)
(* The client writing its log and the call of check() are not assumed.   *)
FairSpec ==
    /\ Spec
    /\ WF_vars(Poll) /\ WF_vars(GiveUp) /\ WF_vars(Tick) /\ WF_vars(Wake)

-----------------------------------------------------------------------------
(* check() passes only when the client really wrote its log after the    *)
(* check started: a log left by an earlier write, however recent, is     *)
(* never taken for a sign of life.                                       *)
SeenIsSound == pc = "seen" => touched # None

(* check() raises the lost-connection error only when the client did not *)
(* write its log within connectivityTimeout seconds of the start: every  *)
(* write made before that deadline is seen by a later poll of the loop  *)
(* (the loop polls timeout + 1 times, the last one no earlier than the   *)
(* deadline; the sleep after the last poll is waited out unseen).        *)
WindowHonoured ==
    pc = "lost" => touched = None \/ touched >= start + cfgTimeout * Second

(* A started check() always returns or raises, whether or not the client *)
(* ever writes its log and whether or not the log exists: every pass of  *)
(* the loop, ENOENT included, sleeps and decrements timeout, so the      *)
(* gate never blocks the network change that called it.                  *)
CheckReturns == pc \in {"loop", "sleep"} ~> pc \in Done

=============================================================================
