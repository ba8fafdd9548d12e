------------------------- MODULE ConnectivityProofs -------------------------
(* Proofs about the connectivity gate of Connectivity. *)
EXTENDS Connectivity, TLAPS

(* A file-system stamp is a tick no later than the write it stamps. *)
LEMMA StampBelow == \A t \in Nat : Stamp(t) \in Nat /\ Stamp(t) <= t
  BY ClockAssumption DEF Stamp

(* check() starts from a well-typed state. *)
LEMMA TypeInit == Init => TypeOK
  BY StampBelow DEF Init, TypeOK, Absent, None

(* Every step keeps TypeOK. *)
LEMMA TypeStep == TypeOK /\ [Next]_vars => TypeOK'
<1> SUFFICES ASSUME TypeOK, [Next]_vars PROVE TypeOK'
  OBVIOUS
<1> USE DEF TypeOK, Done
<1>1. CASE Check
  BY <1>1, ClockAssumption DEF Check
<1>2. CASE Poll
  BY <1>2, ClockAssumption DEF Poll
<1>3. CASE GiveUp \/ Finished \/ UNCHANGED vars
  BY <1>3 DEF GiveUp, Finished, vars
<1>4. CASE Tick \/ Wake
  BY <1>4 DEF Tick, Wake
<1>5. CASE ClientTouch
  BY <1>5, StampBelow DEF ClientTouch, Absent, None
<1>6. QED
  BY <1>1, <1>2, <1>3, <1>4, <1>5 DEF Next

(* check() never ends before it is called, whatever the constants. *)
THEOREM TypeCorrect == Spec => []TypeOK
<1>1. QED
  BY TypeInit, TypeStep, PTL DEF Spec
-----------------------------------------------------------------------------
(* The strengthening of SeenIsSound.  The log's mtime is never later     *)
(* than the clock, so when the loop starts (start = time.time()) no      *)
(* earlier write can be later than start; a later-than-start mtime       *)
(* inside the loop therefore comes from a write the client made after    *)
(* start, which the auxiliary touched records.                           *)
SeenInv ==
    /\ mtime # Absent => mtime <= now
    /\ pc \in {"loop", "sleep"} /\ mtime # Absent /\ mtime > start => touched # None
    /\ SeenIsSound

LEMMA SeenInit == Init => SeenInv
  BY StampBelow DEF Init, SeenInv, SeenIsSound, Absent, None

LEMMA SeenStep == TypeOK /\ SeenInv /\ [Next]_vars => SeenInv'
<1> SUFFICES ASSUME TypeOK, SeenInv, [Next]_vars PROVE SeenInv'
  OBVIOUS
<1> USE DEF SeenInv, SeenIsSound, TypeOK, Absent, None, Done
<1>1. CASE Check
  BY <1>1 DEF Check
<1>2. CASE Poll
  BY <1>2 DEF Poll
<1>3. CASE GiveUp \/ Finished \/ UNCHANGED vars
  BY <1>3 DEF GiveUp, Finished, vars
<1>4. CASE Tick \/ Wake
  BY <1>4 DEF Tick, Wake
<1>5. CASE ClientTouch
  <2>1. Stamp(now) <= now /\ Stamp(now) \in Nat
    BY StampBelow
  <2>2. QED
    BY <1>5, <2>1 DEF ClientTouch
<1>6. QED
  BY <1>1, <1>2, <1>3, <1>4, <1>5 DEF Next

(* check() passes only on a write the client made after the check       *)
(* started, for every clock resolution, oversleep, mtime granularity and *)
(* set of timeouts.                                                       *)
THEOREM SeenIsSoundHolds == Spec => []SeenIsSound
<1>1. Init => TypeOK /\ SeenInv
  BY TypeInit, SeenInit
<1>2. TypeOK /\ SeenInv /\ [Next]_vars => (TypeOK /\ SeenInv)'
  BY TypeStep, SeenStep
<1>3. TypeOK /\ SeenInv => SeenIsSound
  BY DEF SeenInv
<1>4. QED
  BY <1>1, <1>2, <1>3, PTL DEF Spec
-----------------------------------------------------------------------------
(* The strengthening of WindowHonoured, for a file system that stamps    *)
(* writes to the tick.  A write after start is stamped later than start, *)
(* so the next poll sees it; the loop only sleeps after a poll that saw  *)
(* nothing, and then any later write comes after that poll; polls are at *)
(* least a second apart, so after the k-th sleep the clock is at least   *)
(* start + k seconds, and when the loop gives up (after cfgTimeout + 1   *)
(* sleeps) the last poll was no earlier than start + cfgTimeout seconds. *)
WinInv ==
    /\ pc = "idle" => touched = None
    /\ touched # None => /\ touched <= now /\ touched > start
                         /\ mtime # Absent /\ mtime >= touched
    /\ pc = "loop" => now >= start + (cfgTimeout - timeout) * Second
    /\ pc = "sleep" => /\ timeout >= 0
                       /\ wake >= start + (cfgTimeout - timeout + 1) * Second
                       /\ now >= wake - Second
                       /\ touched = None \/ touched >= wake - Second
    /\ pc = "loop" /\ timeout < 0 => touched = None \/ touched >= start + cfgTimeout * Second
    /\ WindowHonoured

(* Arithmetic the loop's bookkeeping rests on. *)
LEMMA SecondsArith ==
    ASSUME NEW c \in Int, NEW t \in Int
    PROVE  /\ (c - t + 1) * Second = (c - t) * Second + Second
           /\ (c - (t - 1)) * Second = (c - t + 1) * Second
           /\ t < 0 => (c - t) * Second >= c * Second
           /\ t = 0 => (c - t + 1) * Second - Second = c * Second
  BY ClockAssumption

LEMMA WinInit == Init => WinInv
  BY DEF Init, WinInv, WindowHonoured, None

LEMMA WinStep ==
    ASSUME Gran = 1
    PROVE  TypeOK /\ WinInv /\ [Next]_vars => WinInv'
<1> SUFFICES ASSUME TypeOK, WinInv, [Next]_vars PROVE WinInv'
  OBVIOUS
<1> USE ClockAssumption DEF WinInv, WindowHonoured, TypeOK, Absent, None, Done
<1>1. CASE Check
  BY <1>1 DEF Check
<1>2. CASE Poll
  <2>1. (cfgTimeout - timeout + 1) * Second = (cfgTimeout - timeout) * Second + Second
    BY SecondsArith
  <2>2. QED
    BY <1>2, <2>1 DEF Poll
<1>3. CASE GiveUp \/ Finished \/ UNCHANGED vars
  BY <1>3 DEF GiveUp, Finished, vars
<1>4. CASE Tick
  BY <1>4 DEF Tick
<1>5. CASE Wake
  <2>1. /\ (cfgTimeout - (timeout - 1)) * Second = (cfgTimeout - timeout + 1) * Second
        /\ timeout = 0 => (cfgTimeout - timeout + 1) * Second - Second = cfgTimeout * Second
    BY SecondsArith
  <2>2. QED
    BY <1>5, <2>1 DEF Wake
<1>6. CASE ClientTouch
  <2>1. Stamp(now) = now
    BY DEF Stamp
  <2>2. timeout < 0 => (cfgTimeout - timeout) * Second >= cfgTimeout * Second
    BY SecondsArith
  <2>3. QED
    BY <1>6, <2>1, <2>2 DEF ClientTouch
<1>7. QED
  BY <1>1, <1>2, <1>3, <1>4, <1>5, <1>6 DEF Next

(* On a file system that stamps writes to the clock's resolution, check() *)
(* raises the lost-connection error only if the client wrote nothing in  *)
(* the connectivityTimeout seconds after the start, for every clock      *)
(* resolution, oversleep and set of timeouts.  With a coarser stamp the  *)
(* property fails: a write just after start is stamped at start.         *)
THEOREM WindowHonouredHolds ==
    ASSUME Gran = 1
    PROVE  Spec => []WindowHonoured
<1>1. Init => TypeOK /\ WinInv
  BY TypeInit, WinInit
<1>2. TypeOK /\ WinInv /\ [Next]_vars => (TypeOK /\ WinInv)'
  BY TypeStep, WinStep
<1>3. TypeOK /\ WinInv => WindowHonoured
  BY DEF WinInv
<1>4. QED
  BY <1>1, <1>2, <1>3, PTL DEF Spec
=============================================================================
