---------------------------- MODULE SimPortTimers ----------------------------
(***************************************************************************)
(* The simulator port, src/SimPort/SimPort.cpp: Enable and Disable run on *)
(* the pEnableDisableSync strand and start (PortUp) or cancel (PortDown)  *)
(* one asio timer per point with an update interval; each timer's handler *)
(* runs SpawnEvent, which publishes a simulated value unless the point is *)
(* forced and re-arms the same timer.  Force and Release come from the UI *)
(* thread.  Event (a control) publishes the control's feedback points:  *)
(* a LATCH point on or off, a PULSE point on with a timer that publishes *)
(* it off again.                                                          *)
(*                                                                         *)
(* A timer is a chain: "wait" (async_wait pending), "ok" (expired, handler *)
(* queued with success), "abort" (cancelled, handler queued with          *)
(* operation_aborted) or "none" (no handler left).  The handlers do not   *)
(* look at err_code (FIXME in the code): an aborted handler that runs     *)
(* while enabled continues its chain.                                     *)
(***************************************************************************)
EXTENDS Naturals, FiniteSets, SequencesExt

CONSTANTS
    Binaries,   \* binary points with an update interval
    Analogs,    \* analog points with an update interval
    Vals,       \* values a simulated or forced event may carry
    MaxUps,     \* bound on PortUp calls (each creates fresh timers)
    FbPts,      \* binary points that are control feedback points
    Feedback,   \* ControlFeedback of the control: sequence of [pt, mode]
    Codes,      \* control codes the master sends
    MaxPulses   \* bound on pulse-off timers pending on one point

Pts == Binaries \cup Analogs

ASSUME Binaries \cap Analogs = {} /\ Vals = {0, 1}
ASSUME Feedback \in Seq([pt : FbPts, mode : {"LATCH", "PULSE"}])

\* A timer created by the g-th PortUp for point p
Timer == Pts \X (1..MaxUps)

NoForce == [p |-> "none", v |-> 0]

VARIABLES
    enabled,    \* enabled
    ups,        \* PortUp calls so far
    chain,      \* per timer: [st, val]; val is the binary value to publish next
    Timers,     \* the timers in the Timers vector
    forced,     \* BinaryForcedStates / AnalogForcedStates
    forcing,    \* a Force call between setting the flag and publishing
    last,       \* last value published per point
    fb,         \* last value published per feedback point
    pulses      \* pulse-off timers pending per feedback point

vars == <<enabled, ups, chain, Timers, forced, forcing, last, fb, pulses>>

Chain == [st : {"none", "wait", "ok", "abort"}, val : Vals]

-----------------------------------------------------------------------------
Init ==
    /\ enabled = FALSE
    /\ ups = 0
    /\ chain = [t \in Timer |-> [st |-> "none", val |-> 0]]
    /\ Timers = {}
    /\ forced = [p \in Pts |-> FALSE]
    /\ forcing = NoForce
    /\ last = [p \in Pts |-> 0]
    /\ fb = [p \in FbPts |-> 0]
    /\ pulses = [p \in FbPts |-> 0]

\* PortUp: for every point, publish its start value (0) and start a timer
\* whose first handler publishes the same start value.
PortUp ==
    LET g == ups + 1 IN
    /\ ups' = g
    /\ last' = [p \in Pts |-> 0]
    /\ chain' = [t \in Timer |-> IF t[2] = g THEN [st |-> "wait", val |-> 0] ELSE chain[t]]
    /\ Timers' = Timers \cup {<<p, g>> : p \in Pts}

\* PortDown: cancel every timer of the Timers vector and clear it.  A wait
\* that has already expired ("ok") is not affected.
PortDown ==
    /\ chain' = [t \in Timer |-> IF t \in Timers /\ chain[t].st = "wait"
                                 THEN [chain[t] EXCEPT !.st = "abort"] ELSE chain[t]]
    /\ Timers' = {}

\* Enable, as run on the strand
Enable ==
    /\ ~enabled
    /\ ups < MaxUps
    /\ enabled' = TRUE
    /\ PortUp
    /\ UNCHANGED <<forced, forcing, fb, pulses>>

\* Disable, as run on the strand
Disable ==
    /\ enabled
    /\ enabled' = FALSE
    /\ PortDown
    /\ UNCHANGED <<ups, forced, forcing, last, fb, pulses>>

\* A pending wait expires: its handler is queued with success.
Expire(t) ==
    /\ chain[t].st = "wait"
    /\ chain' = [chain EXCEPT ![t].st = "ok"]
    /\ UNCHANGED <<enabled, ups, Timers, forced, forcing, last, fb, pulses>>

\* Mutant: the binary value is stepped instead of toggled.
SpawnBinaryIncrement(t, p) ==
    /\ last' = IF forced[p] THEN last ELSE [last EXCEPT ![p] = chain[t].val]
    /\ chain' = [chain EXCEPT ![t] = [st |-> "wait", val |-> chain[t].val + 1]]

\* SpawnEvent for a binary point: restart the timer; under the shared lock
\* publish val unless forced; wait again with the value toggled.
SpawnBinary(t, p) ==
    /\ last' = IF forced[p] THEN last ELSE [last EXCEPT ![p] = chain[t].val]
    /\ chain' = [chain EXCEPT ![t] = [st |-> "wait", val |-> 1 - chain[t].val]]

\* SpawnEvent for an analog point: the same with a random value around the
\* mean (any value of Vals).
SpawnAnalog(t, p) ==
    \E v \in Vals :
        /\ last' = IF forced[p] THEN last ELSE [last EXCEPT ![p] = v]
        /\ chain' = [chain EXCEPT ![t].st = "wait"]

\* Mutant: the handler spawns without looking at enabled.
HandlerNoCheck(t) ==
    /\ chain[t].st \in {"ok", "abort"}
    /\ IF t[1] \in Binaries THEN SpawnBinary(t, t[1]) ELSE SpawnAnalog(t, t[1])
    /\ UNCHANGED <<enabled, ups, Timers, forced, forcing, fb, pulses>>

\* The queued handler of timer t runs: if(enabled) SpawnEvent(...), whatever
\* err_code says; otherwise the chain ends.
Handler(t) ==
    /\ chain[t].st \in {"ok", "abort"}
    /\ IF enabled
       THEN IF t[1] \in Binaries THEN SpawnBinary(t, t[1]) ELSE SpawnAnalog(t, t[1])
       ELSE /\ chain' = [chain EXCEPT ![t].st = "none"]
            /\ UNCHANGED last
    /\ UNCHANGED <<enabled, ups, Timers, forced, forcing, fb, pulses>>

\* Force(type, index, value): set the forced flag under the unique lock,
\* then (outside the lock) publish the forced value.
Force(p, v) ==
    /\ forcing = NoForce
    /\ forced' = [forced EXCEPT ![p] = TRUE]
    /\ forcing' = [p |-> p, v |-> v]
    /\ UNCHANGED <<enabled, ups, chain, Timers, last, fb, pulses>>

ForcePublish ==
    /\ forcing # NoForce
    /\ last' = [last EXCEPT ![forcing.p] = forcing.v]
    /\ forcing' = NoForce
    /\ UNCHANGED <<enabled, ups, chain, Timers, forced, fb, pulses>>

\* Release(type, index)
Release(p) ==
    /\ forcing = NoForce
    /\ forced' = [forced EXCEPT ![p] = FALSE]
    /\ UNCHANGED <<enabled, ups, chain, Timers, forcing, last, fb, pulses>>

\* Control codes each feedback mode handles; any other code makes the loop
\* answer NOT_SUPPORTED and return, after the entries before it were done.
PulseCodes == {"PULSE_ON", "LATCH_ON", "LATCH_OFF", "CLOSE_PULSE_ON", "TRIP_PULSE_ON"}
LatchOnCodes == {"LATCH_ON", "CLOSE_PULSE_ON", "PULSE_ON"}
LatchOffCodes == {"LATCH_OFF", "TRIP_PULSE_ON", "PULSE_OFF"}

Supports(f, code) ==
    IF f.mode = "PULSE" THEN code \in PulseCodes ELSE code \in LatchOnCodes \cup LatchOffCodes

\* The number of feedback entries the loop publishes before it returns
Handled(code) ==
    LET bad == SelectInSeq(Feedback, LAMBDA f : ~Supports(f, code))
    IN IF bad = 0 THEN Len(Feedback) ELSE bad - 1

\* The value an entry publishes: a pulse and a latch-on publish on_value
FbValue(f, code) == IF f.mode = "PULSE" \/ code \in LatchOnCodes THEN 1 ELSE 0

\* Event(ControlRelayOutputBlock) for the configured control, under the
\* shared lock: walk ControlFeedback in order, publishing each entry's
\* value and starting a pulse-off timer for each PULSE entry, until an
\* entry does not support the code.  Non-CROB events, other indexes and a
\* control without feedback only answer a status and change nothing.
Event(code) ==
    LET n == Handled(code)
        ks(p) == {k \in 1..n : Feedback[k].pt = p}
    IN /\ pulses' = [p \in FbPts |-> pulses[p] + Cardinality({k \in ks(p) : Feedback[k].mode = "PULSE"})]
       /\ \A p \in FbPts : pulses'[p] <= MaxPulses    \* model bound only
       /\ fb' = [p \in FbPts |-> IF ks(p) = {} THEN fb[p] ELSE FbValue(Feedback[Max(ks(p))], code)]
       /\ UNCHANGED <<enabled, ups, chain, Timers, forced, forcing, last>>

\* A pulse-off timer expires after onTimeMS and its handler publishes
\* off_value, whatever err_code and enabled say; nothing cancels it.
PulseOff(p) ==
    /\ pulses[p] > 0
    /\ pulses' = [pulses EXCEPT ![p] = @ - 1]
    /\ fb' = [fb EXCEPT ![p] = 0]
    /\ UNCHANGED <<enabled, ups, chain, Timers, forced, forcing, last>>

Next ==
    \/ Enable \/ Disable
    \/ \E t \in Timer : Expire(t) \/ Handler(t)
    \/ \E p \in Pts, v \in Vals : Force(p, v)
    \/ ForcePublish
    \/ \E p \in Pts : Release(p)
    \/ \E code \in Codes : Event(code)
    \/ \E p \in FbPts : PulseOff(p)

\* The io_service keeps running expired timers and queued handlers (some
\* timer step happens while one is possible; no fairness between timers is
\* assumed), every pending pulse-off timer eventually fires, and a Force
\* call that has begun returns.  The user's Enable/Disable/Force/Release
\* and the master's controls are not fair.
Fairness ==
    /\ WF_vars(\E t \in Timer : Expire(t) \/ Handler(t))
    /\ WF_vars(ForcePublish)
    /\ \A p \in FbPts : WF_vars(PulseOff(p))

Spec == Init /\ [][Next]_vars
FairSpec == Spec /\ Fairness

-----------------------------------------------------------------------------
TypeOK ==
    /\ enabled \in BOOLEAN /\ ups \in 0..MaxUps
    /\ chain \in [Timer -> Chain] /\ Timers \subseteq Timer
    /\ forced \in [Pts -> BOOLEAN]
    /\ forcing \in {NoForce} \cup [p : Pts, v : Vals]
    /\ last \in [Pts -> Vals]
    /\ fb \in [FbPts -> {0, 1}] /\ pulses \in [FbPts -> 0..MaxPulses]

\* Timers of point p that are armed: waiting, or expired with the handler queued
Armed(p) == {g \in 1..MaxUps : chain[<<p, g>>].st \in {"wait", "ok"}}

\* Each point has at most one armed timer: PortUp starts one timer per
\* point and SpawnEvent re-arms that same timer.  A handler cancelled by
\* PortDown that runs after the next Enable ignores err_code ("FIXME:
\* check err_code?") and keeps its old chain going beside the new one.
OneTimerPerPoint == \A p \in Pts : Cardinality(Armed(p)) <= 1

\* Once the port is disabled (and stays so), every timer chain ends: each
\* handler finds enabled false and does not re-arm ("else - break timer
\* cycle").
QuietWhenDisabled ==
    ~enabled ~> (enabled \/ \A t \in Timer : chain[t].st = "none")

=============================================================================
