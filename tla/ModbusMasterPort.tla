-------------------------- MODULE ModbusMasterPort --------------------------
(***************************************************************************)
(* Lifecycle of the Modbus TCP master port, src/ModbusPort/               *)
(* ModbusMasterPort.cpp: Enable, Disable, Connect, Disconnect, DoPoll and *)
(* Event(connected), with the two asio timers (TCP retry and poll).       *)
(*                                                                         *)
(* A timer is modelled by its pending waits and its queued handlers.      *)
(* expires_at() and cancel() abort the pending waits (their handlers see  *)
(* operation_aborted and do nothing); once a wait has expired its handler *)
(* is queued with success and can no longer be cancelled.  Handlers run   *)
(* on the io_service thread, interleaved with the API calls Enable,       *)
(* Disable and Event, which come from other threads; Disable is two      *)
(* steps (Disconnect, then enabled = false).  Enable and Connect read and *)
(* then set enabled and stack_enabled without a lock, so each check and   *)
(* each set is a step of its own on the calling thread (pc).              *)
(***************************************************************************)
EXTENDS Naturals

CONSTANTS
    MaxFail,      \* bound on failed modbus_connect calls
    MaxPending    \* bound on waits/handlers pending on one timer

ServerTypes == {"PERSISTENT", "ONDEMAND", "MANUAL"}

\* The threads that call into the port: the user's API calls, the
\* io_service running timer handlers, and the upstream port's Event.
Thr == {"api", "io", "up"}

VARIABLES
    enabled, stackEnabled,   \* enabled, stack_enabled
    conn,                    \* libmodbus context: "closed", "open", or "lost"
                             \* (open, but the slave has dropped the connection)
    mbOk,                    \* BuildOrRebuild created the context (mb != NULL)
    stype,                   \* mAddrConf.ServerType
    retryWaits, retryQueued, \* pTCPRetryTimer
    pollWaits, pollQueued,   \* pPollTimer
    fails,                   \* failed modbus_connect calls so far
    disabling,               \* Disable has run Disconnect but not yet cleared enabled
    wantEnabled,             \* the last of Enable/Disable the user called
    connectOnOpen,           \* modbus_connect was called on an open context
    pc                       \* per thread: "idle" or where it is in Enable/Connect

vars == <<enabled, stackEnabled, conn, mbOk, stype, retryWaits, retryQueued,
          pollWaits, pollQueued, fails, disabling, wantEnabled, connectOnOpen, pc>>

timers == <<retryWaits, retryQueued, pollWaits, pollQueued>>

-----------------------------------------------------------------------------
(* Inline bodies.  Each is a relation between the pre-state (unprimed)    *)
(* and the post-state of the variables it owns; the caller fixes enabled. *)

\* Mutant: the poll timer is re-armed without moving its expiry, so the
\* pending wait is not aborted.
DoPollNoCancel(en) ==
    IF en THEN pollWaits' = pollWaits + 1 ELSE UNCHANGED pollWaits

\* Mutant: DoPoll without its enabled check.
DoPollNoEnabledCheck(en) ==
    pollWaits' = 1

\* DoPoll: with the port enabled, run the four reads (they fail on a
\* closed context and only publish events) and re-arm the poll timer:
\* expires_at() aborts the pending wait, async_wait adds one.
DoPoll(en) ==
    IF en THEN pollWaits' = 1 ELSE UNCHANGED pollWaits

\* Connect(), after its stack_enabled check, with enabled = en:
\* stack_enabled = true, then the mb == NULL early return, modbus_connect
\* failing (arm the retry timer, "try again later") or succeeding (DoPoll).
ConnectBody(en) ==
    /\ stackEnabled' = TRUE
    /\ IF ~mbOk
       THEN UNCHANGED <<conn, retryWaits, pollWaits, fails, connectOnOpen>>
       ELSE /\ connectOnOpen' = (connectOnOpen \/ conn # "closed")
            /\ \/ /\ fails < MaxFail                 \* modbus_connect == -1
                  /\ fails' = fails + 1
                  /\ retryWaits' = 1
                  /\ UNCHANGED <<conn, pollWaits>>
               \/ /\ conn' = "open"                  \* connected: poll
                  /\ DoPoll(en)
                  /\ UNCHANGED <<fails, retryWaits>>

Goto(t, l) == pc' = [pc EXCEPT ![t] = l]

\* Enable(), entered on thread t: `if(enabled) return;`.  The check and
\* the assignment that follows are not under a lock.
EnterEnable(t) == Goto(t, IF enabled THEN "idle" ELSE "setEnabled")

\* Enable(): `enabled = true;`, then Connect() for a persistent server.
SetEnabled(t) ==
    /\ pc[t] = "setEnabled"
    /\ enabled' = TRUE
    /\ Goto(t, IF stype = "PERSISTENT" THEN "connect" ELSE "idle")
    /\ UNCHANGED <<stackEnabled, conn, mbOk, stype, timers, fails, disabling, wantEnabled, connectOnOpen>>

\* Connect(): `if(!enabled) return; if (stack_enabled) return;`
ConnectCheck(t) ==
    /\ pc[t] = "connect"
    /\ Goto(t, IF ~enabled \/ stackEnabled THEN "idle" ELSE "setStack")
    /\ UNCHANGED <<enabled, stackEnabled, conn, mbOk, stype, timers, fails, disabling, wantEnabled, connectOnOpen>>

\* Connect(): the rest, from `stack_enabled = true;` on.
ConnectSet(t) ==
    /\ pc[t] = "setStack"
    /\ ConnectBody(enabled)
    /\ Goto(t, "idle")
    /\ UNCHANGED <<enabled, mbOk, stype, retryQueued, pollQueued, disabling, wantEnabled>>

-----------------------------------------------------------------------------
Init ==
    /\ enabled = FALSE /\ stackEnabled = FALSE
    /\ conn = "closed"
    /\ mbOk \in BOOLEAN
    /\ stype \in ServerTypes
    /\ retryWaits = 0 /\ retryQueued = 0 /\ pollWaits = 0 /\ pollQueued = 0
    /\ fails = 0
    /\ disabling = FALSE
    /\ wantEnabled = FALSE
    /\ connectOnOpen = FALSE
    /\ pc = [t \in Thr |-> "idle"]

\* User: Enable()
Enable ==
    /\ pc["api"] = "idle" /\ ~disabling
    /\ EnterEnable("api")
    /\ wantEnabled' = TRUE
    /\ UNCHANGED <<enabled, stackEnabled, conn, mbOk, stype, timers, fails, disabling, connectOnOpen>>

\* User: Disable(), first step: Disconnect() cancels both timers and closes
\* the context if the stack was enabled.
DisableDisconnect ==
    /\ pc["api"] = "idle" /\ ~disabling
    /\ disabling' = TRUE
    /\ wantEnabled' = FALSE
    /\ IF stackEnabled
       THEN /\ stackEnabled' = FALSE
            /\ retryWaits' = 0 /\ pollWaits' = 0
            /\ conn' = IF mbOk THEN "closed" ELSE conn
       ELSE UNCHANGED <<stackEnabled, retryWaits, pollWaits, conn>>
    /\ UNCHANGED <<enabled, mbOk, stype, retryQueued, pollQueued, fails, connectOnOpen, pc>>

\* User: Disable(), second step: enabled = false
DisableFinish ==
    /\ disabling
    /\ disabling' = FALSE
    /\ enabled' = FALSE
    /\ UNCHANGED <<stackEnabled, conn, mbOk, stype, timers, fails, wantEnabled, connectOnOpen, pc>>

\* Upstream: Event(connected = true, ...): UNDEFINED if not enabled; an
\* on-demand server goes on to Connect().
UpstreamConnected ==
    /\ pc["up"] = "idle"
    /\ enabled
    /\ Goto("up", IF stype = "ONDEMAND" THEN "connect" ELSE "idle")
    /\ UNCHANGED <<enabled, stackEnabled, conn, mbOk, stype, timers, fails, disabling, wantEnabled, connectOnOpen>>

\* A timer's pending wait expires; its handler is queued with success.
RetryExpires ==
    /\ retryWaits > 0 /\ retryQueued < MaxPending
    /\ retryQueued' = retryQueued + 1 /\ retryWaits' = retryWaits - 1
    /\ UNCHANGED <<enabled, stackEnabled, conn, mbOk, stype, pollWaits, pollQueued, fails, disabling, wantEnabled, connectOnOpen, pc>>

PollExpires ==
    /\ pollWaits > 0 /\ pollQueued < MaxPending
    /\ pollQueued' = pollQueued + 1 /\ pollWaits' = pollWaits - 1
    /\ UNCHANGED <<enabled, stackEnabled, conn, mbOk, stype, retryWaits, retryQueued, fails, disabling, wantEnabled, connectOnOpen, pc>>

\* The slave drops the TCP connection.  Nothing in the port notices: the
\* reads of DoPoll fail, are logged, and the poll timer is re-armed.
ConnectionLost ==
    /\ conn = "open"
    /\ conn' = "lost"
    /\ UNCHANGED <<enabled, stackEnabled, mbOk, stype, timers, fails, disabling, wantEnabled, connectOnOpen, pc>>

\* The retry handler: this->Enable()
RetryHandler ==
    /\ pc["io"] = "idle"
    /\ retryQueued > 0
    /\ retryQueued' = retryQueued - 1
    /\ EnterEnable("io")
    /\ UNCHANGED <<enabled, stackEnabled, conn, mbOk, stype, retryWaits, pollWaits, pollQueued, fails, disabling, wantEnabled, connectOnOpen>>

\* The poll handler: this->DoPoll()
PollHandler ==
    /\ pc["io"] = "idle"
    /\ pollQueued > 0
    /\ pollQueued' = pollQueued - 1
    /\ DoPoll(enabled)
    /\ UNCHANGED <<enabled, stackEnabled, conn, mbOk, stype, retryWaits, retryQueued, fails, disabling, wantEnabled, connectOnOpen, pc>>

Next ==
    \/ Enable \/ DisableDisconnect \/ DisableFinish \/ UpstreamConnected
    \/ RetryExpires \/ PollExpires \/ RetryHandler \/ PollHandler
    \/ ConnectionLost
    \/ \E t \in Thr : SetEnabled(t) \/ ConnectCheck(t) \/ ConnectSet(t)

\* The io_service runs expired timers and their handlers; modbus_connect
\* eventually succeeds (MaxFail), and a Disable call that has started
\* returns.  A thread inside Enable or Connect goes on to finish the call.
\* The user and the upstream are not fair.
Fairness ==
    /\ \A t \in Thr : /\ WF_vars(SetEnabled(t)) /\ WF_vars(ConnectCheck(t))
                     /\ WF_vars(ConnectSet(t))
    /\ WF_vars(DisableFinish)
    /\ WF_vars(RetryExpires) /\ WF_vars(RetryHandler)
    /\ WF_vars(PollExpires) /\ WF_vars(PollHandler)

Spec == Init /\ [][Next]_vars
FairSpec == Spec /\ Fairness

-----------------------------------------------------------------------------
TypeOK ==
    /\ enabled \in BOOLEAN /\ stackEnabled \in BOOLEAN
    /\ conn \in {"closed", "open", "lost"} /\ mbOk \in BOOLEAN /\ stype \in ServerTypes
    /\ retryWaits \in 0..1 /\ pollWaits \in 0..1
    /\ retryQueued \in 0..MaxPending /\ pollQueued \in 0..MaxPending
    /\ fails \in 0..MaxFail
    /\ disabling \in BOOLEAN /\ wantEnabled \in BOOLEAN /\ connectOnOpen \in BOOLEAN
    /\ pc \in [Thr -> {"idle", "setEnabled", "connect", "setStack"}]

\* Connect() never calls modbus_connect on a context that is still open
\* (which would leak the open socket).  stack_enabled is meant to guard
\* Connect, and Disconnect closes the context whenever it clears it; but
\* `if(enabled) return; enabled = true;` in Enable and `if (stack_enabled)
\* return; stack_enabled = true;` in Connect are unlocked, so the API
\* thread and a retry handler (or the upstream Event) can both pass them.
NoConnectOnOpen == ~connectOnOpen

RetryReconnects ==
    (enabled /\ stype = "PERSISTENT" /\ mbOk) ~> (conn = "open" \/ ~enabled)

\* Once Disable has completed (and nothing enables the port again) the poll
\* timer falls quiet: a poll handler that runs between Disconnect and
\* enabled = false passes DoPoll's enabled check and re-arms the timer
\* Disconnect has just cancelled, but the handler of that wait finds enabled
\* false and returns without re-arming.
PollQuietWhenDisabled ==
    (~enabled /\ ~disabling) ~> (enabled \/ (pollWaits = 0 /\ pollQueued = 0))

=============================================================================
