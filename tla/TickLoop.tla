------------------------------ MODULE TickLoop ------------------------------
(***************************************************************************)
(* The server process, crates/server/src/tick_loop.rs: it waits for a      *)
(* first session, then alternates draining the transport and stepping the  *)
(* server until the match is over.  The single thread is a program counter *)
(* pc over the server of module ServerEdge.                                *)
(*                                                                         *)
(* The transport (ENet, external) is what host.service() may return next:  *)
(* a connect, packet or disconnect of one of max_sessions peer slots, an   *)
(* error, or nothing.  A slot is free, then connected, then free again;    *)
(* packets only come from connected slots.  Within that, any order and any *)
(* loss is possible, so no queue is kept.                                  *)
(***************************************************************************)
EXTENDS ServerEdge

CONSTANTS
    MAX_CONSECUTIVE_SERVICE_ERRORS,
    MaxConnects           \* bound: number of connections ever made

ASSUME LoopAssumption ==
    /\ MAX_CONSECUTIVE_SERVICE_ERRORS \in Nat \ {0, 1}
    /\ MaxConnects \in Nat

\* Option<SessionId>: no session is None.
ASSUME NoneIsNoSession == None \notin Nat

VARIABLES
    pc,                   \* where the thread of run() is
    resume,               \* the drain accept_and_welcome returns to
    peer_sessions,        \* peer slot -> session_id
    welcoming,            \* the session accept_and_welcome is about to welcome
    consecutive_errors,   \* of the current drain
    deadline_passed,      \* Instant::now() >= accept_deadline
    connected,            \* external: the connected peer slots
    connection,           \* history: peer slot -> serial number of its connection
    connects,             \* history: connections made so far
    accepted_on,          \* history: session_id -> connection that was accepted
    early_sessions        \* history: sessions accepted before the match began

loop_vars    == <<pc, resume, peer_sessions, welcoming, consecutive_errors,
                  deadline_passed>>
enet_vars    == <<connected, connection, connects>>
history_vars == <<accepted_on, early_sessions>>
all_vars     == <<server_vars, loop_vars, enet_vars, history_vars>>

Peers == 1 .. max_sessions

LoopInit ==
    /\ ServerInit
    /\ pc = "await"
    /\ resume = "await"
    /\ peer_sessions = EmptyMap
    /\ welcoming = None
    /\ consecutive_errors = 0
    /\ deadline_passed = FALSE
    /\ connected = {}
    /\ connection = EmptyMap
    /\ connects = 0
    /\ accepted_on = EmptyMap
    /\ early_sessions = {}

Draining == pc \in {"await_drain", "drain"}

\* Where a finished drain continues: the wait loop, or the step of this tick.
AfterDrain == IF pc = "await_drain" THEN "await" ELSE "advance"

-----------------------------------------------------------------------------
(***************************************************************************)
(* The connect phase.                                                      *)
(***************************************************************************)

\* The clock; only the connect phase looks at it.
DeadlinePasses ==
    /\ pc \in {"await", "await_drain"}
    /\ ~deadline_passed
    /\ deadline_passed' = TRUE
    /\ UNCHANGED <<server_vars, pc, resume, peer_sessions, welcoming,
                   consecutive_errors, enet_vars, history_vars>>

AwaitFirstSession_mutant_no_deadline ==
    /\ pc = "await"
    /\ pc' = IF session_count >= 1 THEN "loop" ELSE "await_drain"
    /\ deadline_passed' = FALSE
    /\ UNCHANGED <<server_vars, resume, peer_sessions, welcoming, consecutive_errors,
                   enet_vars, history_vars>>

\* `while session_count() < 1` and the deadline check.
AwaitFirstSession ==
    /\ pc = "await"
    /\ pc' = IF session_count >= 1 THEN "loop"
             ELSE IF deadline_passed THEN "timed_out"
             ELSE "await_drain"
    /\ deadline_passed' = FALSE      \* not looked at again, or not yet passed
    /\ UNCHANGED <<server_vars, resume, peer_sessions, welcoming, consecutive_errors,
                   enet_vars, history_vars>>

-----------------------------------------------------------------------------
(***************************************************************************)
(* What one call of host.service() may bring, in either drain.  Every      *)
(* success leaves consecutive_errors as it is.                             *)
(***************************************************************************)

\* Slots that were never used are interchangeable, so they are taken in order.
ServiceConnect(q) ==
    /\ Draining
    /\ q \notin connected
    /\ 1 .. q - 1 \subseteq DOMAIN connection
    /\ connects < MaxConnects
    /\ connected' = connected \cup {q}
    /\ connects' = connects + 1
    /\ connection' = MapInsert(connection, q, connects + 1)
    /\ UNCHANGED <<server_vars, loop_vars, history_vars>>

\* A ClientHello on the control channel from a peer that has no session: the
\* first half of accept_and_welcome.
ServiceHello_mutant_peer_not_checked(q) ==
    /\ Draining
    /\ q \in connected
    /\ accept_session
    /\ peer_sessions' = MapInsert(peer_sessions, q, next_session_id)
    /\ welcoming' = next_session_id
    /\ resume' = pc
    /\ pc' = "welcome"
    /\ accepted_on' = MapInsert(accepted_on, next_session_id, connection[q])
    /\ early_sessions' = IF pc = "await_drain" THEN early_sessions \cup {next_session_id}
                         ELSE early_sessions
    /\ UNCHANGED <<consecutive_errors, deadline_passed, enet_vars>>

ServiceHello(q) ==
    /\ Draining
    /\ q \in connected
    /\ q \notin DOMAIN peer_sessions
    /\ accept_session
    /\ peer_sessions' = MapInsert(peer_sessions, q, next_session_id)
    /\ welcoming' = next_session_id
    /\ resume' = pc
    /\ pc' = "welcome"
    /\ accepted_on' = MapInsert(accepted_on, next_session_id, connection[q])
    /\ early_sessions' = IF pc = "await_drain" THEN early_sessions \cup {next_session_id}
                         ELSE early_sessions
    /\ UNCHANGED <<consecutive_errors, deadline_passed, enet_vars>>

ServiceHelloPanics(q) ==
    /\ Draining
    /\ q \in connected
    /\ q \notin DOMAIN peer_sessions
    /\ accept_session_fails
    /\ pc' = "panicked"
    /\ UNCHANGED <<resume, peer_sessions, welcoming, consecutive_errors,
                   deadline_passed, enet_vars, history_vars>>

Welcome_mutant_not_recorded ==
    /\ pc = "welcome"
    /\ pc' = resume
    /\ resume' = "await"
    /\ welcoming' = None
    /\ UNCHANGED <<server_vars, peer_sessions, consecutive_errors,
                   deadline_passed, enet_vars, history_vars>>

\* The second half of accept_and_welcome; what is sent is not modelled here.
Welcome ==
    /\ pc = "welcome"
    /\ welcome_for(welcoming)
    /\ pc' = resume
    /\ resume' = "await"
    /\ welcoming' = None
    /\ UNCHANGED <<peer_sessions, consecutive_errors, deadline_passed,
                   enet_vars, history_vars>>

\* An InputCmdProto on the realtime channel; the connect phase ignores it.
ServiceInput(q, input) ==
    /\ pc = "drain"
    /\ q \in connected
    /\ q \in DOMAIN peer_sessions
    /\ receive_input(peer_sessions[q], input)
    /\ UNCHANGED <<loop_vars, enet_vars, history_vars>>

\* The tick loop forgets the peer and its session.
ServiceDisconnect_mutant_binding_kept(q) ==
    /\ pc = "drain"
    /\ q \in connected
    /\ connected' = connected \ {q}
    /\ q \in DOMAIN peer_sessions
    /\ disconnect_session(peer_sessions[q])
    /\ UNCHANGED <<loop_vars, connection, connects, history_vars>>

\* As if the connect phase's arm were used in the tick loop too.
ServiceDisconnect_mutant_session_kept(q) ==
    /\ pc = "drain"
    /\ q \in connected
    /\ connected' = connected \ {q}
    /\ UNCHANGED <<server_vars, loop_vars, connection, connects, history_vars>>

ServiceDisconnect(q) ==
    /\ pc = "drain"
    /\ q \in connected
    /\ connected' = connected \ {q}
    /\ IF q \in DOMAIN peer_sessions
       THEN disconnect_session(peer_sessions[q])
       ELSE UNCHANGED server_vars
    /\ peer_sessions' = MapRemove(peer_sessions, {q})
    /\ UNCHANGED <<pc, resume, welcoming, consecutive_errors, deadline_passed,
                   connection, connects, history_vars>>

\* The connect phase's `Ok(Some(_)) => {}`: the disconnect is swallowed.
ServiceDisconnectIgnored(q) ==
    /\ pc = "await_drain"
    /\ q \in connected
    /\ connected' = connected \ {q}
    /\ UNCHANGED <<server_vars, loop_vars, connection, connects, history_vars>>

\* The drain is over, and its error counter with it.
ServiceNone ==
    /\ Draining
    /\ pc' = AfterDrain
    /\ consecutive_errors' = 0
    /\ UNCHANGED <<server_vars, resume, peer_sessions, welcoming, deadline_passed,
                   enet_vars, history_vars>>

ServiceError ==
    /\ Draining
    /\ IF consecutive_errors + 1 >= MAX_CONSECUTIVE_SERVICE_ERRORS
       THEN pc' = AfterDrain /\ consecutive_errors' = 0
       ELSE pc' = pc /\ consecutive_errors' = consecutive_errors + 1
    /\ UNCHANGED <<server_vars, resume, peer_sessions, welcoming, deadline_passed,
                   enet_vars, history_vars>>

-----------------------------------------------------------------------------
(***************************************************************************)
(* The paced tick loop.  Pacing only delays, so it is not seen here.       *)
(***************************************************************************)

LoopContinues ==
    /\ pc = "loop"
    /\ ~should_end_match
    /\ pc' = "drain"
    /\ UNCHANGED <<server_vars, resume, peer_sessions, welcoming, consecutive_errors,
                   deadline_passed, enet_vars, history_vars>>

Advance ==
    /\ pc = "advance"
    /\ step
    /\ pc' = "loop"
    /\ UNCHANGED <<resume, peer_sessions, welcoming, consecutive_errors,
                   deadline_passed, enet_vars, history_vars>>

LoopEnds ==
    /\ pc = "loop"
    /\ should_end_match
    /\ finalize
    /\ pc' = "done"
    /\ UNCHANGED <<resume, peer_sessions, welcoming, consecutive_errors,
                   deadline_passed, enet_vars, history_vars>>

Ended == pc \in {"done", "timed_out", "panicked"}

Terminated == Ended /\ UNCHANGED all_vars

ThreadStep ==
    \/ AwaitFirstSession
    \/ Welcome
    \/ ServiceNone
    \/ LoopContinues
    \/ Advance
    \/ LoopEnds

ServiceEvent ==
    \/ \E q \in Peers : ServiceConnect(q)
    \/ \E q \in Peers : ServiceHello(q)
    \/ \E q \in Peers : ServiceHelloPanics(q)
    \/ \E q \in Peers, input \in InputCmd : ServiceInput(q, input)
    \/ \E q \in Peers : ServiceDisconnect(q)
    \/ \E q \in Peers : ServiceDisconnectIgnored(q)
    \/ ServiceError

LoopNext == ThreadStep \/ ServiceEvent \/ DeadlinePasses \/ Terminated

LoopSpec == LoopInit /\ [][LoopNext]_all_vars

(***************************************************************************)
(* Fairness: the thread is scheduled, time passes, and a drain does not go *)
(* on for ever, that is, service() eventually finds nothing (in LoopNext   *)
(* it may at any moment).                                                  *)
(***************************************************************************)
FairLoopSpec == LoopSpec /\ WF_all_vars(ThreadStep) /\ WF_all_vars(DeadlinePasses)

-----------------------------------------------------------------------------
(***************************************************************************)
(* Properties.                                                             *)
(***************************************************************************)

\* accept_session's comment on its panics: with no more peer slots than
\* max_sessions the assertion never fails, however peers come and go.
NeverPanics == status # "panicked"

\* accept_and_welcome and the Disconnect arm: the server's sessions are exactly
\* the ones some peer slot is bound to, each by one slot.
PeerBindings ==
    /\ Range(peer_sessions) = DOMAIN sessions
    /\ IsInjective(peer_sessions)

\* receive_input's comment: no input reaches a session before its welcome, so
\* every connected session has a floor whenever an input can arrive.
WelcomedBeforeInput == pc # "welcome" => DOMAIN last_emitted_floor = DOMAIN sessions

BoundToItsConnection(q) ==
    /\ q \in connected
    /\ accepted_on[peer_sessions[q]] = connection[q]

\* The Disconnect arm of the tick loop: a slot is bound to the session of the
\* connection that holds it now; only sessions accepted while waiting for the
\* first one can be bound to a connection that is gone.
OnlyEarlyBindingsStale ==
    \A q \in DOMAIN peer_sessions :
        peer_sessions[q] \notin early_sessions => BoundToItsConnection(q)

\* ADR-0006 startup behaviour (welcome_for, validate_input): the first
\* input_lead_ticks inputs applied for a player, whenever it joins, are the
\* neutral fallback, because no client can aim below its floor.
StartupNeutral ==
    IdsUnique =>
        \A i \in DOMAIN replay_recorder.inputs :
            LET a == replay_recorder.inputs[i] IN
            (\A j \in DOMAIN replay_recorder.inputs :
                replay_recorder.inputs[j].player_id = a.player_id =>
                    a.tick - replay_recorder.inputs[j].tick < input_lead_ticks)
            => a.is_fallback /\ a.move_dir = 0

\* run returns: the match reaches its end or nobody comes before the deadline.
Terminates == <>Ended

\* The comment in the Disconnect arm: a reconnect that reuses a peer slot never
\* resolves to the session of an earlier connection.
NoStaleBinding == \A q \in DOMAIN peer_sessions : q \in connected => BoundToItsConnection(q)
=============================================================================
