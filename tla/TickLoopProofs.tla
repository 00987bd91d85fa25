----------------------------- MODULE TickLoopProofs -----------------------------
(***************************************************************************)
(* Theorems about the server process: the loop calls the server's          *)
(* operations only as module ServerEdge allows, so whatever holds for any  *)
(* caller holds in a match, and it keeps the peer slots, the sessions and  *)
(* their floors in step.                                                   *)
(***************************************************************************)
EXTENDS TickLoop, ServerEdgeRecordingProofs

-----------------------------------------------------------------------------
(***************************************************************************)
(* The loop implements the open server.                                    *)
(***************************************************************************)

\* What identifies the sessions the loop passes to the server.
CallerInv ==
    /\ TypeOK
    /\ next_session_id <= MaxAccepts + 1

\* Session ids handed out so far are within the bound on accepts.
LEMMA SessionsAreIds == CallerInv => DOMAIN sessions \subseteq SessionIds
BY ServerConfigAssumption DEF CallerInv, TypeOK, IdentityTypeOK, SessionIds

\* Each step of the loop is a call of one server operation or leaves the server alone.
LEMMA LoopStepIsServerStep ==
    CallerInv /\ [LoopNext]_all_vars => [ServerNext]_server_vars
<1> SUFFICES ASSUME CallerInv, [LoopNext]_all_vars PROVE [ServerNext]_server_vars
  OBVIOUS
<1>1. DOMAIN session_players = DOMAIN sessions
  BY DEF CallerInv, TypeOK, IdentityTypeOK
<1>2. CASE AwaitFirstSession \/ ServiceNone \/ LoopContinues \/ ServiceError
           \/ DeadlinePasses \/ Terminated \/ UNCHANGED all_vars
  BY <1>2 DEF AwaitFirstSession, ServiceNone, LoopContinues, ServiceError, DeadlinePasses,
              Terminated, all_vars
<1>3. CASE \E q \in Peers : ServiceConnect(q) \/ ServiceDisconnectIgnored(q)
  BY <1>3 DEF ServiceConnect, ServiceDisconnectIgnored
<1>4. CASE \E q \in Peers : ServiceHello(q) \/ ServiceHelloPanics(q)
  BY <1>4 DEF ServiceHello, ServiceHelloPanics, ServerNext
<1>5. CASE Welcome
  <2>1. welcome_for(welcoming)
    BY <1>5 DEF Welcome
  <2>2. welcoming \in SessionIds
    BY <2>1, SessionsAreIds DEF welcome_for
  <2> QED
    BY <2>1, <2>2 DEF ServerNext
<1>6. CASE Advance \/ LoopEnds
  BY <1>6 DEF Advance, LoopEnds, ServerNext
<1>7. CASE \E q \in Peers, input \in InputCmd : ServiceInput(q, input)
  <2>1. PICK q \in Peers, input \in InputCmd : receive_input(peer_sessions[q], input)
    BY <1>7 DEF ServiceInput
  <2>2. peer_sessions[q] \in SessionIds
    BY <1>1, <2>1, SessionsAreIds DEF receive_input
  <2> QED
    BY <2>1, <2>2 DEF ServerNext
<1>8. CASE \E q \in Peers : ServiceDisconnect(q)
  <2>1. PICK q \in Peers : disconnect_session(peer_sessions[q]) \/ UNCHANGED server_vars
    BY <1>8 DEF ServiceDisconnect
  <2>2. CASE disconnect_session(peer_sessions[q])
    <3>1. peer_sessions[q] \in SessionIds
      BY <2>2, SessionsAreIds DEF disconnect_session
    <3> QED
      BY <2>2, <3>1 DEF ServerNext
  <2> QED
    BY <2>1, <2>2
<1> QED
  BY <1>2, <1>3, <1>4, <1>5, <1>6, <1>7, <1>8 DEF LoopNext, ThreadStep, ServiceEvent

\* The bound on accepts is kept.
LEMMA AcceptsBounded ==
    CallerInv /\ [ServerNext]_server_vars => next_session_id' <= MaxAccepts + 1
<1> SUFFICES ASSUME CallerInv, [ServerNext]_server_vars
             PROVE  next_session_id' <= MaxAccepts + 1
  OBVIOUS
<1>1. next_session_id \in Nat /\ MaxAccepts \in Nat /\ next_session_id <= MaxAccepts + 1
  BY ServerConfigAssumption DEF CallerInv, TypeOK, IdentityTypeOK
<1>2. CASE accept_session
  BY <1>1, <1>2 DEF accept_session
<1>3. CASE ~accept_session
  BY <1>1, <1>3 DEF ServerNext, accept_session_fails, Panic, welcome_for, disconnect_session,
     receive_input, step, finalize, set_build_fingerprint, Stopped, server_vars, identity_vars
<1> QED
  BY <1>2, <1>3

\* The invariant that makes every step of the loop a step of the server.
LEMMA CallerInvariant == LoopSpec => []CallerInv
<1>1. LoopInit => CallerInv
  BY InitTypeOK, ServerConfigAssumption DEF LoopInit, ServerInit, CallerInv
<1>2. CallerInv /\ [LoopNext]_all_vars => CallerInv'
  <2> SUFFICES ASSUME CallerInv, [LoopNext]_all_vars PROVE CallerInv'
    OBVIOUS
  <2>1. [ServerNext]_server_vars
    BY LoopStepIsServerStep
  <2> QED
    BY <2>1, NextTypeOK, AcceptsBounded DEF CallerInv
<1> QED
  BY <1>1, <1>2, PTL DEF LoopSpec

\* The tick loop implements the open server of ServerEdge (run, drain_enet,
\* accept_and_welcome): every property proved for any caller of the server's
\* operations holds in every run of the process.
THEOREM LoopImplementsServer == LoopSpec => ServerSpec
<1>1. LoopInit => ServerInit
  BY DEF LoopInit
<1>2. CallerInv /\ [LoopNext]_all_vars => [ServerNext]_server_vars
  BY LoopStepIsServerStep
<1> QED
  BY <1>1, <1>2, CallerInvariant, PTL DEF LoopSpec, ServerSpec

-----------------------------------------------------------------------------
(***************************************************************************)
(* Peer slots, sessions and floors.                                        *)
(***************************************************************************)

Awaiting == pc \in {"await", "await_drain"} \/ (pc = "welcome" /\ resume = "await_drain")

\* Every session has been welcomed, except the one being welcomed now.
WelcomesInOrder ==
    IF pc = "welcome"
    THEN /\ resume \in {"await_drain", "drain"}
         /\ welcoming \in DOMAIN sessions
         /\ DOMAIN sessions = DOMAIN last_emitted_floor \cup {welcoming}
    ELSE DOMAIN last_emitted_floor = DOMAIN sessions

\* The history of the sessions: each was accepted on some connection, and while the
\* loop waits for its first session all of them are early.
SessionHistory ==
    /\ DOMAIN sessions \subseteq DOMAIN accepted_on
    /\ Awaiting => DOMAIN sessions \subseteq early_sessions
    /\ connected \subseteq DOMAIN connection

BindingsInv ==
    /\ DOMAIN peer_sessions \subseteq Peers
    /\ PeerBindings
    /\ WelcomesInOrder
    /\ SessionHistory
    /\ OnlyEarlyBindingsStale

\* Nobody is connected to a new server.
LEMMA InitBindings == LoopInit => BindingsInv
BY DEF LoopInit, ServerInit, EmptyMap, BindingsInv, PeerBindings, WelcomesInOrder,
       SessionHistory, OnlyEarlyBindingsStale, Range, IsInjective

binding_vars == <<sessions, peer_sessions, connected, connection, history_vars>>

\* The steps that bind and unbind nothing.
LEMMA QuietKeepsBindings ==
    ASSUME BindingsInv, UNCHANGED binding_vars,
           DOMAIN last_emitted_floor' = DOMAIN sessions,
           pc # "welcome", pc' # "welcome", Awaiting' => Awaiting
    PROVE  BindingsInv'
<1> USE DEF binding_vars, history_vars, BindingsInv
<1>1. PeerBindings' /\ DOMAIN peer_sessions' \subseteq Peers
  BY DEF PeerBindings
<1>2. WelcomesInOrder'
  BY DEF WelcomesInOrder
<1>3. SessionHistory'
  BY DEF SessionHistory
<1>4. OnlyEarlyBindingsStale'
  BY DEF OnlyEarlyBindingsStale, BoundToItsConnection
<1> QED
  BY <1>1, <1>2, <1>3, <1>4

\* Which steps these are.
LEMMA QuietSteps ==
    ASSUME TypeOK, BindingsInv,
           \/ AwaitFirstSession \/ ServiceNone \/ LoopContinues \/ Advance \/ LoopEnds
           \/ ServiceError \/ DeadlinePasses
           \/ \E q \in Peers : ServiceHelloPanics(q)
           \/ \E q \in Peers, input \in InputCmd : ServiceInput(q, input)
    PROVE  BindingsInv'
<1>1. UNCHANGED binding_vars
  BY DEF AwaitFirstSession, ServiceNone, LoopContinues, Advance, LoopEnds, ServiceError,
         DeadlinePasses, ServiceHelloPanics, ServiceInput, accept_session_fails, Panic,
         receive_input, step, finalize, binding_vars, server_vars, identity_vars, loop_vars,
         enet_vars, history_vars
<1>2. pc # "welcome" /\ pc' # "welcome" /\ (Awaiting' => Awaiting)
  BY DEF AwaitFirstSession, ServiceNone, LoopContinues, Advance, LoopEnds, ServiceError,
         DeadlinePasses, ServiceHelloPanics, ServiceInput, loop_vars, Draining, AfterDrain,
         Awaiting
<1>3. DOMAIN last_emitted_floor = DOMAIN sessions
  BY <1>2 DEF BindingsInv, WelcomesInOrder
<1>4. DOMAIN last_emitted_floor' = DOMAIN sessions
  <2>1. CASE Advance
    BY <2>1, StepEffect DEF Advance
  <2>2. CASE ~Advance
    BY <1>3, <2>2 DEF AwaitFirstSession, ServiceNone, LoopContinues, LoopEnds, ServiceError,
       DeadlinePasses, ServiceHelloPanics, ServiceInput, accept_session_fails, Panic,
       receive_input, finalize, server_vars
  <2> QED
    BY <2>1, <2>2
<1> QED
  BY <1>1, <1>2, <1>4, QuietKeepsBindings

\* A peer that connects takes a slot nobody holds; if the slot is still bound, then
\* to a session of the wait for the first one.
LEMMA ConnectKeepsBindings ==
    ASSUME BindingsInv, NEW q \in Peers, ServiceConnect(q)
    PROVE  BindingsInv'
<1>1. /\ connection' = MapInsert(connection, q, connects + 1)
      /\ connected' = connected \cup {q}
      /\ q \notin connected
      /\ UNCHANGED <<sessions, last_emitted_floor, peer_sessions, pc, resume, welcoming,
                     accepted_on, early_sessions>>
  BY DEF ServiceConnect, server_vars, identity_vars, loop_vars, history_vars
<1>2. /\ DOMAIN connection' = DOMAIN connection \cup {q}
      /\ \A x \in DOMAIN connection : x # q => connection'[x] = connection[x]
  BY <1>1 DEF MapInsert
<1>3. PeerBindings' /\ DOMAIN peer_sessions' \subseteq Peers /\ WelcomesInOrder'
  BY <1>1 DEF BindingsInv, PeerBindings, WelcomesInOrder
<1>4. SessionHistory'
  BY <1>1, <1>2 DEF BindingsInv, SessionHistory, Awaiting
<1>5. OnlyEarlyBindingsStale'
  BY <1>1, <1>2 DEF BindingsInv, OnlyEarlyBindingsStale, BoundToItsConnection, SessionHistory
<1> QED
  BY <1>3, <1>4, <1>5 DEF BindingsInv

\* A disconnect during the wait is ignored, which only early bindings can suffer from.
LEMMA IgnoredKeepsBindings ==
    ASSUME BindingsInv, NEW q \in Peers, ServiceDisconnectIgnored(q)
    PROVE  BindingsInv'
<1>1. /\ connected' = connected \ {q}
      /\ pc = "await_drain"
      /\ UNCHANGED <<sessions, last_emitted_floor, peer_sessions, pc, resume, welcoming,
                     accepted_on, early_sessions, connection>>
  BY DEF ServiceDisconnectIgnored, server_vars, identity_vars, loop_vars, history_vars
<1>2. PeerBindings' /\ DOMAIN peer_sessions' \subseteq Peers /\ WelcomesInOrder'
  BY <1>1 DEF BindingsInv, PeerBindings, WelcomesInOrder
<1>3. SessionHistory'
  BY <1>1 DEF BindingsInv, SessionHistory, Awaiting
<1>4. \A x \in DOMAIN peer_sessions : peer_sessions[x] \in early_sessions
  BY <1>1 DEF BindingsInv, PeerBindings, Range, SessionHistory, Awaiting
<1>5. OnlyEarlyBindingsStale'
  BY <1>1, <1>4 DEF OnlyEarlyBindingsStale
<1> QED
  BY <1>2, <1>3, <1>5 DEF BindingsInv

\* The session that was just accepted gets its floor.
LEMMA WelcomeKeepsBindings ==
    ASSUME BindingsInv, Welcome
    PROVE  BindingsInv'
<1>1. /\ pc = "welcome" /\ pc' = resume
      /\ last_emitted_floor' =
             MapInsert(last_emitted_floor, welcoming, target_tick_floor(world.tick))
      /\ UNCHANGED <<sessions, peer_sessions, connected, connection, accepted_on,
                     early_sessions>>
  BY DEF Welcome, welcome_for, identity_vars, enet_vars, history_vars
<1>2. PeerBindings' /\ DOMAIN peer_sessions' \subseteq Peers
  BY <1>1 DEF BindingsInv, PeerBindings
<1>3. WelcomesInOrder'
  BY <1>1 DEF BindingsInv, WelcomesInOrder, MapInsert
<1>4. SessionHistory'
  BY <1>1 DEF BindingsInv, SessionHistory, Awaiting, WelcomesInOrder
<1>5. OnlyEarlyBindingsStale'
  BY <1>1 DEF BindingsInv, OnlyEarlyBindingsStale, BoundToItsConnection
<1> QED
  BY <1>2, <1>3, <1>4, <1>5 DEF BindingsInv

\* accept_and_welcome binds an unbound, connected slot to a session of its own.
LEMMA HelloKeepsBindings ==
    ASSUME TypeOK, BindingsInv, NEW q \in Peers, ServiceHello(q)
    PROVE  BindingsInv'
<1>1. PICK n, here : n = next_session_id /\ here = connection[q]
  OBVIOUS
<1>2. /\ Draining /\ q \in connected /\ q \notin DOMAIN peer_sessions
      /\ DOMAIN sessions' = DOMAIN sessions \cup {n}
      /\ peer_sessions' = MapInsert(peer_sessions, q, n)
      /\ accepted_on' = MapInsert(accepted_on, n, here)
      /\ early_sessions' = IF pc = "await_drain" THEN early_sessions \cup {n}
                           ELSE early_sessions
      /\ welcoming' = n /\ resume' = pc /\ pc' = "welcome"
      /\ UNCHANGED <<last_emitted_floor, connected, connection>>
  BY <1>1 DEF ServiceHello, accept_session, MapInsert, enet_vars
<1>3. n \notin DOMAIN sessions
  BY <1>1 DEF TypeOK, IdentityTypeOK
<1>4. /\ DOMAIN peer_sessions' = DOMAIN peer_sessions \cup {q}
      /\ peer_sessions'[q] = n
      /\ \A x \in DOMAIN peer_sessions : peer_sessions'[x] = peer_sessions[x]
      /\ \A x \in DOMAIN peer_sessions : peer_sessions[x] \in DOMAIN sessions
  BY <1>2 DEF MapInsert, BindingsInv, PeerBindings, Range
<1>5. PeerBindings'
  <2>1. Range(peer_sessions') = Range(peer_sessions) \cup {n}
    BY <1>4 DEF Range
  <2>2. IsInjective(peer_sessions')
    BY <1>3, <1>4 DEF BindingsInv, PeerBindings, IsInjective
  <2> QED
    BY <1>2, <2>1, <2>2 DEF BindingsInv, PeerBindings
<1>6. WelcomesInOrder'
  BY <1>2 DEF BindingsInv, WelcomesInOrder, Draining
<1>7. SessionHistory'
  BY <1>2 DEF BindingsInv, SessionHistory, Awaiting, Draining, MapInsert
<1>8. OnlyEarlyBindingsStale'
  <2> SUFFICES ASSUME NEW x \in DOMAIN peer_sessions', peer_sessions'[x] \notin early_sessions'
               PROVE  x \in connected /\ accepted_on'[peer_sessions'[x]] = connection[x]
    BY <1>2 DEF OnlyEarlyBindingsStale, BoundToItsConnection
  <2>1. CASE x = q
    BY <1>1, <1>2, <1>4, <2>1 DEF MapInsert
  <2>2. CASE x # q
    <3>1. x \in DOMAIN peer_sessions /\ peer_sessions'[x] = peer_sessions[x]
      BY <1>4, <2>2
    <3>2. peer_sessions[x] \notin early_sessions
      BY <1>2, <3>1
    <3>3. accepted_on'[peer_sessions[x]] = accepted_on[peer_sessions[x]]
      BY <1>2, <1>3, <1>4, <3>1 DEF MapInsert, BindingsInv, SessionHistory
    <3> QED
      BY <3>1, <3>2, <3>3 DEF BindingsInv, OnlyEarlyBindingsStale, BoundToItsConnection
  <2> QED
    BY <2>1, <2>2
<1> QED
  BY <1>2, <1>4, <1>5, <1>6, <1>7, <1>8 DEF BindingsInv

\* The Disconnect arm forgets the slot together with its session.
LEMMA DisconnectKeepsBindings ==
    ASSUME BindingsInv, NEW q \in Peers, ServiceDisconnect(q)
    PROVE  BindingsInv'
<1>1. /\ pc = "drain"
      /\ connected' = connected \ {q}
      /\ DOMAIN peer_sessions' = DOMAIN peer_sessions \ {q}
      /\ \A x \in DOMAIN peer_sessions' : peer_sessions'[x] = peer_sessions[x]
      /\ UNCHANGED <<pc, resume, welcoming, connection, accepted_on, early_sessions>>
  BY DEF ServiceDisconnect, MapRemove, Restrict, history_vars
<1>2. /\ DOMAIN sessions' = {peer_sessions[x] : x \in DOMAIN peer_sessions \ {q}}
      /\ DOMAIN last_emitted_floor' = DOMAIN sessions'
  <2>1. /\ DOMAIN sessions = {peer_sessions[x] : x \in DOMAIN peer_sessions}
        /\ DOMAIN last_emitted_floor = DOMAIN sessions
        /\ IsInjective(peer_sessions)
    BY <1>1 DEF BindingsInv, PeerBindings, Range, WelcomesInOrder
  <2>2. CASE q \in DOMAIN peer_sessions
    <3>1. /\ DOMAIN sessions' = DOMAIN sessions \ {peer_sessions[q]}
          /\ DOMAIN last_emitted_floor' = DOMAIN last_emitted_floor \ {peer_sessions[q]}
      BY <2>2 DEF ServiceDisconnect, disconnect_session, MapRemove, Restrict
    <3>2. \A x \in DOMAIN peer_sessions \ {q} : peer_sessions[x] # peer_sessions[q]
      BY <2>1, <2>2 DEF IsInjective
    <3> QED
      BY <2>1, <3>1, <3>2
  <2>3. CASE q \notin DOMAIN peer_sessions
    <3>1. UNCHANGED <<sessions, last_emitted_floor>>
      BY <2>3 DEF ServiceDisconnect, server_vars, identity_vars
    <3> QED
      BY <2>1, <2>3, <3>1
  <2> QED
    BY <2>2, <2>3
<1>3. PeerBindings' /\ DOMAIN peer_sessions' \subseteq Peers
  BY <1>1, <1>2 DEF BindingsInv, PeerBindings, Range, IsInjective
<1>4. WelcomesInOrder'
  BY <1>1, <1>2 DEF WelcomesInOrder
<1>5. SessionHistory'
  <2>1. DOMAIN sessions' \subseteq DOMAIN sessions
    BY <1>2 DEF BindingsInv, PeerBindings, Range
  <2> QED
    BY <1>1, <2>1 DEF BindingsInv, SessionHistory, Awaiting
<1>6. OnlyEarlyBindingsStale'
  BY <1>1 DEF BindingsInv, OnlyEarlyBindingsStale, BoundToItsConnection
<1> QED
  BY <1>3, <1>4, <1>5, <1>6 DEF BindingsInv

\* Every step of the process keeps slots, sessions and floors in step.
LEMMA NextBindings == TypeOK /\ BindingsInv /\ [LoopNext]_all_vars => BindingsInv'
<1> SUFFICES ASSUME TypeOK, BindingsInv, [LoopNext]_all_vars PROVE BindingsInv'
  OBVIOUS
<1>1. CASE Terminated \/ UNCHANGED all_vars
  BY <1>1 DEF Terminated, all_vars, server_vars, identity_vars, loop_vars, enet_vars,
     history_vars, BindingsInv, PeerBindings, WelcomesInOrder, SessionHistory, Awaiting,
     OnlyEarlyBindingsStale, BoundToItsConnection
<1> QED
  BY <1>1, QuietSteps, ConnectKeepsBindings, IgnoredKeepsBindings, WelcomeKeepsBindings,
     HelloKeepsBindings, DisconnectKeepsBindings DEF LoopNext, ThreadStep, ServiceEvent

\* The inductive invariant of the bindings holds in every run of the process.
THEOREM Bindings == LoopSpec => []BindingsInv
<1>1. LoopInit => BindingsInv
  BY InitBindings
<1>2. CallerInv /\ BindingsInv /\ [LoopNext]_all_vars => BindingsInv'
  BY NextBindings DEF CallerInv
<1> QED
  BY <1>1, <1>2, CallerInvariant, PTL DEF LoopSpec

\* The server's sessions are exactly the ones some peer slot is bound to, each by one
\* slot (accept_and_welcome, the Disconnect arm).
THEOREM SlotsAndSessionsAgree == LoopSpec => []PeerBindings
<1>1. BindingsInv => PeerBindings
  BY DEF BindingsInv
<1> QED
  BY <1>1, Bindings, PTL

\* No input reaches a session that has not been welcomed (accept_and_welcome is not
\* interrupted), so every floor receive_input reads is there.
THEOREM WelcomeComesFirst == LoopSpec => []WelcomedBeforeInput
<1>1. BindingsInv => WelcomedBeforeInput
  BY DEF BindingsInv, WelcomesInOrder, WelcomedBeforeInput
<1> QED
  BY <1>1, Bindings, PTL

\* Only a session accepted while the loop waits for its first one can stay bound to a
\* connection that is gone (the two Disconnect arms).
THEOREM LateBindingsFresh == LoopSpec => []OnlyEarlyBindingsStale
<1>1. BindingsInv => OnlyEarlyBindingsStale
  BY DEF BindingsInv
<1> QED
  BY <1>1, Bindings, PTL

-----------------------------------------------------------------------------
(***************************************************************************)
(* The panics of accept_session.                                           *)
(***************************************************************************)

\* A hello from a peer without a session finds the server below its session limit.
HelloFits == \A q \in Peers : q \notin DOMAIN peer_sessions => session_count < max_sessions

\* The slots that are bound are finitely many, and the sessions no more than they.
LEMMA SessionsFitSlots ==
    ASSUME BindingsInv
    PROVE  /\ IsFiniteSet(DOMAIN peer_sessions)
           /\ Cardinality(DOMAIN peer_sessions) \in Nat
           /\ session_count \in Nat
           /\ session_count <= Cardinality(DOMAIN peer_sessions)
<1>1. max_sessions \in Nat
  BY ServerConfigAssumption
<1>2. IsFiniteSet(DOMAIN peer_sessions)
  <2>1. IsFiniteSet(Peers)
    BY <1>1, FS_Interval DEF Peers
  <2>2. DOMAIN peer_sessions \subseteq Peers
    BY DEF BindingsInv
  <2> QED
    BY <2>1, <2>2, FS_Subset
<1>3. DOMAIN sessions = {peer_sessions[x] : x \in DOMAIN peer_sessions}
  BY DEF BindingsInv, PeerBindings, Range
<1> DEFINE slot == [s \in DOMAIN sessions |->
                       CHOOSE x \in DOMAIN peer_sessions : peer_sessions[x] = s]
<1>4. \A s \in DOMAIN sessions :
          slot[s] \in DOMAIN peer_sessions /\ peer_sessions[slot[s]] = s
  BY <1>3
<1>5. slot \in [DOMAIN sessions -> DOMAIN peer_sessions]
  BY <1>4
<1>6. IsInjective(slot)
  BY <1>4 DEF IsInjective
<1> HIDE DEF slot
<1>7. slot \in Injection(DOMAIN sessions, DOMAIN peer_sessions)
  BY <1>5, <1>6 DEF Injection
<1>8. /\ IsFiniteSet(DOMAIN sessions)
      /\ Cardinality(DOMAIN sessions) <= Cardinality(DOMAIN peer_sessions)
  BY <1>2, <1>7, FS_Injection
<1> QED
  BY <1>2, <1>8, FS_CardinalityType DEF session_count

\* A slot that is not bound leaves room for one more session.
LEMMA FreeSlotFits == BindingsInv => HelloFits
<1> SUFFICES ASSUME BindingsInv, NEW q \in Peers, q \notin DOMAIN peer_sessions
             PROVE  session_count < max_sessions
  BY DEF HelloFits
<1> DEFINE others == Peers \ {q}
<1>1. max_sessions \in Nat
  BY ServerConfigAssumption
<1>2. IsFiniteSet(Peers) /\ Cardinality(Peers) = max_sessions
  BY <1>1, FS_Interval DEF Peers
<1>3. IsFiniteSet(others) /\ Cardinality(others) = max_sessions - 1
  BY <1>2, FS_RemoveElement
<1>4. DOMAIN peer_sessions \subseteq others
  BY DEF BindingsInv
<1> HIDE DEF others
<1>5. Cardinality(DOMAIN peer_sessions) <= max_sessions - 1
  BY <1>3, <1>4, FS_Subset
<1> QED
  BY <1>1, <1>5, SessionsFitSlots

\* A player id never runs ahead of the sessions that were accepted.
PlayerIdsCounted == next_player_id < next_session_id

\* Ids are handed out one by one, and start again at zero when they wrap.
LEMMA NextCounted ==
    TypeOK /\ PlayerIdsCounted /\ [ServerNext]_server_vars => PlayerIdsCounted'
<1> SUFFICES ASSUME TypeOK, PlayerIdsCounted, [ServerNext]_server_vars
             PROVE  PlayerIdsCounted'
  OBVIOUS
<1>1. CASE accept_session
  <2>1. PICK n, M : n = next_player_id /\ M = PlayerIdModulus
    OBVIOUS
  <2>2. M \in Nat \ {0} /\ n \in 0 .. M - 1 /\ next_session_id \in Nat
    BY <2>1, ServerConfigAssumption DEF TypeOK, IdentityTypeOK, PlayerIds
  <2>3. (n + 1) % M <= n + 1
    BY <2>2
  <2>4. (n + 1) % M \in Nat
    BY <2>2
  <2>5. next_player_id' = (n + 1) % M /\ next_session_id' = next_session_id + 1
    BY <1>1, <2>1 DEF accept_session
  <2> QED
    BY <2>1, <2>2, <2>3, <2>4, <2>5 DEF PlayerIdsCounted
<1>2. CASE ~accept_session
  BY <1>2 DEF ServerNext, accept_session_fails, Panic, welcome_for, disconnect_session,
     receive_input, step, finalize, set_build_fingerprint, Stopped, server_vars,
     identity_vars, PlayerIdsCounted
<1> QED
  BY <1>1, <1>2

\* What accept_session's comment on its panics promises, for every number of peer
\* slots: the session limit is never exceeded, whoever comes and goes.  The other two
\* panics need ids to run out: as many accepts as the id type has values (in a build
\* that checks overflow), or more than the test configuration names ids for.
THEOREM LoopNeverPanics ==
    ASSUME ~OverflowChecks \/ MaxAccepts < PlayerIdModulus,
           test_player_ids = None \/ MaxAccepts <= Len(test_player_ids)
    PROVE  LoopSpec => []NeverPanics
<1> DEFINE PanicInv == PlayerIdsCounted /\ NeverPanics
<1>1. LoopInit => PanicInv
  BY DEF LoopInit, ServerInit, PlayerIdsCounted, NeverPanics
<1>2. CallerInv /\ BindingsInv /\ PanicInv /\ [LoopNext]_all_vars => PanicInv'
  <2> SUFFICES ASSUME CallerInv, BindingsInv, PanicInv, [LoopNext]_all_vars
               PROVE  PanicInv'
    OBVIOUS
  <2>1. [ServerNext]_server_vars
    BY LoopStepIsServerStep
  <2>2. PlayerIdsCounted'
    BY <2>1, NextCounted DEF CallerInv
  <2>3. ASSUME NEW q \in Peers, ServiceHelloPanics(q)
        PROVE  FALSE
    <3>1. AcceptPanics /\ next_session_id <= MaxAccepts /\ q \notin DOMAIN peer_sessions
      BY <2>3 DEF ServiceHelloPanics, accept_session_fails
    <3>2. session_count < max_sessions /\ ~(session_count >= max_sessions)
      <4>1. session_count \in Nat
        BY SessionsFitSlots
      <4>2. max_sessions \in Nat
        BY ServerConfigAssumption
      <4>3. session_count < max_sessions
        BY <3>1, FreeSlotFits DEF HelloFits
      <4> QED
        BY <4>1, <4>2, <4>3
    <3>3. /\ next_player_id \in Nat /\ next_session_id \in Nat /\ MaxAccepts \in Nat
          /\ PlayerIdModulus \in Nat
      BY ServerConfigAssumption DEF CallerInv, TypeOK, IdentityTypeOK, PlayerIds
    <3>4. next_player_id + 1 <= MaxAccepts
      BY <3>1, <3>3 DEF PlayerIdsCounted
    <3>5. ~(OverflowChecks /\ next_player_id + 1 = PlayerIdModulus)
      BY <3>3, <3>4
    <3>6. test_player_ids # None => Len(test_player_ids) \in Nat
      BY ServerConfigAssumption
    <3>7. ~(test_player_ids # None /\ next_player_id >= Len(test_player_ids))
      BY <3>3, <3>4, <3>6
    <3> QED
      BY <3>1, <3>2, <3>5, <3>7 DEF AcceptPanics
  <2>4. NeverPanics'
    BY <2>3 DEF LoopNext, ThreadStep, ServiceEvent, AwaitFirstSession, Welcome, ServiceNone,
       LoopContinues, Advance, LoopEnds, ServiceConnect, ServiceHello, ServiceInput,
       ServiceDisconnect, ServiceDisconnectIgnored, ServiceError, DeadlinePasses, Terminated,
       all_vars, server_vars, welcome_for, step, finalize, accept_session, receive_input,
       disconnect_session, NeverPanics
  <2> QED
    BY <2>2, <2>4
<1>3. PanicInv => NeverPanics
  OBVIOUS
<1> QED
  BY <1>1, <1>2, <1>3, CallerInvariant, Bindings, PTL DEF LoopSpec

-----------------------------------------------------------------------------
(***************************************************************************)
(* The neutral start of every player.                                      *)
(***************************************************************************)

\* An input of p was recorded at least a lead before tick n.
StartedBefore(p, n) ==
    \E j \in DOMAIN replay_recorder.inputs :
        /\ replay_recorder.inputs[j].player_id = p
        /\ n - replay_recorder.inputs[j].tick >= input_lead_ticks

\* A buffered input lies beyond the current floor, or its player's lead is over by then.
BufferedAfterLead ==
    \A key \in DOMAIN input_buffer :
        key[2] >= world.tick + input_lead_ticks \/ StartedBefore(key[1], key[2])

\* So does every intent to fall back to.
IntentAfterLead ==
    \A p \in SpawnedPlayers : last_known_intent[p] # 0 => StartedBefore(p, world.tick)

RecordedNeutral ==
    \A i \in DOMAIN replay_recorder.inputs :
        LET a == replay_recorder.inputs[i] IN
        ~StartedBefore(a.player_id, a.tick) => a.is_fallback /\ a.move_dir = 0

LeadInv == BufferedAfterLead /\ IntentAfterLead /\ RecordedNeutral

\* receive_input buffers nothing below the floor that goes with the current tick.
LEMMA ReceiveAboveFloor ==
    ASSUME SafetyInv, NEW sid \in SessionIds, NEW input \in AnyInput,
           receive_input(sid, input), sid \in DOMAIN last_emitted_floor,
           NEW key \in DOMAIN input_buffer'
    PROVE  key \in DOMAIN input_buffer \/ key[2] >= world.tick + input_lead_ticks
<1> SUFFICES ASSUME key \notin DOMAIN input_buffer
             PROVE  key[2] >= world.tick + input_lead_ticks
  OBVIOUS
<1> DEFINE floor == MapGet(last_emitted_floor, sid, 0)
<1>1. floor = world.tick + input_lead_ticks
  BY DEF MapGet, SafetyInv, FloorCoherent
<1>2. key = <<session_players[sid], input.tick>>
  <2>1. TypeOK
    BY DEF SafetyInv
  <2>2. DOMAIN input_buffer' = DOMAIN input_buffer \cup {<<session_players[sid], input.tick>>}
    BY <2>1, ReceiveBuffer
  <2> QED
    BY <2>2
<1>3. Verdict(input, world.tick, floor) = "Bufferable"
  BY DEF receive_input, validate_input
<1>4. ~(input.tick < floor)
  BY <1>3 DEF Verdict
<1>5. input.tick \in Nat /\ world.tick \in Nat /\ input_lead_ticks \in Nat
  BY ServerConfigAssumption DEF AnyInput, SafetyInv, TypeOK, WorldTypeOK
<1> HIDE DEF floor
<1> QED
  BY <1>1, <1>2, <1>4, <1>5

\* The steps that record nothing and hold on to no new intent: what they buffer lies
\* beyond the floor.
LEMMA LeadKept ==
    ASSUME LeadInv,
           UNCHANGED <<world.tick, replay_recorder.inputs>>,
           \A key \in DOMAIN input_buffer' :
               key \in DOMAIN input_buffer \/ key[2] >= world.tick + input_lead_ticks,
           \A p \in SpawnedPlayers' :
               last_known_intent'[p] # 0 =>
                   p \in SpawnedPlayers /\ last_known_intent[p] # 0
    PROVE  LeadInv'
<1>1. \A p, n : StartedBefore(p, n)' <=> StartedBefore(p, n)
  BY DEF StartedBefore
<1>2. BufferedAfterLead'
  BY <1>1 DEF LeadInv, BufferedAfterLead, StartedBefore
<1>3. IntentAfterLead'
  BY <1>1 DEF LeadInv, IntentAfterLead, StartedBefore
<1>4. RecordedNeutral'
  BY <1>1 DEF LeadInv, RecordedNeutral, StartedBefore
<1> QED
  BY <1>2, <1>3, <1>4 DEF LeadInv

\* step records an input of every spawned player, so whatever was a lead away at its
\* tick is after the player's lead at the next.
LEMMA StepLead ==
    ASSUME RecordingInv, LeadInv, step
    PROVE  LeadInv'
<1>1. PICK d, now, n : d = replay_recorder.inputs /\ now = world.tick /\ n = Len(d)
  OBVIOUS
<1>2. /\ TypeOK /\ NothingRecordedAhead /\ BufferWithinWindow /\ IntentsMatchSpawned
      /\ d \in Seq(AppliedRecords) /\ now \in Nat /\ input_lead_ticks \in Nat
      /\ last_known_intent \in [DOMAIN last_known_intent -> UnitDirs]
      /\ UnitDirs \subseteq Int
  BY <1>1, ServerConfigAssumption DEF RecordingInv, SafetyInv, TypeOK, RecorderTypeOK,
     WorldTypeOK, IntentTypeOK, UnitDirs
<1>3. /\ DOMAIN replay_recorder'.inputs =
             DOMAIN d \cup {n + i : i \in DOMAIN entity_spawn_order}
      /\ \A k \in DOMAIN d : replay_recorder'.inputs[k] = d[k] /\ d[k].tick < now
      /\ \A i \in DOMAIN entity_spawn_order :
             /\ replay_recorder'.inputs[n + i] = AppliedInputs[i]
             /\ replay_recorder'.inputs[n + i].tick = now
             /\ replay_recorder'.inputs[n + i].player_id = entity_spawn_order[i]
             /\ replay_recorder'.inputs[n + i].move_dir = AppliedIntent(entity_spawn_order[i])
  BY <1>1, <1>2, StepInputs
<1>4. \A k \in DOMAIN d : d[k].tick \in Nat
  <2>1. \A k \in DOMAIN d : d[k] \in AppliedRecords
    BY <1>2
  <2> QED
    BY <2>1 DEF AppliedRecords
<1>5. world'.tick = now + 1
  BY <1>1, <1>2, StepEffect
<1>6. \A p, m : StartedBefore(p, m) => StartedBefore(p, m)'
  BY <1>1, <1>3 DEF StartedBefore
<1>7. \A p \in SpawnedPlayers, m \in Nat : StartedBefore(p, m) => StartedBefore(p, m + 1)
  BY <1>1, <1>2, <1>4 DEF StartedBefore
<1>8. \A p \in SpawnedPlayers, m \in Nat : m - now >= input_lead_ticks => StartedBefore(p, m)'
  BY <1>3 DEF StartedBefore, SpawnedPlayers
<1>9. BufferedAfterLead'
  <2> SUFFICES ASSUME NEW key \in DOMAIN input_buffer'
               PROVE  key[2] >= now + 1 + input_lead_ticks \/ StartedBefore(key[1], key[2])'
    BY <1>5 DEF BufferedAfterLead, StartedBefore
  <2>1. key \in DOMAIN input_buffer
    BY <1>2, StepKeepsEntries
  <2>2. key[1] \in SpawnedPlayers /\ key[2] \in Nat
    BY <1>1, <1>2, <2>1, ValidationConfigAssumption DEF BufferWithinWindow
  <2>3. CASE key[2] >= now + input_lead_ticks
    <3>1. key[2] - now >= input_lead_ticks
      BY <1>2, <2>2, <2>3
    <3> QED
      BY <1>8, <2>2, <3>1
  <2>4. CASE StartedBefore(key[1], key[2])
    BY <1>6, <2>4
  <2> QED
    BY <1>1, <2>1, <2>3, <2>4 DEF LeadInv, BufferedAfterLead

\* What each spawned player applies at this tick is neutral unless its lead is over.
<1>10. ASSUME NEW p \in SpawnedPlayers, ~StartedBefore(p, now), input_lead_ticks # 0
       PROVE  BufferedIntent(p) = None /\ AppliedIntent(p) = 0
  <2>1. <<p, now>> \notin DOMAIN input_buffer
    <3> SUFFICES ASSUME <<p, now>> \in DOMAIN input_buffer PROVE FALSE
      OBVIOUS
    <3>1. <<p, now>>[2] >= world.tick + input_lead_ticks
      BY <1>10 DEF LeadInv, BufferedAfterLead
    <3> QED
      BY <1>1, <1>2, <1>10, <3>1
  <2>2. BufferedIntent(p) = None
    BY <1>1, <2>1 DEF BufferedIntent, take_input
  <2>3. p \in DOMAIN last_known_intent /\ last_known_intent[p] = 0
    BY <1>1, <1>2, <1>10 DEF IntentsMatchSpawned, LeadInv, IntentAfterLead
  <2> QED
    BY <2>2, <2>3 DEF AppliedIntent, MapGet
<1>11. IntentAfterLead'
  <2>1. SpawnedPlayers' = SpawnedPlayers
    BY DEF step, spawn_vars, SpawnedPlayers
  <2>2. \A p \in SpawnedPlayers : last_known_intent'[p] = AppliedIntent(p)
    BY <1>2, StepResult DEF UpdatedIntents, IntentsAfter
  <2> SUFFICES ASSUME NEW p \in SpawnedPlayers, AppliedIntent(p) # 0
               PROVE  StartedBefore(p, now + 1)'
    BY <1>5, <2>1, <2>2 DEF IntentAfterLead, StartedBefore
  <2>3. CASE input_lead_ticks = 0
    BY <1>2, <1>8, <2>3
  <2>4. CASE input_lead_ticks # 0
    <3>1. StartedBefore(p, now)
      BY <1>10, <2>4
    <3>2. StartedBefore(p, now + 1)
      BY <1>2, <1>7, <3>1
    <3> QED
      BY <1>6, <3>2
  <2> QED
    BY <2>3, <2>4
<1>12. RecordedNeutral'
  <2> SUFFICES ASSUME NEW k \in DOMAIN replay_recorder'.inputs, NEW z,
                      z = replay_recorder'.inputs[k], ~StartedBefore(z.player_id, z.tick)'
               PROVE  z.is_fallback /\ z.move_dir = 0
    BY DEF RecordedNeutral, StartedBefore
  <2>1. CASE k \in DOMAIN d
    <3>1. z = d[k] /\ ~StartedBefore(z.player_id, z.tick)
      BY <1>3, <1>6, <2>1
    <3> QED
      BY <1>1, <2>1, <3>1 DEF LeadInv, RecordedNeutral
  <2>2. CASE k \notin DOMAIN d
    <3>1. PICK i \in DOMAIN entity_spawn_order : k = n + i
      BY <1>3, <2>2
    <3>2. PICK p \in SpawnedPlayers : p = entity_spawn_order[i]
      BY DEF SpawnedPlayers
    <3>3. z = AppliedInputs[i] /\ z.tick = now /\ z.player_id = p
          /\ z.move_dir = AppliedIntent(p)
      BY <1>3, <3>1, <3>2
    <3>4. ~StartedBefore(p, now) /\ input_lead_ticks # 0
      BY <1>2, <1>6, <1>8, <3>3
    <3>5. BufferedIntent(p) = None /\ AppliedIntent(p) = 0
      BY <1>10, <3>4
    <3>6. z.is_fallback
      <4>1. z.is_fallback = (BufferedIntent(p) = None \/ ~IsFirstOccurrence(i))
        BY <3>2, <3>3 DEF AppliedInputs, AppliedInput
      <4> QED
        BY <3>5, <4>1
    <3> QED
      BY <3>3, <3>5, <3>6
  <2> QED
    BY <2>1, <2>2
<1> QED
  BY <1>9, <1>11, <1>12 DEF LeadInv

\* In the process, no step breaks the neutral start.
LEMMA NextLead ==
    CallerInv /\ RecordingInv /\ BindingsInv /\ LeadInv /\ [LoopNext]_all_vars => LeadInv'
<1> SUFFICES ASSUME CallerInv, RecordingInv, BindingsInv, LeadInv, [LoopNext]_all_vars
             PROVE  LeadInv'
  OBVIOUS
<1>1. SafetyInv /\ TypeOK
  BY DEF RecordingInv, SafetyInv
<1>2. CASE Advance
  BY <1>2, StepLead DEF Advance
<1>3. CASE \E q \in Peers : ServiceHello(q)
  <2>1. accept_session
    BY <1>3 DEF ServiceHello
  <2>2. UNCHANGED <<world.tick, replay_recorder.inputs, input_buffer>>
    BY <1>1, <2>1, AcceptRecords DEF accept_session
  <2>3. \A p \in SpawnedPlayers' :
            last_known_intent'[p] # 0 => p \in SpawnedPlayers /\ last_known_intent[p] # 0
    <3>1. /\ last_known_intent' = MapInsert(last_known_intent, AssignedPlayerId, 0)
          /\ SpawnedPlayers' = SpawnedPlayers \cup {AssignedPlayerId}
      BY <1>1, <2>1, AcceptSpawns DEF accept_session
    <3> QED
      BY <3>1 DEF MapInsert, RecordingInv, IntentsMatchSpawned
  <2> QED
    BY <2>2, <2>3, LeadKept
<1>4. CASE \E q \in Peers, input \in InputCmd : ServiceInput(q, input)
  <2>1. PICK q \in Peers, input \in InputCmd :
            /\ pc = "drain" /\ q \in DOMAIN peer_sessions
            /\ receive_input(peer_sessions[q], input)
    BY <1>4 DEF ServiceInput
  <2>2. PICK sid : sid = peer_sessions[q]
    OBVIOUS
  <2>3. sid \in DOMAIN sessions /\ sid \in DOMAIN last_emitted_floor
    BY <2>1, <2>2 DEF BindingsInv, PeerBindings, Range, WelcomesInOrder
  <2>4. sid \in SessionIds
    BY <2>3, SessionsAreIds
  <2>5. \A key \in DOMAIN input_buffer' :
            key \in DOMAIN input_buffer \/ key[2] >= world.tick + input_lead_ticks
    BY <1>1, <2>1, <2>2, <2>3, <2>4, ReceiveAboveFloor, InputCmdIsInput
  <2>6. UNCHANGED <<world, replay_recorder, last_known_intent, entity_spawn_order>>
    BY <2>1 DEF receive_input, spawn_vars
  <2>7. SpawnedPlayers' = SpawnedPlayers
    BY <2>6 DEF SpawnedPlayers
  <2> QED
    BY <2>5, <2>6, <2>7, LeadKept
<1>5. CASE \E q \in Peers : ServiceDisconnect(q)
  <2>1. PICK q \in Peers :
            disconnect_session(peer_sessions[q]) \/ UNCHANGED server_vars
    BY <1>5 DEF ServiceDisconnect
  <2>2. UNCHANGED <<world, replay_recorder, input_buffer, entity_spawn_order>>
    BY <2>1 DEF disconnect_session, server_vars, spawn_vars
  <2>3. SpawnedPlayers' = SpawnedPlayers
    BY <2>2 DEF SpawnedPlayers
  <2>4. \A p \in SpawnedPlayers : last_known_intent'[p] # 0 => last_known_intent[p] # 0
    BY <2>1 DEF disconnect_session, server_vars, MapInsert, RecordingInv, IntentsMatchSpawned
  <2> QED
    BY <2>2, <2>3, <2>4, LeadKept
<1>6. CASE \/ AwaitFirstSession \/ Welcome \/ ServiceNone \/ LoopContinues \/ LoopEnds
           \/ ServiceError \/ DeadlinePasses \/ Terminated \/ UNCHANGED all_vars
           \/ \E q \in Peers : \/ ServiceConnect(q) \/ ServiceHelloPanics(q)
                               \/ ServiceDisconnectIgnored(q)
  <2>1. UNCHANGED <<world, replay_recorder, input_buffer, last_known_intent,
                    entity_spawn_order>>
    BY <1>6 DEF AwaitFirstSession, Welcome, ServiceNone, LoopContinues, LoopEnds, ServiceError,
       DeadlinePasses, Terminated, ServiceConnect, ServiceHelloPanics,
       ServiceDisconnectIgnored, welcome_for, finalize, accept_session_fails, Panic,
       all_vars, server_vars, spawn_vars
  <2>2. SpawnedPlayers' = SpawnedPlayers
    BY <2>1 DEF SpawnedPlayers
  <2> QED
    BY <2>1, <2>2, LeadKept
<1> QED
  BY <1>2, <1>3, <1>4, <1>5, <1>6 DEF LoopNext, ThreadStep, ServiceEvent

\* Every run of the process has the lead in front of each player's first own input.
LEMMA Lead == LoopSpec => []LeadInv
<1>1. LoopInit => LeadInv
  BY DEF LoopInit, ServerInit, recorder_new, EmptyMap, LeadInv, BufferedAfterLead,
         IntentAfterLead, SpawnedPlayers, RecordedNeutral
<1>2. CallerInv /\ RecordingInv /\ BindingsInv /\ LeadInv /\ [LoopNext]_all_vars => LeadInv'
  BY NextLead
<1> QED
  BY <1>1, <1>2, CallerInvariant, Bindings, LoopImplementsServer, Recording, PTL DEF LoopSpec

\* ADR-0006's startup behaviour for every lead, window and number of players: the first
\* input_lead_ticks inputs applied for a player, whenever it joins, are the neutral
\* fallback (welcome_for, validate_input, step).
THEOREM NeutralStart == LoopSpec => []StartupNeutral
<1>1. RecordingInv /\ LeadInv => StartupNeutral
  <2> SUFFICES ASSUME RecordingInv, LeadInv, NEW i \in DOMAIN replay_recorder.inputs,
                      NEW a, a = replay_recorder.inputs[i],
                      \A j \in DOMAIN replay_recorder.inputs :
                          replay_recorder.inputs[j].player_id = a.player_id =>
                              a.tick - replay_recorder.inputs[j].tick < input_lead_ticks
               PROVE  a.is_fallback /\ a.move_dir = 0
    BY DEF StartupNeutral
  <2>1. \A j \in DOMAIN replay_recorder.inputs : replay_recorder.inputs[j] \in AppliedRecords
    BY DEF RecordingInv, SafetyInv, TypeOK, RecorderTypeOK
  <2>2. \A j \in DOMAIN replay_recorder.inputs : replay_recorder.inputs[j].tick \in Nat
    BY <2>1 DEF AppliedRecords
  <2>3. input_lead_ticks \in Nat
    BY ServerConfigAssumption
  <2>4. ~StartedBefore(a.player_id, a.tick)
    BY <2>2, <2>3 DEF StartedBefore
  <2> QED
    BY <2>4 DEF LeadInv, RecordedNeutral
<1> QED
  BY <1>1, Lead, LoopImplementsServer, Recording, PTL
=============================================================================
