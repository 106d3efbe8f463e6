-------------------------- MODULE NeuServerProofs ---------------------------
(***************************************************************************)
(* For every set of connections and extensions and every mode: the         *)
(* registers of the server hold established connections only, and an       *)
(* uncaught exception needs a client that is leaving or a second stop.     *)
(***************************************************************************)
EXTENDS NeuServer, TLAPS

\* Only connections whose close handler has run have an exit check: a handle
\* that is used for a new connection has none.
TimersOfGone == \A h \in Conns : timer[h] # "none" => conn[h] = "gone"

\* The inductive invariant.
IInv == TypeOK /\ RegisteredAreEstablished /\ TimersOfGone

ExtStates == {"none", "spawned", "loaded"}
TimerStates == {"none", "sleeping", "exiting", "stopping", "stopped", "done"}
ServingStates == {"idle", "stopping", "stopped"}
Statuses == {"running", "closing", "exited", "aborted"}

-----------------------------------------------------------------------------

\* Initially nothing is registered and no exit check is running.
LEMMA InitIInv == Init => IInv
BY KindsAssumption
DEF Init, IInv, TypeOK, RegisteredAreEstablished, TimersOfGone, Established, Kinds, Opcodes

\* The steps that touch neither a connection nor a register keep the invariant.
LEMMA QuietKeeps ==
    ASSUME IInv,
           UNCHANGED <<mode, conn, kind, registers>>,
           ext' \in [ExtIds -> ExtStates],
           timer' \in [Conns -> TimerStates],
           \A h \in Conns : timer'[h] # "none" => timer[h] # "none",
           serving' \in ServingStates,
           listening' \in BOOLEAN,
           status' \in Statuses,
           overlapped' \subseteq ExtIds
    PROVE  IInv'
BY DEF IInv, TypeOK, RegisteredAreEstablished, TimersOfGone, Established, registers,
       ExtStates, TimerStates, ServingStates, Statuses

\* A dispatch leaves the status or aborts.
LEMMA AfterDispatchType ==
    ASSUME status \in Statuses, NEW A, NEW E, NEW O
    PROVE  AfterDispatch(A, E, O) \in Statuses
BY DEF AfterDispatch, Statuses

\* The main thread and the threads that dispatch events or check for idleness
\* leave the registers alone.
LEMMA OtherThreadsKeep ==
    ASSUME IInv,
           \/ \E e \in ExtIds : SpawnExtension(e) \/ LoadOne(e)
           \/ MainReturns
           \/ \E h \in Conns : TimerNext(h)
           \/ ServerExitNext
           \/ ForeignDispatch
    PROVE  IInv'
<1> USE DEF IInv, TypeOK, ExtStates, TimerStates, ServingStates, Statuses, histories
<1>1. ASSUME NEW e \in ExtIds, SpawnExtension(e) \/ LoadOne(e) PROVE IInv'
  <2>1. ext' \in [ExtIds -> ExtStates]
    BY <1>1 DEF SpawnExtension, LoadOne
  <2>2. QED
    BY <1>1, <2>1, QuietKeeps DEF SpawnExtension, LoadOne
<1>2. ASSUME MainReturns PROVE IInv'
  BY <1>2, QuietKeeps DEF MainReturns
<1>3. ASSUME NEW h \in Conns, TimerNext(h) PROVE IInv'
  <2>1. /\ timer' \in [Conns -> TimerStates]
        /\ \A g \in Conns : timer'[g] # "none" => timer[g] # "none"
        /\ listening' \in BOOLEAN
        /\ status' \in Statuses
        /\ UNCHANGED <<mode, conn, kind, registers, ext, serving, overlapped>>
    BY <1>3 DEF TimerNext, TimerFires, TimerLooks, TimerStops, TimerExits
  <2>2. QED
    BY <2>1, QuietKeeps
<1>4. ASSUME ForeignDispatch PROVE IInv'
  <2>1. status' \in Statuses
    BY <1>4, AfterDispatchType DEF ForeignDispatch
  <2>2. QED
    BY <1>4, <2>1, QuietKeeps DEF ForeignDispatch
<1>5. ASSUME ServerExitNext PROVE IInv'
  BY <1>5, QuietKeeps DEF ServerExitNext, ServerStops, ServerExits
<1>6. QED
  BY <1>1, <1>2, <1>3, <1>4, <1>5

\* A refused connection was free, so it is in no register.
LEMMA RefuseKeeps ==
    ASSUME IInv, NEW h \in Conns, NEW k \in Kinds, NEW local \in BOOLEAN,
           NEW token \in BOOLEAN, Refuse(h, k, local, token)
    PROVE  IInv'
<1> USE DEF IInv, Refuse, registers, histories
<1>1. /\ conn' = [conn EXCEPT ![h] = "refused"] /\ conn[h] = "free"
      /\ kind' = [kind EXCEPT ![h] = k]
      /\ UNCHANGED <<mode, appConnections, extConnections, wsMode, ext, timer, serving,
                     listening, status, last, overlapped>>
  OBVIOUS
<1>2. Established' = Established /\ h \notin Established
  BY <1>1 DEF Established, TypeOK
<1>3. \A g \in Conns : g # h => kind'[g] = kind[g] /\ conn'[g] = conn[g]
  BY <1>1 DEF TypeOK
<1>4. TypeOK'
  BY <1>1, <1>2, <1>3 DEF TypeOK, RegisteredAreEstablished, TimersOfGone
<1>5. RegisteredAreEstablished'
  BY <1>1, <1>2, <1>3, KindsAssumption DEF TypeOK, RegisteredAreEstablished, Established
<1>6. TimersOfGone'
  BY <1>1, <1>3 DEF TypeOK, TimersOfGone
<1>7. QED
  BY <1>4, <1>5, <1>6

\* A new connection takes the place of its kind; the connection it replaces
\* stays established and is registered no more.
LEMMA ConnectKeeps ==
    ASSUME IInv, NEW h \in Conns, NEW k \in Kinds, NEW local \in BOOLEAN,
           NEW token \in BOOLEAN, handleConnect(h, k, local, token)
    PROVE  IInv'
<1> USE DEF IInv
<1>1. /\ conn' = [conn EXCEPT ![h] = "open"] /\ conn[h] = "free"
      /\ kind' = [kind EXCEPT ![h] = k]
      /\ UNCHANGED <<mode, wsMode, ext, timer, serving, listening>>
  BY DEF handleConnect
<1>2. status' \in Statuses
  BY AfterDispatchType DEF handleConnect, TypeOK, Statuses
<1>3. Established' = Established \cup {h} /\ h \notin Established
  BY <1>1 DEF Established, TypeOK
<1>4. \A g \in Conns : g # h => kind'[g] = kind[g] /\ conn'[g] = conn[g]
  BY <1>1 DEF TypeOK
<1>5. kind'[h] = k /\ wsMode[h] = "none" /\ timer[h] = "none"
  BY <1>1, <1>3 DEF TypeOK, RegisteredAreEstablished, TimersOfGone
<1>6. CASE k \in ExtIds
  <2>1. /\ extConnections' = [extConnections EXCEPT ![k] = h]
        /\ overlapped' \subseteq ExtIds
        /\ UNCHANGED appConnections
    BY <1>6 DEF handleConnect, TypeOK
  <2>2. k # App
    BY <1>6, KindsAssumption
  <2>3. TypeOK'
    BY <1>1, <1>2, <1>4, <1>5, <1>6, <2>1 DEF TypeOK, Statuses
  <2>4. appConnections' = {g \in Established' : kind'[g] = App}
    BY <1>3, <1>4, <1>5, <2>1, <2>2 DEF RegisteredAreEstablished, Established
  <2>5. \A e \in ExtIds : extConnections'[e] # None =>
            extConnections'[e] \in Established' /\ kind'[extConnections'[e]] = e
    <3> SUFFICES ASSUME NEW e \in ExtIds, extConnections'[e] # None
                 PROVE  extConnections'[e] \in Established' /\ kind'[extConnections'[e]] = e
      OBVIOUS
    <3>1. CASE e = k
      BY <1>3, <1>5, <2>1, <3>1 DEF TypeOK
    <3>2. CASE e # k
      <4>1. extConnections'[e] = extConnections[e]
        BY <2>1, <3>2 DEF TypeOK
      <4>2. extConnections[e] \in Established /\ kind[extConnections[e]] = e
        BY <4>1 DEF RegisteredAreEstablished
      <4>3. QED
        BY <1>3, <1>4, <4>1, <4>2 DEF Established
    <3>3. QED
      BY <3>1, <3>2
  <2>6. RegisteredAreEstablished'
    BY <1>1, <1>3, <2>4, <2>5 DEF RegisteredAreEstablished
  <2>7. TimersOfGone'
    BY <1>1, <1>4, <1>5 DEF TimersOfGone
  <2>8. QED
    BY <2>3, <2>6, <2>7
<1>7. CASE k \notin ExtIds
  <2>1. k = App /\ appConnections' = appConnections \cup {h}
        /\ UNCHANGED <<extConnections, overlapped>>
    BY <1>7 DEF handleConnect, Kinds
  <2>2. TypeOK'
    BY <1>1, <1>2, <1>4, <1>5, <2>1 DEF TypeOK, Statuses
  <2>3. appConnections' = {g \in Established' : kind'[g] = App}
    BY <1>3, <1>4, <1>5, <2>1 DEF RegisteredAreEstablished, Established
  <2>4. RegisteredAreEstablished'
    BY <1>1, <1>3, <1>4, <2>1, <2>3 DEF RegisteredAreEstablished, Established
  <2>5. TimersOfGone'
    BY <1>1, <1>4, <1>5 DEF TimersOfGone
  <2>6. QED
    BY <2>2, <2>4, <2>5
<1>8. QED
  BY <1>6, <1>7

\* A connection that is lost stays established and registered until its close
\* handler runs.
LEMMA LeaveKeeps ==
    ASSUME IInv, NEW h \in Conns, PeerLeaves(h)
    PROVE  IInv'
<1>1. Established' = Established
  BY DEF PeerLeaves, Established, IInv, TypeOK
<1>2. \A g \in Conns : g # h => conn'[g] = conn[g]
  BY DEF PeerLeaves, IInv, TypeOK
<1>3. TypeOK'
  BY DEF PeerLeaves, IInv, TypeOK, registers, histories
<1>4. RegisteredAreEstablished'
  BY <1>1 DEF PeerLeaves, IInv, RegisteredAreEstablished, registers
<1>5. TimersOfGone'
  BY <1>2 DEF PeerLeaves, IInv, TimersOfGone
<1>6. QED
  BY <1>3, <1>4, <1>5 DEF IInv

\* The close handler leaves no trace of its connection: an extension's entry is
\* removed by id, and no other id can hold the connection.
LEMMA DisconnectKeeps ==
    ASSUME IInv, NEW h \in Conns, handleDisconnect(h)
    PROVE  IInv'
<1> USE DEF IInv
<1>1. /\ conn' = [conn EXCEPT ![h] = "gone"] /\ conn[h] = "closing"
      /\ wsMode' = [wsMode EXCEPT ![h] = "none"]
      /\ UNCHANGED <<mode, kind, ext, serving, listening, overlapped>>
  BY DEF handleDisconnect
<1>2. status' \in Statuses
  BY AfterDispatchType DEF handleDisconnect, TypeOK, Statuses
<1>3. Established' = Established \ {h}
  BY <1>1 DEF Established, TypeOK
<1>4. \A g \in Conns : g # h => wsMode'[g] = wsMode[g] /\ conn'[g] = conn[g]
  BY <1>1 DEF TypeOK
<1>5. wsMode'[h] = "none" /\ conn'[h] = "gone"
  BY <1>1 DEF TypeOK
<1>6. \A g \in Conns : wsMode'[g] # "none" => g \in Established'
  BY <1>3, <1>4, <1>5 DEF RegisteredAreEstablished
<1>7. CASE kind[h] \in ExtIds
  <2>1. /\ extConnections' = [extConnections EXCEPT ![kind[h]] = None]
        /\ UNCHANGED <<mode, appConnections, timer>>
    BY <1>7 DEF handleDisconnect
  <2>2. kind[h] # App
    BY <1>7, KindsAssumption
  <2>3. TypeOK'
    BY <1>1, <1>2, <1>4, <1>5, <1>7, <2>1 DEF TypeOK, Statuses
  <2>4. appConnections' = {g \in Established' : kind'[g] = App}
    BY <1>1, <1>3, <2>1, <2>2 DEF RegisteredAreEstablished
  <2>5. \A e \in ExtIds : extConnections'[e] # None =>
            extConnections'[e] \in Established' /\ kind'[extConnections'[e]] = e
    BY <1>1, <1>3, <1>7, <2>1 DEF TypeOK, RegisteredAreEstablished
  <2>6. RegisteredAreEstablished'
    BY <1>6, <2>4, <2>5 DEF RegisteredAreEstablished
  <2>7. TimersOfGone'
    BY <1>4, <1>5, <2>1 DEF TimersOfGone
  <2>8. QED
    BY <2>3, <2>6, <2>7
<1>8. CASE kind[h] \notin ExtIds
  <2>1. /\ appConnections' = appConnections \ {h}
        /\ timer' \in {timer, [timer EXCEPT ![h] = "sleeping"]}
        /\ UNCHANGED extConnections
    BY <1>8 DEF handleDisconnect
  <2>2. kind[h] = App
    BY <1>8 DEF TypeOK, Kinds
  <2>3. TypeOK'
    BY <1>1, <1>2, <1>4, <1>5, <2>1, <2>2 DEF TypeOK, Statuses
  <2>4. appConnections' = {g \in Established' : kind'[g] = App}
    BY <1>1, <1>3, <2>1 DEF RegisteredAreEstablished
  <2>5. \A e \in ExtIds : extConnections'[e] # h
    BY <1>8, <2>1, KindsAssumption DEF RegisteredAreEstablished
  <2>6. RegisteredAreEstablished'
    BY <1>1, <1>3, <1>6, <2>1, <2>4, <2>5 DEF RegisteredAreEstablished
  <2>7. TimersOfGone'
    BY <1>4, <1>5, <2>1 DEF TimersOfGone, TypeOK
  <2>8. QED
    BY <2>3, <2>6, <2>7
<1>9. QED
  BY <1>7, <1>8

\* A message changes at most the mode of its sender, which is open.
LEMMA MessageKeeps ==
    ASSUME IInv, NEW h \in Conns, NEW op \in Opcodes, Message(h, op),
           serving' \in ServingStates, listening' \in BOOLEAN, status' \in Statuses
    PROVE  IInv'
<1> USE DEF IInv
<1>1. /\ conn[h] = "open"
      /\ wsMode' = ModeAfterMessage(h, op)
      /\ UNCHANGED <<mode, conn, kind, appConnections, extConnections, ext, timer,
                     overlapped>>
  BY DEF Message
<1>2. wsMode' = wsMode \/ (kind[h] \in ExtIds /\ wsMode' = [wsMode EXCEPT ![h] = op])
  BY <1>1 DEF ModeAfterMessage
<1>3. h \in Established /\ Established' = Established
  BY <1>1 DEF Established
<1>4. TypeOK'
  BY <1>1, <1>2 DEF TypeOK, ServingStates, Statuses
<1>5. RegisteredAreEstablished'
  BY <1>1, <1>2, <1>3 DEF TypeOK, RegisteredAreEstablished
<1>6. TimersOfGone'
  BY <1>1 DEF TimersOfGone
<1>7. QED
  BY <1>4, <1>5, <1>6

\* Every native message is a Message that leaves the server and the process in
\* a state of theirs.
LEMMA NativeMethodsKeep ==
    ASSUME IInv, NEW h \in Conns, NEW op \in Opcodes,
           \/ BroadcastAll(h, op)
           \/ BroadcastExtensions(h, op)
           \/ BroadcastApps(h, op)
           \/ \E e \in ExtIds : DispatchToExtension(h, op, e)
           \/ OtherMessage(h, op)
           \/ ExitMessage(h, op)
    PROVE  IInv'
<1>1. Message(h, op)
  BY DEF BroadcastAll, BroadcastExtensions, BroadcastApps, DispatchToExtension,
         OtherMessage, ExitMessage
<1>2. serving' \in ServingStates /\ listening' \in BOOLEAN
  BY DEF BroadcastAll, BroadcastExtensions, BroadcastApps, DispatchToExtension,
         OtherMessage, ExitMessage, IInv, TypeOK, ServingStates
<1>3. status' \in Statuses
  BY DEF BroadcastAll, BroadcastExtensions, BroadcastApps, DispatchToExtension,
         OtherMessage, ExitMessage, IInv, TypeOK, Statuses
<1>4. QED
  BY <1>1, <1>2, <1>3, MessageKeeps

\* Every step keeps the inductive invariant.
LEMMA NextIInv == IInv /\ [Next]_vars => IInv'
<1> SUFFICES ASSUME IInv, [Next]_vars PROVE IInv'
  OBVIOUS
<1>1. ASSUME NEW h \in Conns, NEW k \in Kinds, NEW local \in BOOLEAN, NEW token \in BOOLEAN,
             Refuse(h, k, local, token) \/ handleConnect(h, k, local, token)
      PROVE  IInv'
  BY <1>1, RefuseKeeps, ConnectKeeps
<1>2. ASSUME NEW h \in Conns, PeerLeaves(h) \/ handleDisconnect(h)
      PROVE  IInv'
  BY <1>2, LeaveKeeps, DisconnectKeeps
<1>3. CASE UNCHANGED vars
  BY <1>3, QuietKeeps DEF vars, registers, histories, IInv, TypeOK, ExtStates, TimerStates,
                          ServingStates, Statuses
<1>4. QED
  BY <1>1, <1>2, <1>3, OtherThreadsKeep, NativeMethodsKeep DEF Next

-----------------------------------------------------------------------------

\* The inductive invariant holds in every reachable state.
THEOREM Invariance == Spec => []IInv
BY InitIInv, NextIInv, PTL DEF Spec

\* For every number of connections and extensions: every variable of the server
\* has its type.
THEOREM TypeCorrect == Spec => []TypeOK
BY Invariance, PTL DEF IInv

\* For every number of connections and extensions: no register of
\* neuserver.cpp holds a connection whose close handler has run.
THEOREM RegistersSound == Spec => []RegisteredAreEstablished
BY Invariance, PTL DEF IInv

\* After a step, a registered connection that cannot be sent to is on its way
\* out.
LEMMA NotOpenIsLeavingNext ==
    ASSUME IInv', ~(Registered \subseteq Open)'
    PROVE  \E h \in Registered' : conn'[h] = "closing"
<1>1. PICK h \in Registered' : h \notin Open'
  OBVIOUS
<1>2. h \in Established'
  BY <1>1 DEF Registered, ExtRegister, IInv, RegisteredAreEstablished
<1>3. conn'[h] = "closing"
  BY <1>1, <1>2 DEF Open, Established
<1>4. QED
  BY <1>1, <1>3

\* A step aborts only if it sends to a registered connection that is leaving, or
\* stops a server that was stopped before or is being stopped by another thread.
LEMMA AbortStep ==
    ASSUME IInv, [Next]_vars, status' = "aborted", status # "aborted"
    PROVE  \/ ~listening
           \/ \E a, b \in Stoppers : a # b
           \/ \E h \in Registered' : conn'[h] = "closing"
<1> IInv'
  BY NextIInv
<1>1. ASSUME NEW h \in Conns, NEW k \in Kinds, NEW local \in BOOLEAN, NEW token \in BOOLEAN,
             handleConnect(h, k, local, token)
      PROVE  \E g \in Registered' : conn'[g] = "closing"
  <2>1. Open' = Open \cup {h}
    BY <1>1 DEF handleConnect, Open, IInv, TypeOK
  <2>2. ~(Registered \subseteq Open)'
    BY <1>1, <2>1 DEF handleConnect, AfterDispatch, Registered
  <2>3. QED
    BY <2>2, NotOpenIsLeavingNext
<1>2. ASSUME NEW h \in Conns, handleDisconnect(h)
      PROVE  \E g \in Registered' : conn'[g] = "closing"
  <2>1. Open' = Open
    BY <1>2 DEF handleDisconnect, Open, IInv, TypeOK
  <2>2. ~(Registered \subseteq Open)'
    BY <1>2, <2>1 DEF handleDisconnect, AfterDispatch, Registered
  <2>3. QED
    BY <2>2, NotOpenIsLeavingNext
<1>3. ASSUME ForeignDispatch
      PROVE  \E g \in Registered' : conn'[g] = "closing"
  <2>1. ~(Registered \subseteq Open)'
    BY <1>3 DEF ForeignDispatch, AfterDispatch, Registered, Open, registers
  <2>2. QED
    BY <2>1, NotOpenIsLeavingNext
<1>4. ASSUME NEW h \in Conns, TimerNext(h)
      PROVE  ~listening \/ \E a, b \in Stoppers : a # b
  <2>1. CASE TimerFires(h) \/ TimerLooks(h) \/ TimerExits(h)
    BY <2>1 DEF TimerFires, TimerLooks, TimerExits
  <2>2. ASSUME NEW throws \in BOOLEAN, TimerStops(h, throws)
        PROVE  \E a, b \in Stoppers : a # b
    <3>1. h \in Stoppers /\ Stoppers # {h}
      BY <2>2 DEF TimerStops, Stoppers
    <3>2. QED
      BY <3>1
  <2>3. QED
    BY <1>4, <2>1, <2>2 DEF TimerNext
<1>5. ASSUME NEW h \in Conns, NEW op \in Opcodes,
             \/ BroadcastAll(h, op)
             \/ BroadcastExtensions(h, op)
             \/ BroadcastApps(h, op)
             \/ \E e \in ExtIds : DispatchToExtension(h, op, e)
             \/ OtherMessage(h, op)
             \/ ExitMessage(h, op)
      PROVE  FALSE
  BY <1>5 DEF BroadcastAll, BroadcastExtensions, BroadcastApps, DispatchToExtension,
              OtherMessage, ExitMessage
<1>6. ASSUME \/ \E e \in ExtIds : SpawnExtension(e) \/ LoadOne(e)
             \/ MainReturns
             \/ \E h \in Conns : PeerLeaves(h)
             \/ \E h \in Conns, k \in Kinds, local, token \in BOOLEAN :
                   Refuse(h, k, local, token)
             \/ ServerExitNext
             \/ UNCHANGED vars
      PROVE  FALSE
  BY <1>6 DEF SpawnExtension, LoadOne, MainReturns, PeerLeaves, Refuse, ServerExitNext,
              ServerStops, ServerExits, vars
<1>7. QED
  BY <1>1, <1>2, <1>3, <1>4, <1>5, <1>6 DEF Next

\* For every number of connections and extensions and in every mode: with
\* every registered client open, no handler, dispatch or exit check aborts the
\* process unless the server is stopped twice.
THEOREM AbortsExplained == Spec => AbortNeedsLeaver
<1>1. IInv /\ [Next]_vars =>
        [status' = "aborted" /\ status # "aborted" =>
            \/ ~listening
            \/ \E a, b \in Stoppers : a # b
            \/ \E h \in Registered' : conn'[h] = "closing"]_vars
  BY AbortStep
<1>2. QED
  BY <1>1, Invariance, PTL DEF Spec, AbortNeedsLeaver

-----------------------------------------------------------------------------
(* Extensions: the register against the connections. *)

\* The steps that leave connections, kinds and entries alone leave the
\* correspondence alone.
LEMMA QuietExact ==
    ASSUME IInv, ExtensionsExact, Established' = Established,
           UNCHANGED <<kind, extConnections, overlapped>>
    PROVE  ExtensionsExact'
BY DEF ExtensionsExact

\* A refused connection was not established and is in no register.
LEMMA RefuseExact ==
    ASSUME IInv, ExtensionsExact, NEW h \in Conns, NEW k \in Kinds, NEW local \in BOOLEAN,
           NEW token \in BOOLEAN, Refuse(h, k, local, token)
    PROVE  ExtensionsExact'
<1> USE DEF IInv
<1>1. UNCHANGED <<extConnections, overlapped>>
  BY DEF Refuse, registers, histories
<1>2. Established' = Established /\ h \notin Established
  BY DEF Refuse, Established, TypeOK
<1>3. \A g \in Conns : g # h => kind'[g] = kind[g]
  BY DEF Refuse, TypeOK
<1>4. QED
  BY <1>1, <1>2, <1>3 DEF ExtensionsExact

\* A new connection of an extension that has none becomes its entry; if there is
\* one already, the extension has overlapped.
LEMMA ConnectExact ==
    ASSUME IInv, ExtensionsExact, NEW h \in Conns, NEW k \in Kinds, NEW local \in BOOLEAN,
           NEW token \in BOOLEAN, handleConnect(h, k, local, token)
    PROVE  ExtensionsExact'
<1> USE DEF IInv
<1>1. Established' = Established \cup {h} /\ h \notin Established
  BY DEF handleConnect, Established, TypeOK
<1>2. kind'[h] = k /\ \A g \in Conns : g # h => kind'[g] = kind[g]
  BY DEF handleConnect, TypeOK
<1> SUFFICES ASSUME NEW e \in ExtIds \ overlapped', NEW g \in Conns
             PROVE  extConnections'[e] = g <=> g \in Established' /\ kind'[g] = e
  BY DEF ExtensionsExact
<1>3. e \in ExtIds \ overlapped
  BY DEF handleConnect
<1>4. extConnections[e] = g <=> g \in Established /\ kind[g] = e
  BY <1>3 DEF ExtensionsExact
<1>5. CASE e = k
  <2>1. /\ extConnections' = [extConnections EXCEPT ![k] = h]
        /\ ~\E f \in Established : kind[f] = k
    BY <1>5 DEF handleConnect
  <2>2. extConnections'[e] = h
    BY <2>1, <1>5 DEF TypeOK
  <2>3. QED
    BY <1>1, <1>2, <1>5, <2>1, <2>2
<1>6. CASE e # k
  <2>1. extConnections'[e] = extConnections[e]
    BY <1>6 DEF handleConnect, TypeOK
  <2>2. QED
    BY <1>1, <1>2, <1>4, <1>6, <2>1
<1>7. QED
  BY <1>5, <1>6

\* The close handler removes the entry of the extension's id: without an overlap
\* that is the connection that leaves, and none is left.
LEMMA DisconnectExact ==
    ASSUME IInv, ExtensionsExact, NEW h \in Conns, handleDisconnect(h)
    PROVE  ExtensionsExact'
<1> USE DEF IInv
<1>1. Established' = Established \ {h} /\ h \in Established
  BY DEF handleDisconnect, Established, TypeOK
<1>2. UNCHANGED <<kind, overlapped>>
  BY DEF handleDisconnect, histories
<1> SUFFICES ASSUME NEW e \in ExtIds \ overlapped, NEW g \in Conns
             PROVE  extConnections'[e] = g <=> g \in Established' /\ kind[g] = e
  BY <1>2 DEF ExtensionsExact
<1>3. /\ extConnections[e] = g <=> g \in Established /\ kind[g] = e
      /\ extConnections[e] = h <=> h \in Established /\ kind[h] = e
  BY DEF ExtensionsExact
<1>4. CASE kind[h] = e
  <2>1. extConnections'[e] = None
    BY <1>4 DEF handleDisconnect, TypeOK
  <2>2. QED
    BY <1>1, <1>3, <1>4, <2>1, KindsAssumption
<1>5. CASE kind[h] # e
  <2>1. extConnections'[e] = extConnections[e]
    BY <1>5 DEF handleDisconnect, TypeOK
  <2>2. QED
    BY <1>1, <1>3, <1>5, <2>1
<1>6. QED
  BY <1>4, <1>5

\* Every step keeps the register of extensions exact.
LEMMA NextExact == IInv /\ ExtensionsExact /\ [Next]_vars => ExtensionsExact'
<1> SUFFICES ASSUME IInv, ExtensionsExact, [Next]_vars PROVE ExtensionsExact'
  OBVIOUS
<1>1. ASSUME NEW h \in Conns, NEW k \in Kinds, NEW local \in BOOLEAN, NEW token \in BOOLEAN,
             Refuse(h, k, local, token) \/ handleConnect(h, k, local, token)
      PROVE  ExtensionsExact'
  BY <1>1, RefuseExact, ConnectExact
<1>2. ASSUME NEW h \in Conns, PeerLeaves(h) PROVE ExtensionsExact'
  BY <1>2, QuietExact DEF PeerLeaves, Established, registers, histories, IInv, TypeOK
<1>3. ASSUME NEW h \in Conns, handleDisconnect(h) PROVE ExtensionsExact'
  BY <1>3, DisconnectExact
<1>4. ASSUME NEW h \in Conns, NEW op \in Opcodes, Message(h, op) PROVE ExtensionsExact'
  BY <1>4, QuietExact DEF Message, Established
<1>5. ASSUME NEW h \in Conns, NEW op \in Opcodes,
             \/ BroadcastAll(h, op)
             \/ BroadcastExtensions(h, op)
             \/ BroadcastApps(h, op)
             \/ \E e \in ExtIds : DispatchToExtension(h, op, e)
             \/ OtherMessage(h, op)
             \/ ExitMessage(h, op)
      PROVE  ExtensionsExact'
  BY <1>4, <1>5 DEF BroadcastAll, BroadcastExtensions, BroadcastApps, DispatchToExtension,
                    OtherMessage, ExitMessage
<1>6. ASSUME \/ \E e \in ExtIds : SpawnExtension(e) \/ LoadOne(e)
             \/ MainReturns
             \/ \E h \in Conns : TimerNext(h)
             \/ ServerExitNext
             \/ ForeignDispatch
             \/ UNCHANGED vars
      PROVE  ExtensionsExact'
  <2>1. UNCHANGED <<conn, kind, extConnections, overlapped>>
    BY <1>6 DEF SpawnExtension, LoadOne, MainReturns, TimerNext, TimerFires, TimerLooks,
                TimerStops, TimerExits, ServerExitNext, ServerStops, ServerExits,
                ForeignDispatch, registers, histories, vars
  <2>2. QED
    BY <2>1, QuietExact DEF Established
<1>7. QED
  BY <1>1, <1>2, <1>3, <1>5, <1>6 DEF Next

\* For every number of connections and extensions: an extension that never had
\* two connections at a time is registered exactly while it is connected, so
\* that extensions.dispatch and extensions.getStats tell the truth about it.
THEOREM ExtensionsExactHolds == Spec => []ExtensionsExact
<1>1. Init => ExtensionsExact
  BY KindsAssumption DEF Init, ExtensionsExact, Established
<1>2. QED
  BY <1>1, NextExact, Invariance, PTL DEF Spec

-----------------------------------------------------------------------------
(* What success of a broadcast means. *)

\* A loop over connections that are all open reaches all of them.
LEMMA ReachedAll ==
    ASSUME NEW members, NEW got \in Reached(members, Open), CastResult(members) = "success"
    PROVE  got = members
BY DEF Reached, CastResult

\* The same for the two loops of broadcast().
LEMMA BroadcastReachedAll ==
    ASSUME NEW apps, NEW exts, NEW got \in BroadcastReached(apps, exts, Open),
           CastResult(apps \cup exts) = "success"
    PROVE  got = apps \cup exts
<1>1. apps \subseteq Open /\ exts \subseteq Open
  BY DEF CastResult
<1>2. QED
  BY <1>1 DEF BroadcastReached, Reached

\* Who is registered: every established app connection, and of the extensions
\* only established connections, all of them if the extension never overlapped.
LEMMA RegistersComplete ==
    ASSUME IInv, ExtensionsExact
    PROVE  /\ \A h \in Open : kind[h] = App => h \in appConnections
           /\ \A h \in Open : kind[h] \in ExtIds \ overlapped => h \in ExtRegister(extConnections)
           /\ appConnections \subseteq Conns /\ ExtRegister(extConnections) \subseteq Conns
           /\ \A h \in appConnections : kind[h] = App
           /\ \A h \in ExtRegister(extConnections) : kind[h] \in ExtIds
<1> Open \subseteq Established /\ Established \subseteq Conns
  BY DEF Open, Established
<1>1. \A h \in Open : kind[h] = App => h \in appConnections
  BY DEF IInv, RegisteredAreEstablished
<1>2. \A h \in Open : kind[h] \in ExtIds \ overlapped => h \in ExtRegister(extConnections)
  <2> SUFFICES ASSUME NEW h \in Open, kind[h] \in ExtIds \ overlapped
               PROVE  h \in ExtRegister(extConnections)
    OBVIOUS
  <2>1. extConnections[kind[h]] = h
    BY DEF ExtensionsExact
  <2>2. QED
    BY <2>1, KindsAssumption DEF ExtRegister
<1>3. appConnections \subseteq Conns /\ \A h \in appConnections : kind[h] = App
  BY DEF IInv, RegisteredAreEstablished
<1>4. /\ ExtRegister(extConnections) \subseteq Conns
      /\ \A h \in ExtRegister(extConnections) : kind[h] \in ExtIds
  BY DEF IInv, RegisteredAreEstablished, ExtRegister
<1>5. QED
  BY <1>1, <1>2, <1>3, <1>4

\* The event went to the connected clients of these kinds, an extension that
\* overlapped possibly left out, and to nobody else.
Delivered(got, kinds) ==
    LET for == {h \in Open : kind[h] \in kinds}
    IN {h \in for : kind[h] \notin overlapped} \subseteq got /\ got \subseteq for

\* A native call that reports success was sent to everybody it is for.
LEMMA DeliveredStep ==
    ASSUME IInv, ExtensionsExact, [Next]_vars, last' # last, last'.result = "success"
    PROVE  Delivered(last'.got, Addressed(last'))
<1> DEFINE Goal == Delivered(last'.got, Addressed(last'))
<1> App \notin ExtIds /\ App \notin overlapped
  BY KindsAssumption DEF IInv, TypeOK
<1>1. ASSUME NEW h \in Conns, NEW op \in Opcodes, BroadcastAll(h, op) PROVE Goal
  <2>1. PICK got \in BroadcastReached(appConnections, ExtRegister(extConnections), Open) :
           last' = [method |-> "events.broadcast", target |-> App,
                    result |-> CastResult(Registered), got |-> got]
    BY <1>1 DEF BroadcastAll
  <2>2. got = Registered /\ Registered \subseteq Open
    BY <2>1, BroadcastReachedAll DEF Registered, CastResult
  <2>3. last'.got = Registered /\ Addressed(last') = ExtIds \cup {App}
    BY <2>1, <2>2 DEF Addressed, Kinds
  <2>4. QED
    BY <2>2, <2>3, RegistersComplete DEF Delivered, Registered
<1>2. ASSUME NEW h \in Conns, NEW op \in Opcodes, BroadcastExtensions(h, op) PROVE Goal
  <2>1. PICK got \in Reached(ExtRegister(extConnections), Open) :
           last' = [method |-> "extensions.broadcast", target |-> App,
                    result |-> CastResult(ExtRegister(extConnections)), got |-> got]
    BY <1>2 DEF BroadcastExtensions
  <2>2. got = ExtRegister(extConnections) /\ ExtRegister(extConnections) \subseteq Open
    BY <2>1, ReachedAll DEF CastResult
  <2>3. last'.got = ExtRegister(extConnections) /\ Addressed(last') = ExtIds
    BY <2>1, <2>2 DEF Addressed
  <2>4. QED
    BY <2>2, <2>3, RegistersComplete DEF Delivered
<1>3. ASSUME NEW h \in Conns, NEW op \in Opcodes, BroadcastApps(h, op) PROVE Goal
  <2>1. PICK got \in Reached(appConnections, Open) :
           last' = [method |-> "app.broadcast", target |-> App,
                    result |-> CastResult(appConnections), got |-> got]
    BY <1>3 DEF BroadcastApps
  <2>2. got = appConnections /\ appConnections \subseteq Open
    BY <2>1, ReachedAll DEF CastResult
  <2>3. last'.got = appConnections /\ Addressed(last') = {App}
    BY <2>1, <2>2 DEF Addressed
  <2>4. QED
    BY <2>2, <2>3, RegistersComplete DEF Delivered
<1>4. ASSUME NEW h \in Conns, NEW op \in Opcodes, NEW e \in ExtIds,
             DispatchToExtension(h, op, e)
      PROVE  Goal
  <2> DEFINE entry == extConnections[e]
  <2>1. last' = [method |-> "extensions.dispatch", target |-> e,
                 result |-> IF entry = None THEN "NE_EX_EXTNOTC" ELSE CastResult({entry}),
                 got |-> {entry} \cap Open]
    BY <1>4 DEF DispatchToExtension
  <2>2. entry \in Open /\ entry # None
    BY <2>1 DEF CastResult
  <2>3. last'.got = {entry} /\ Addressed(last') = {e}
    BY <2>1, <2>2 DEF Addressed
  <2>4. kind[entry] = e
    BY <2>2 DEF IInv, RegisteredAreEstablished
  <2>5. \A g \in Open : kind[g] = e /\ e \notin overlapped => g = entry
    BY DEF ExtensionsExact, Open, Established
  <2>6. QED
    BY <2>2, <2>3, <2>4, <2>5 DEF Delivered
<1>5. ASSUME NEW h \in Conns, NEW op \in Opcodes, OtherMessage(h, op) \/ ExitMessage(h, op)
      PROVE  FALSE
  <2>1. CASE OtherMessage(h, op)
    BY <2>1 DEF OtherMessage, NoCall
  <2>2. CASE ExitMessage(h, op)
    <3>1. last' = [method |-> "app.exit", target |-> App, got |-> {},
                   result |-> IF listening THEN "none" ELSE "NE_RT_NATRTER"]
      BY <2>2 DEF ExitMessage, NoCall
    <3>2. QED
      BY <3>1
  <2>3. QED
    BY <1>5, <2>1, <2>2
<1>6. ASSUME \/ \E h \in Conns, k \in Kinds, local, token \in BOOLEAN :
                   handleConnect(h, k, local, token)
             \/ \E h \in Conns : PeerLeaves(h) \/ handleDisconnect(h)
      PROVE  FALSE
  <2>1. last' = NoCall
    BY <1>6 DEF handleConnect, PeerLeaves, handleDisconnect
  <2>2. QED
    BY <2>1 DEF NoCall
<1>7. ASSUME \/ \E e \in ExtIds : SpawnExtension(e) \/ LoadOne(e)
             \/ MainReturns
             \/ \E h \in Conns, k \in Kinds, local, token \in BOOLEAN :
                   Refuse(h, k, local, token)
             \/ \E h \in Conns : TimerNext(h)
             \/ ServerExitNext
             \/ ForeignDispatch
             \/ UNCHANGED vars
      PROVE  FALSE
  BY <1>7 DEF SpawnExtension, LoadOne, MainReturns, Refuse, TimerNext, TimerFires, TimerLooks,
              TimerStops, TimerExits, ServerExitNext, ServerStops, ServerExits,
              ForeignDispatch, histories, vars
<1>8. QED
  BY <1>1, <1>2, <1>3, <1>4, <1>5, <1>6, <1>7 DEF Next

\* For every number of connections and extensions: events.broadcast,
\* app.broadcast, extensions.broadcast and extensions.dispatch report success
\* only if the event was sent to every connected client it is for, and they send
\* to no other, however clients come and go; an extension that had two
\* connections at a time may be left out.
THEOREM SuccessIsDelivery == Spec => SuccessMeansDelivered
<1>1. IInv /\ ExtensionsExact /\ [Next]_vars =>
        [last' # last /\ last'.result = "success" =>
          LET for == {h \in Open : kind[h] \in Addressed(last')}
          IN {h \in for : kind[h] \notin overlapped} \subseteq last'.got /\ last'.got \subseteq for]_vars
  BY DeliveredStep DEF Delivered
<1>2. QED
  BY <1>1, Invariance, ExtensionsExactHolds, PTL DEF Spec, SuccessMeansDelivered

=============================================================================
