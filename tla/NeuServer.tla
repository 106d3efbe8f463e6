----------------------------- MODULE NeuServer ------------------------------
(***************************************************************************)
(* The WebSocket side of the application server (server/neuserver.cpp):    *)
(* which clients are admitted, where their connections are registered,     *)
(* what a broadcast or a dispatch does with those registers, and how the   *)
(* process ends when nobody is left (browser and chrome modes).            *)
(*                                                                         *)
(* All handlers run on the one server thread, so a handler is one step.    *)
(* Other threads take part as well: the main thread loads extensions,      *)
(* process, reader and watcher threads dispatch events, and every leaving  *)
(* app client starts a thread that checks ten seconds later whether        *)
(* somebody is left.  The ten seconds are not modelled: a sleeping check   *)
(* may wake at any time.                                                   *)
(*                                                                         *)
(* websocketpp is modelled from the calls made to it: a connection that    *)
(* received a close frame or lost its socket is no longer open, but its    *)
(* close handler runs later; send() on a connection that is not open       *)
(* throws, which ends a broadcast at that connection; stop_listening()     *)
(* throws when the server does not listen, and looks at that, closes the   *)
(* acceptor and notes it without a lock: two threads can both pass, and    *)
(* closing the acceptor from both can throw.  executeNativeMethod catches  *)
(* what a native method throws; nothing catches it in an open or close     *)
(* handler, in a dispatching thread or in an exit check, and std::terminate*)
(* is called.  A broadcast visits connections in the order of their        *)
(* addresses and extensions in that of their ids, here in any order.       *)
(***************************************************************************)
EXTENDS Integers, FiniteSets

CONSTANTS
    Conns,      \* connections that can be made
    ExtIds,     \* extension ids of the configuration
    App,        \* the kind of a connection without an extension id
    None,       \* no connection
    Modes       \* the modes the application can be configured for

ASSUME KindsAssumption == App \notin ExtIds /\ None \notin Conns
ASSUME ModesAssumption == Modes \subseteq {"window", "browser", "cloud", "chrome"}

VARIABLES
    mode,           \* settings::getMode(), fixed at the start
    conn,           \* session state of each connection
    kind,           \* App, or the extension id in the connection's URL
    appConnections, \* the registered app connections
    extConnections, \* extension id -> connection, or None
    wsMode,         \* opcode of the first message of an extension, or "none"
    ext,            \* extension: "none", "spawned" (has its tokens), "loaded"
    timer,          \* the exit check started when an app connection left
    serving,        \* the server thread: idle, or inside app.exit
    listening,      \* the server accepts connections
    status,         \* the process: running, closing, exited, aborted
    last,           \* history: the last native call since the connections changed
    overlapped      \* history: ids that had two connections at a time

vars == <<mode, conn, kind, appConnections, extConnections, wsMode, ext, timer,
          serving, listening, status, last, overlapped>>
registers == <<appConnections, extConnections, wsMode>>
histories == <<last, overlapped>>

Kinds == ExtIds \cup {App}
Opcodes == {"text", "binary"}
NoCall == [method |-> "none", target |-> App, result |-> "none", got |-> {}]

Init ==
    /\ mode \in Modes
    /\ conn = [h \in Conns |-> "free"]
    /\ kind = [h \in Conns |-> App]
    /\ appConnections = {}
    /\ extConnections = [e \in ExtIds |-> None]
    /\ wsMode = [h \in Conns |-> "none"]
    /\ ext = [e \in ExtIds |-> "none"]
    /\ timer = [h \in Conns |-> "none"]
    /\ serving = "idle"
    /\ listening = TRUE
    /\ status = "running"
    /\ last = NoCall
    /\ overlapped = {}

Alive == status \in {"running", "closing"}

\* The server thread can take up the next handler.
Serving == Alive /\ serving = "idle"

Open == {h \in Conns : conn[h] = "open"}
Established == {h \in Conns : conn[h] \in {"open", "closing"}}
ExtRegister(ec) == {ec[e] : e \in ExtIds} \ {None}
Registered == appConnections \cup ExtRegister(extConnections)

-----------------------------------------------------------------------------
(* Sending events. *)

\* The connections a loop over `members' reaches: all of them when all are
\* open, else those before the first one that is not.
Reached(members, open) ==
    IF members \subseteq open THEN {members} ELSE SUBSET (members \cap open)

\* What broadcast() can reach: broadcastToAllApps, then, unless that threw,
\* broadcastToAllExtensions.
BroadcastReached(apps, exts, open) ==
    IF apps \subseteq open
    THEN {apps \cup reached : reached \in Reached(exts, open)}
    ELSE Reached(apps, open)

\* An event dispatched outside a native method: to all clients, and an
\* exception ends the process.
AfterDispatch(apps, exts, open) ==
    IF apps \cup exts \subseteq open THEN status ELSE "aborted"

-----------------------------------------------------------------------------
(* The main thread: extensions::init and the end of the UI loop. *)

\* The extension's process is started and gets port and tokens on its stdin.
SpawnExtension(e) ==
    /\ Alive
    /\ ext[e] = "none"
    /\ ext' = [ext EXCEPT ![e] = "spawned"]
    /\ UNCHANGED <<mode, conn, kind, registers, timer, serving, listening, status, histories>>

\* loadOne: after the start, or without one if the extension has no command.
LoadOne(e) ==
    /\ Alive
    /\ ext[e] # "loaded"
    /\ ext' = [ext EXCEPT ![e] = "loaded"]
    /\ UNCHANGED <<mode, conn, kind, registers, timer, serving, listening, status, histories>>

\* Window mode: window::_close ended the UI loop and main returns.
MainReturns ==
    /\ status = "closing"
    /\ status' = "exited"
    /\ UNCHANGED <<mode, conn, kind, registers, ext, timer, serving, listening, histories>>

-----------------------------------------------------------------------------
(* The server thread: admission, registration, removal. *)

handleValidate(k, local, token) ==
    /\ local \/ mode = "cloud"
    /\ token
    /\ k \in ExtIds => ext[k] = "loaded"

\* The handshake is refused.
Refuse(h, k, local, token) ==
    /\ Serving /\ listening
    /\ conn[h] = "free"
    /\ ~handleValidate(k, local, token)
    /\ conn' = [conn EXCEPT ![h] = "refused"]
    /\ kind' = [kind EXCEPT ![h] = k]
    /\ UNCHANGED <<mode, registers, ext, timer, serving, listening, status, histories>>

\* The handshake succeeds: handleConnect registers and dispatches.
handleConnect(h, k, local, token) ==
    /\ Serving /\ listening
    /\ conn[h] = "free"
    /\ handleValidate(k, local, token)
    /\ conn' = [conn EXCEPT ![h] = "open"]
    /\ kind' = [kind EXCEPT ![h] = k]
    /\ IF k \in ExtIds
       THEN /\ extConnections' = [extConnections EXCEPT ![k] = h]
            /\ overlapped' = IF \E g \in Established : kind[g] = k
                             THEN overlapped \cup {k} ELSE overlapped
            /\ UNCHANGED appConnections
       ELSE /\ appConnections' = appConnections \cup {h}
            /\ UNCHANGED <<extConnections, overlapped>>
    /\ status' = AfterDispatch(appConnections', ExtRegister(extConnections'), Open \cup {h})
    /\ last' = NoCall
    /\ UNCHANGED <<mode, wsMode, ext, timer, serving, listening>>

\* A close frame arrives or the socket fails: the connection is not open any
\* more, its close handler is still to come.
PeerLeaves(h) ==
    /\ Serving
    /\ conn[h] = "open"
    /\ conn' = [conn EXCEPT ![h] = "closing"]
    /\ last' = NoCall
    /\ UNCHANGED <<mode, kind, registers, ext, timer, serving, listening, status, overlapped>>

\* Mutant: an extension's entry is not removed.
handleDisconnect_KeepsExtension(h) ==
    /\ Serving
    /\ conn[h] = "closing"
    /\ conn' = [conn EXCEPT ![h] = "gone"]
    /\ wsMode' = [wsMode EXCEPT ![h] = "none"]
    /\ appConnections' = appConnections \ {h}
    /\ timer' = IF kind[h] \notin ExtIds /\ mode \in {"browser", "chrome"}
                THEN [timer EXCEPT ![h] = "sleeping"] ELSE timer
    /\ status' = AfterDispatch(appConnections', ExtRegister(extConnections), Open)
    /\ last' = NoCall
    /\ UNCHANGED <<mode, kind, extConnections, ext, serving, listening, overlapped>>

\* Mutant: the exit check is started only if nobody was registered before the
\* connection was removed.
handleDisconnect_ChecksTooEarly(h) ==
    /\ Serving
    /\ conn[h] = "closing"
    /\ conn' = [conn EXCEPT ![h] = "gone"]
    /\ wsMode' = [wsMode EXCEPT ![h] = "none"]
    /\ IF kind[h] \in ExtIds
       THEN /\ extConnections' = [extConnections EXCEPT ![kind[h]] = None]
            /\ UNCHANGED <<appConnections, timer>>
       ELSE /\ appConnections' = appConnections \ {h}
            /\ timer' = IF mode \in {"browser", "chrome"} /\ appConnections = {}
                        THEN [timer EXCEPT ![h] = "sleeping"] ELSE timer
            /\ UNCHANGED extConnections
    /\ status' = AfterDispatch(appConnections', ExtRegister(extConnections'), Open)
    /\ last' = NoCall
    /\ UNCHANGED <<mode, kind, ext, serving, listening, overlapped>>

\* The close handler.  An extension is removed by its id, whichever connection
\* is registered under it; an app connection starts an exit check.
handleDisconnect(h) ==
    /\ Serving
    /\ conn[h] = "closing"
    /\ conn' = [conn EXCEPT ![h] = "gone"]
    /\ wsMode' = [wsMode EXCEPT ![h] = "none"]
    /\ IF kind[h] \in ExtIds
       THEN /\ extConnections' = [extConnections EXCEPT ![kind[h]] = None]
            /\ UNCHANGED <<appConnections, timer>>
       ELSE /\ appConnections' = appConnections \ {h}
            /\ timer' = IF mode \in {"browser", "chrome"}
                        THEN [timer EXCEPT ![h] = "sleeping"] ELSE timer
            /\ UNCHANGED extConnections
    /\ status' = AfterDispatch(appConnections', ExtRegister(extConnections'), Open)
    /\ last' = NoCall
    /\ UNCHANGED <<mode, kind, ext, serving, listening, overlapped>>

-----------------------------------------------------------------------------
(* The server thread: native messages.  The sender is open while its message *)
(* is handled, so the reply reaches it.                                      *)

\* Mutant: the opcode is remembered for app clients too.
ModeAfterMessage_AllClients(h, op) ==
    IF wsMode[h] = "none" THEN [wsMode EXCEPT ![h] = op] ELSE wsMode

\* The opcode of an extension's first message is the opcode of its replies.
ModeAfterMessage(h, op) ==
    IF kind[h] \in ExtIds /\ wsMode[h] = "none" THEN [wsMode EXCEPT ![h] = op] ELSE wsMode

\* Mutant: a broadcast that swallows the exception of a failed send.
CastResult_Swallowed(members) == "success"

\* The outcome of a native method that sends to `members': NE_RT_NATRTER when
\* a send threw.
CastResult(members) == IF members \subseteq Open THEN "success" ELSE "NE_RT_NATRTER"

\* handleMessage up to the call of the native method.
Message(h, op) ==
    /\ Serving
    /\ conn[h] = "open"
    /\ wsMode' = ModeAfterMessage(h, op)
    /\ UNCHANGED <<mode, conn, kind, appConnections, extConnections, ext, timer,
                   overlapped>>

\* events.broadcast: apps and extensions.
BroadcastAll(h, op) ==
    /\ Message(h, op)
    /\ \E got \in BroadcastReached(appConnections, ExtRegister(extConnections), Open) :
          last' = [method |-> "events.broadcast", target |-> App,
                   result |-> CastResult(Registered), got |-> got]
    /\ UNCHANGED <<serving, listening, status>>

\* extensions.broadcast.
BroadcastExtensions(h, op) ==
    /\ Message(h, op)
    /\ \E got \in Reached(ExtRegister(extConnections), Open) :
          last' = [method |-> "extensions.broadcast", target |-> App,
                   result |-> CastResult(ExtRegister(extConnections)), got |-> got]
    /\ UNCHANGED <<serving, listening, status>>

\* app.broadcast.
BroadcastApps(h, op) ==
    /\ Message(h, op)
    /\ \E got \in Reached(appConnections, Open) :
          last' = [method |-> "app.broadcast", target |-> App,
                   result |-> CastResult(appConnections), got |-> got]
    /\ UNCHANGED <<serving, listening, status>>

\* extensions.dispatch.
DispatchToExtension(h, op, e) ==
    /\ Message(h, op)
    /\ LET entry == extConnections[e]
       IN last' = [method |-> "extensions.dispatch", target |-> e,
                   result |-> IF entry = None THEN "NE_EX_EXTNOTC" ELSE CastResult({entry}),
                   got |-> {entry} \cap Open]
    /\ UNCHANGED <<serving, listening, status>>

\* A message that cannot be parsed, and every other method.
OtherMessage(h, op) ==
    /\ Message(h, op)
    /\ last' = NoCall
    /\ UNCHANGED <<serving, listening, status>>

\* The threads that have passed the look of stop_listening.
Stoppers ==
    {h \in Conns : timer[h] = "stopping"} \cup (IF serving = "stopping" THEN {None} ELSE {})

\* app.exit: stop_listening fails if the server does not listen any more (caught,
\* so the call fails and the process stays).
ExitMessage(h, op) ==
    /\ Message(h, op)
    /\ last' = [NoCall EXCEPT !.method = "app.exit",
                              !.result = IF listening THEN "none" ELSE "NE_RT_NATRTER"]
    /\ serving' = IF listening THEN "stopping" ELSE "idle"
    /\ UNCHANGED <<listening, status>>

\* stop_listening closes the acceptor, which can throw if another thread closes
\* it as well, and notes that the server does not listen.
ServerStops(throws) ==
    /\ Alive
    /\ serving = "stopping"
    /\ throws => Stoppers # {None}
    /\ serving' = IF throws THEN "idle" ELSE "stopped"
    /\ listening' = (throws /\ listening)
    /\ UNCHANGED <<mode, conn, kind, registers, ext, timer, status, histories>>

\* app::exit: the window is closed or the process exits.
ServerExits ==
    /\ Alive
    /\ serving = "stopped"
    /\ serving' = "idle"
    /\ status' = IF mode = "window" THEN "closing" ELSE "exited"
    /\ UNCHANGED <<mode, conn, kind, registers, ext, timer, listening, histories>>

-----------------------------------------------------------------------------
(* Other threads. *)

\* A process, reader or watcher thread dispatches an event.
ForeignDispatch ==
    /\ Alive
    /\ status' = AfterDispatch(appConnections, ExtRegister(extConnections), Open)
    /\ UNCHANGED <<mode, conn, kind, registers, ext, timer, serving, listening, histories>>

\* __exitProcessIfIdle: the check wakes.
TimerFires(h) ==
    /\ Alive
    /\ timer[h] = "sleeping"
    /\ timer' = [timer EXCEPT ![h] = IF appConnections = {} THEN "exiting" ELSE "done"]
    /\ UNCHANGED <<mode, conn, kind, registers, ext, serving, listening, status, histories>>

\* app::exit: the look of stop_listening, uncaught if the server has stopped.
TimerLooks(h) ==
    /\ Alive
    /\ timer[h] = "exiting"
    /\ timer' = [timer EXCEPT ![h] = IF listening THEN "stopping" ELSE "done"]
    /\ status' = IF listening THEN status ELSE "aborted"
    /\ UNCHANGED <<mode, conn, kind, registers, ext, serving, listening, histories>>

TimerStops(h, throws) ==
    /\ Alive
    /\ timer[h] = "stopping"
    /\ throws => Stoppers # {h}
    /\ timer' = [timer EXCEPT ![h] = IF throws THEN "done" ELSE "stopped"]
    /\ listening' = (throws /\ listening)
    /\ status' = IF throws THEN "aborted" ELSE status
    /\ UNCHANGED <<mode, conn, kind, registers, ext, serving, histories>>

\* app::exit: std::exit.
TimerExits(h) ==
    /\ Alive
    /\ timer[h] = "stopped"
    /\ status' = "exited"
    /\ UNCHANGED <<mode, conn, kind, registers, ext, timer, serving, listening, histories>>

-----------------------------------------------------------------------------
TimerNext(h) ==
    \/ TimerFires(h)
    \/ TimerLooks(h)
    \/ \E throws \in BOOLEAN : TimerStops(h, throws)
    \/ TimerExits(h)

ServerExitNext == (\E throws \in BOOLEAN : ServerStops(throws)) \/ ServerExits

Next ==
    \/ \E e \in ExtIds : SpawnExtension(e) \/ LoadOne(e)
    \/ MainReturns
    \/ \E h \in Conns, k \in Kinds, local, token \in BOOLEAN :
          Refuse(h, k, local, token) \/ handleConnect(h, k, local, token)
    \/ \E h \in Conns : PeerLeaves(h) \/ handleDisconnect(h) \/ TimerNext(h)
    \/ \E h \in Conns, op \in Opcodes :
          \/ BroadcastAll(h, op)
          \/ BroadcastExtensions(h, op)
          \/ BroadcastApps(h, op)
          \/ \E e \in ExtIds : DispatchToExtension(h, op, e)
          \/ OtherMessage(h, op)
          \/ ExitMessage(h, op)
    \/ ServerExitNext
    \/ ForeignDispatch

Spec == Init /\ [][Next]_vars

\* The exit checks wake and run to their end, the server thread goes on with an
\* exit, and a close handler follows every lost connection.  Nothing is assumed
\* of the clients.
Fairness ==
    /\ WF_vars(ServerExitNext)
    /\ \A h \in Conns : WF_vars(TimerNext(h)) /\ WF_vars(handleDisconnect(h))

FairSpec == Spec /\ Fairness

-----------------------------------------------------------------------------
(* Properties. *)

\* Every variable has its type; only extensions have a message mode and only
\* app connections start an exit check.
TypeOK ==
    /\ mode \in Modes
    /\ conn \in [Conns -> {"free", "refused", "open", "closing", "gone"}]
    /\ kind \in [Conns -> Kinds]
    /\ appConnections \subseteq Conns
    /\ extConnections \in [ExtIds -> Conns \cup {None}]
    /\ wsMode \in [Conns -> Opcodes \cup {"none"}]
    /\ ext \in [ExtIds -> {"none", "spawned", "loaded"}]
    /\ timer \in [Conns -> {"none", "sleeping", "exiting", "stopping", "stopped", "done"}]
    /\ serving \in {"idle", "stopping", "stopped"}
    /\ listening \in BOOLEAN
    /\ status \in {"running", "closing", "exited", "aborted"}
    /\ overlapped \subseteq ExtIds
    /\ \A h \in Conns : wsMode[h] # "none" => kind[h] \in ExtIds
    /\ \A h \in Conns : timer[h] # "none" => kind[h] = App

\* The registers never hold a connection whose close handler has run, although
\* handleDisconnect removes an extension by id and not by connection: a send to
\* such a handle would throw for ever after and every dispatch would be fatal.
RegisteredAreEstablished ==
    /\ appConnections = {h \in Established : kind[h] = App}
    /\ \A e \in ExtIds : extConnections[e] # None =>
          extConnections[e] \in Established /\ kind[extConnections[e]] = e
    /\ \A h \in Conns : wsMode[h] # "none" => h \in Established

\* An extension that never had two connections at a time is registered exactly
\* while it is connected, so getStats and dispatch tell the truth about it.
ExtensionsExact ==
    \A e \in ExtIds \ overlapped : \A h \in Conns :
        extConnections[e] = h <=> h \in Established /\ kind[h] = e

\* The kinds of client that a call addresses.
Addressed(call) ==
    CASE call.method = "events.broadcast" -> Kinds
      [] call.method = "extensions.broadcast" -> ExtIds
      [] call.method = "app.broadcast" -> {App}
      [] OTHER -> {call.target}

\* A broadcast or dispatch that reports success was sent to every client it is
\* for that is connected, and to no other: the registers its loops walk through
\* miss nobody and hold nobody else, whatever connections came and went before,
\* except an extension that had two connections at a time (NotConnectedIsTrue).
SuccessMeansDelivered ==
    [][last' # last /\ last'.result = "success" =>
          LET for == {h \in Open : kind[h] \in Addressed(last')}
          IN {h \in for : kind[h] \notin overlapped} \subseteq last'.got /\ last'.got \subseteq for]_vars

\* An uncaught exception needs a registered client that is on its way out, its
\* close handler still to come, or a second stop of the server, after the first
\* or at the same time: no connect, no disconnect and no event of another thread
\* aborts the process otherwise.
AbortNeedsLeaver ==
    [][status' = "aborted" /\ status # "aborted" =>
          \/ ~listening
          \/ \E a, b \in Stoppers : a # b
          \/ \E h \in Registered' : conn'[h] = "closing"]_vars

\* Browser and chrome modes: when an app client has left and nobody is connected,
\* the process ends or somebody connects again; every leaver starts a check of
\* its own, so the last one cannot be missed.
IdleEnds ==
    [](mode \in {"browser", "chrome"}
          /\ appConnections = {} /\ (\E h \in Conns : kind[h] = App /\ conn[h] = "gone")
       => <>(~Alive \/ appConnections # {}))

\* Stated by CHANGELOG.md:868 of NE_EX_EXTNOTC: dispatch reports an extension
\* as not connected only if it has no open connection.
NotConnectedIsTrue ==
    [][last' # last /\ last'.result = "NE_EX_EXTNOTC" =>
          \A h \in Open : kind[h] # last'.target]_vars

=============================================================================
