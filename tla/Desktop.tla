------------------------------- MODULE Desktop ------------------------------
(***************************************************************************)
(* The window of an application over its runs: the state it saves and      *)
(* loads, how it is closed, and how the process ends (api/window/window.cpp,*)
(* api/app/app.cpp, lib/webview/webview.h on Linux), with the tray.        *)
(*                                                                         *)
(*   - the main thread runs the loop of GTK: it handles the close button   *)
(*     and the clicks on the tray menu;                                    *)
(*   - the server thread runs native methods: app.exit, app.killProcess,   *)
(*     window.setSize, os.setTray.                                         *)
(*                                                                         *)
(* app::exit runs on either, step by step.  The first thing it does is to  *)
(* stop the server, and a server that does not listen any more throws:     *)
(* the router catches it on the server thread, nobody does on the main     *)
(* thread.  stop_listening looks, closes the acceptor and sets the state   *)
(* without a lock, so that both threads can be inside.  The process can be *)
(* killed at any time; the file of the saved state stays.  GTK calls of    *)
(* the two threads are taken one at a time (GTK itself does not promise    *)
(* that).                                                                  *)
(*                                                                         *)
(* A geometry is a size (one number) and a place, which stands for the     *)
(* position and the maximized flag.  Sizes on the screen are in pixels,    *)
(* those of the API and of the file are divided by the scale of the        *)
(* display (useLogicalPixels).                                             *)
(***************************************************************************)
EXTENDS Tray

CONSTANTS
    Configs,        \* records: server, api, exitProcessOnClose, useSavedState
    Scale,          \* __getScaleFactor(), or 1 without useLogicalPixels
    Sizes,          \* the sizes in pixels a user can give the window
    Places,         \* where the user can put it
    Configured,     \* size and place of the configuration
    NoFile, Torn    \* no saved state; one that was not written to its end

ASSUME ScaleAssumption == Scale \in Nat \ {0} /\ \A p \in Sizes : p \in Nat /\ p >= Scale
ASSUME ConfigAssumption ==
    /\ Configs # {}
    /\ Configs \subseteq [server : BOOLEAN, api : BOOLEAN, exitProcessOnClose : BOOLEAN,
                          useSavedState : BOOLEAN]
    /\ Configured = [size |-> Configured.size, place |-> Configured.place]
    /\ Configured.size \in Nat

VARIABLES
    running,        \* there is a process, with its window
    conf,           \* its configuration
    file,           \* NEU_WIN_CONFIG_FILE: a geometry, NoFile or Torn
    wnd,            \* size in pixels and place of the window
    savedState,     \* the state was loaded
    listening,      \* the server listens
    pc,             \* where each thread is in app::exit
    saving,         \* the geometry each thread has taken to save
    took,           \* history: the window (in pixels) it has taken it from
    raced,          \* history: both threads have been inside neuserver::stop
    deletes,        \* delete-events in the queue of the main loop
    failed,         \* history: the file could not be written in this run
    left,           \* history: the window (in pixels) the state in the file is of, or NoFile
    ended           \* how the process ended, "none" while one runs

windowVars == <<wnd, savedState, listening, pc, saving, took, raced, deletes, failed>>
vars == <<trayVars, windowVars, running, conf, file, left, ended>>

Threads == {"main", "server"}
NoWindow == [size |-> 0, place |-> Configured.place]
Off == CHOOSE c \in Configs : TRUE

Idle == [t \in Threads |-> "idle"]
NothingSaved == [t \in Threads |-> NoWindow]

Init ==
    /\ TrayInit
    /\ wnd = NoWindow
    /\ savedState = FALSE
    /\ listening = FALSE
    /\ pc = Idle
    /\ saving = NothingSaved
    /\ took = NothingSaved
    /\ raced = FALSE
    /\ deletes = 0
    /\ failed = FALSE
    /\ running = FALSE
    /\ conf = Off
    /\ file = NoFile
    /\ left = NoFile
    /\ ended = "none"

\* The process ends; what it held in memory is gone.
Ends(how) ==
    /\ TrayEnds
    /\ wnd' = NoWindow
    /\ savedState' = FALSE
    /\ listening' = FALSE
    /\ pc' = Idle
    /\ saving' = NothingSaved
    /\ took' = NothingSaved
    /\ raced' = FALSE
    /\ deletes' = 0
    /\ failed' = FALSE
    /\ running' = FALSE
    /\ conf' = Off
    /\ ended' = how
    /\ UNCHANGED <<file, left>>

-----------------------------------------------------------------------------
(* Sizes. *)

\* set_size: pixels for a size of the API or the file.
Pixels(size) == IF size > 0 THEN size * Scale ELSE size

\* Mutant: the size in pixels.
getSize_Pixels(w) == w.size

getSize(w) == w.size \div Scale

-----------------------------------------------------------------------------
(* Start. *)

\* Mutant: a file that is not whole gives what can be read of it.
loadSavedWindowProps_Part ==
    CASE file = NoFile -> Configured
      [] file = Torn -> [Configured EXCEPT !.size = 0]
      [] OTHER -> file

\* The geometry of the file, or that of the configuration if there is no file
\* or it does not parse (a part of a JSON object is none).
loadSavedWindowProps == IF file \in {NoFile, Torn} THEN Configured ELSE file

createWindow(c) ==
    /\ ~running
    /\ running' = TRUE
    /\ conf' = c
    /\ savedState' = (c.useSavedState /\ file \notin {NoFile, Torn})
    /\ LET props == IF c.useSavedState THEN loadSavedWindowProps ELSE Configured
       IN wnd' = [size |-> Pixels(props.size), place |-> props.place]
    /\ listening' = c.server
    /\ ended' = "none"
    /\ UNCHANGED <<trayVars, pc, saving, took, raced, deletes, failed, file, left>>

-----------------------------------------------------------------------------
(* The user and the native methods. *)

\* Nothing else runs on the server thread.
ServerFree == conf.server /\ conf.api /\ pc["server"] = "idle" /\ setting = None

UserMoves(w) ==
    /\ running
    /\ w # wnd
    /\ wnd' = w
    /\ UNCHANGED <<trayVars, savedState, listening, pc, saving, took, raced, deletes, failed,
                   running, conf, file, left, ended>>

\* window.setSize.
setSize(size) ==
    /\ running
    /\ ServerFree
    /\ wnd' = [wnd EXCEPT !.size = Pixels(size)]
    /\ UNCHANGED <<trayVars, savedState, listening, pc, saving, took, raced, deletes, failed,
                   running, conf, file, left, ended>>

\* The close button (bound: one click waits at a time).
UserCloses ==
    /\ running
    /\ deletes = 0
    /\ deletes' = 1
    /\ UNCHANGED <<trayVars, wnd, savedState, listening, pc, saving, took, raced, failed,
                   running, conf, file, left, ended>>

\* app.killProcess, which saves nothing, or a signal from outside.
killProcess == running /\ Ends("killed")

-----------------------------------------------------------------------------
(* app::exit. *)

\* An exception in app::exit: the router answers it with an error, the main
\* thread has nobody to catch it.
Throws(t) ==
    IF t = "main" THEN Ends("aborted")
    ELSE /\ pc' = [pc EXCEPT ![t] = "idle"]
         /\ UNCHANGED <<trayVars, wnd, savedState, listening, saving, took, raced, deletes, failed,
                        running, conf, file, left, ended>>

\* Mutant: the server is not stopped.
exitBegins_NoStop(t) ==
    /\ pc' = [pc EXCEPT ![t] = "tray"]
    /\ deletes' = IF t = "main" THEN deletes - 1 ELSE deletes
    /\ UNCHANGED <<trayVars, wnd, savedState, listening, saving, took, raced, failed,
                   running, conf, file, left, ended>>

\* neuserver::stop, if there is a server: it must be listening.
exitBegins(t) ==
    IF conf.server /\ ~listening THEN Throws(t)
    ELSE /\ pc' = [pc EXCEPT ![t] = IF conf.server THEN "stop" ELSE "tray"]
         /\ raced' = (raced \/ \E u \in Threads \ {t} : pc[u] = "stop")
         /\ deletes' = IF t = "main" THEN deletes - 1 ELSE deletes
         /\ UNCHANGED <<trayVars, wnd, savedState, listening, saving, took, failed,
                        running, conf, file, left, ended>>

\* The rest of stop_listening closes the acceptor and sets the state.  Where both
\* threads close it, one may find the descriptor gone and throw, or its record
\* freed under it.
exitStops(t) ==
    /\ running
    /\ pc[t] = "stop"
    /\ \/ /\ listening' = FALSE
          /\ pc' = [pc EXCEPT ![t] = "tray"]
          /\ UNCHANGED <<trayVars, wnd, savedState, saving, took, raced, deletes, failed,
                         running, conf, file, left, ended>>
       \/ raced /\ (Throws(t) \/ Ends("crashed"))

\* The native method app.exit.
appExit == running /\ ServerFree /\ exitBegins("server")

\* Mutant: only the configuration counts.
ExitsOnClose_Configured == conf.exitProcessOnClose

\* Closing the window exits, unless the application can and shall decide.
ExitsOnClose == conf.exitProcessOnClose \/ ~conf.server \/ ~conf.api

\* The main loop handles a delete-event: exit, or a windowClose event.
windowStateChange ==
    /\ running
    /\ deletes > 0
    /\ pc["main"] = "idle"
    /\ IF ExitsOnClose THEN exitBegins("main")
       ELSE /\ deletes' = deletes - 1
            /\ UNCHANGED <<trayVars, wnd, savedState, listening, pc, saving, took, raced, failed,
                           running, conf, file, left, ended>>

exitCleansTray(t) ==
    /\ running
    /\ pc[t] = "tray"
    /\ cleanupTray
    /\ pc' = [pc EXCEPT ![t] = IF conf.useSavedState THEN "save" ELSE "close"]
    /\ UNCHANGED <<wnd, savedState, listening, saving, took, raced, deletes, failed,
                   running, conf, file, left, ended>>

\* __saveWindowProps up to the opening of the file, which empties it.
saveBegins(t) ==
    /\ running
    /\ pc[t] = "save"
    /\ saving' = [saving EXCEPT ![t] = [size |-> getSize(wnd), place |-> wnd.place]]
    /\ took' = [took EXCEPT ![t] = wnd]
    /\ file' = Torn
    /\ left' = NoFile
    /\ pc' = [pc EXCEPT ![t] = "write"]
    /\ UNCHANGED <<trayVars, wnd, savedState, listening, raced, deletes, failed,
                   running, conf, ended>>

\* The file cannot be opened: nobody looks.  The directory cannot be made: that
\* throws, with the server stopped and the tray gone.
saveFails(t) ==
    /\ running
    /\ pc[t] = "save"
    /\ \/ /\ failed' = TRUE
          /\ pc' = [pc EXCEPT ![t] = "close"]
          /\ UNCHANGED <<trayVars, wnd, savedState, listening, saving, took, raced, deletes,
                         running, conf, file, left, ended>>
       \/ Throws(t)

\* The state is written, or cut short by a full disk.  A state of the other
\* thread that was written since this one emptied the file shows behind a shorter
\* one, and the two are no JSON object.
saveEnds(t) ==
    /\ running
    /\ pc[t] = "write"
    /\ pc' = [pc EXCEPT ![t] = "close"]
    /\ \/ file' = saving[t] /\ left' = took[t] /\ UNCHANGED failed
       \/ file' = Torn /\ left' = NoFile /\ failed' = TRUE
       \/ file \notin {Torn, saving[t]} /\ file' = Torn /\ left' = NoFile /\ UNCHANGED failed
    /\ UNCHANGED <<trayVars, wnd, savedState, listening, saving, took, raced, deletes,
                   running, conf, ended>>

\* gtk_window_close: a delete-event for the main loop.
closeWindow(t) ==
    /\ running
    /\ pc[t] = "close"
    /\ deletes' = deletes + 1
    /\ pc' = [pc EXCEPT ![t] = "destroy"]
    /\ UNCHANGED <<trayVars, wnd, savedState, listening, saving, took, raced, failed,
                   running, conf, file, left, ended>>

\* gtk_widget_destroy: its handler ends the process.
destroyWindow(t) == running /\ pc[t] = "destroy" /\ Ends("exited")

-----------------------------------------------------------------------------
(* The tray. *)

TrayCalled ==
    /\ running
    /\ ServerFree
    /\ \E request \in Requests : setTray(request)
    /\ UNCHANGED <<windowVars, running, conf, file, left, ended>>

TrayStep ==
    /\ running
    /\ FillItem \/ MarkEnd \/ trayUpdate
    /\ UNCHANGED <<windowVars, running, conf, file, left, ended>>

TrayClicked ==
    /\ running
    /\ pc["main"] = "idle"
    /\ \E k \in Slots : trayMenuItemClicked(k)
    /\ UNCHANGED <<windowVars, running, conf, file, left, ended>>

TrayCrashes ==
    /\ running
    /\ \/ TrayOverrun
       \/ pc["main"] = "idle" /\ \E k \in 1..MaxItems + 1 : TrayWildCall(k)
    /\ Ends("crashed")

-----------------------------------------------------------------------------
ExitStep(t) ==
    \/ exitStops(t)
    \/ exitCleansTray(t)
    \/ saveBegins(t)
    \/ saveFails(t)
    \/ saveEnds(t)
    \/ closeWindow(t)
    \/ destroyWindow(t)

Next ==
    \/ \E c \in Configs : createWindow(c)
    \/ \E size \in Sizes, place \in Places : UserMoves([size |-> size, place |-> place])
    \/ \E p \in Sizes : setSize(p \div Scale)
    \/ UserCloses
    \/ killProcess
    \/ appExit
    \/ windowStateChange
    \/ \E t \in Threads : ExitStep(t)
    \/ TrayCalled
    \/ TrayStep
    \/ TrayClicked
    \/ TrayCrashes

\* Both threads go on with what they have begun, and the main loop handles what
\* is in its queue.
Spec ==
    /\ Init
    /\ [][Next]_vars
    /\ WF_vars(windowStateChange)
    /\ \A t \in Threads : WF_vars(ExitStep(t))
    /\ WF_vars(TrayStep)

-----------------------------------------------------------------------------
(* Properties. *)

LogicalSizes == {p \div Scale : p \in Sizes} \cup {Configured.size}
Geometries == [size : LogicalSizes, place : Places \cup {Configured.place}]
Windows == [size : Sizes \cup {Pixels(s) : s \in LogicalSizes}, place : Places \cup {Configured.place}]

\* Every variable has its type; the file holds a geometry or nothing usable, and
\* the window a size that was asked for.
TypeOK ==
    /\ running \in BOOLEAN /\ conf \in Configs
    /\ file \in Geometries \cup {NoFile, Torn}
    /\ left \in Windows \cup {NoFile}
    /\ IF running THEN wnd \in Windows ELSE wnd = NoWindow
    /\ savedState \in BOOLEAN /\ listening \in BOOLEAN /\ failed \in BOOLEAN
    /\ pc \in [Threads -> {"idle", "stop", "tray", "save", "write", "close", "destroy"}]
    /\ saving \in [Threads -> Geometries \cup {NoWindow}]
    /\ took \in [Threads -> Windows \cup {NoWindow}]
    /\ raced \in BOOLEAN
    /\ deletes \in 0..3
    /\ ended \in {"none", "exited", "killed", "aborted", "crashed"}
    /\ menus \in [Slots -> Items \cup {None}]
    /\ trayInitialized \in BOOLEAN /\ half \in BOOLEAN

\* A window opens as the configuration says, or in the place and with the size
\* in which an earlier one was saved, never with a part of each; the size loses
\* what is less than one logical pixel and so changes once at most, however often
\* the application is started (getSize and set_size convert back and forth).
ReopensAsLeft ==
    [][~running /\ running' =>
          IF savedState'
          THEN /\ wnd'.place = left.place
               /\ wnd'.size = left.size - (left.size % Scale)
          ELSE wnd' = [Configured EXCEPT !.size = Pixels(@)]]_vars

\* A process that exits by itself, with the saved state in use and a disk that
\* takes it, leaves the whole geometry the exiting thread took, whatever the
\* other thread was doing.  The one exception is that app.exit and the close
\* button were both between the look and the set of stop_listening: then one
\* thread can have emptied the file, or written over the other's longer state,
\* when the other ends the process; the file then holds what one of them took or
\* nothing that can be read.
StateIsWhole ==
    [][(running /\ ~running' /\ ended' = "exited" /\ conf.useSavedState /\ ~failed) =>
          IF raced THEN file' \in {Torn} \cup {saving[t] : t \in Threads}
          ELSE \E t \in Threads : pc[t] = "destroy" /\ file' = saving[t]]_vars

\* Closing the window ends the process if it is configured to, or if there is
\* no server or no API by which the application could end it.
CloseEnds ==
    [](running /\ deletes > 0 /\ (conf.exitProcessOnClose \/ ~conf.server \/ ~conf.api)
          => <>~running)

\* After a setTray that succeeded with fewer items than the array has places,
\* the user sees these items and no other, whatever longer menus and failed
\* calls went before.
ShownIsRequested ==
    running /\ accepted # Garbage /\ Len(accepted) < MaxItems => shown = accepted

\* A click reports the item the user has clicked on, unless a setTray is under
\* way or has failed half-way since the menu was shown (the widgets point into
\* the array that setTray fills).
ClickIsShown ==
    [][\A k \in Slots : (trayMenuItemClicked(k) /\ setting = None /\ ~half) =>
          told' = IF shown[k] \in Idless THEN None ELSE shown[k]]_vars

=============================================================================
