------------------------------- MODULE Startup ------------------------------
(***************************************************************************)
(* The life of an application from main() to the pages it shows            *)
(* (main.cpp, auth/authbasic.cpp, extensions_loader.cpp, the injections of *)
(* api/window/window.cpp, the start of server/neuserver.cpp):              *)
(*                                                                         *)
(*   - the main thread reads the command line, finds the resources, loads  *)
(*     the options, makes the token, registers the permissions, starts the *)
(*     server thread, exports the authentication file, loads the           *)
(*     extensions, injects scripts into the window and shows it;           *)
(*   - the server thread answers requests for the globals (neutralino.js,  *)
(*     __neutralino_globals.js) and validates connections, from the moment *)
(*     it runs, whatever the main thread is doing;                         *)
(*   - the pages: the one of the window (or browser) that the program      *)
(*     opens, and others that reach the server.                            *)
(*                                                                         *)
(* authbasic::getToken looks at tokenSent and then sets it, without a lock *)
(* and on both threads: it is two steps.  Before the server thread runs    *)
(* nobody sees the main thread, and a function of main() is one step.      *)
(*                                                                         *)
(* External: what the client library does with the globals (the token is   *)
(* NL_TOKEN if that is not empty, else the one kept in sessionStorage;     *)
(* Neutralino.init keeps it there).                                        *)
(***************************************************************************)
EXTENDS Permission, FiniteSets

CONSTANTS
    Setups,         \* the configurations, command lines and surroundings to start with
    Others,         \* pages that reach the server and that the program did not open
    Extensions,     \* ids of extensions
    None            \* no page

\* The page of the window, or the one os::open shows in a browser.
page == "page"
Pages == Others \cup {page}
DevTools == "js.neutralino.devtools"
Ephemeral == 1      \* the port the system chooses for port 0

\* The page of the program is not one of the others, and none bears the name
\* under which a stage of the main thread is given the token.
ASSUME PagesAssumption ==
    /\ page \notin Others
    /\ Pages \cap {"globalsSet", "librarySet"} = {}
    /\ None \notin [page : Pages, withheld : BOOLEAN]

\* A configuration has the shape of options; its lists of extensions and of
\* methods are lists of such, and its document root and url are texts, cut into
\* pieces, as they are on the command line; what stands there is not absent.
ASSUME SetupsAssumption ==
    \A s \in Setups :
        /\ IsOptions(s.config)
        /\ \A o \in {s.config.root} \cup {s.config.modes[m] : m \in Modes} :
              /\ o["extensions"] # Null =>
                    o["extensions"] \in Seq([id : Extensions \cup {DevTools, Null},
                                             command : BOOLEAN])
              /\ \A list \in {o["nativeAllowList"], o["nativeBlockList"]} : list # Null =>
                    \A entry \in list : entry = <<entry[1], entry[2]>>
              /\ {o["documentRoot"], o["url"]} \subseteq Seq(STRING) \cup {Null}
        /\ s.args \in Seq(Range(s.args))
        /\ \A i \in DOMAIN s.args :
              /\ s.args[i].value # Null
              /\ s.args[i].key \in {"--document-root", "--url"} => s.args[i].value \in Seq(STRING)

VARIABLES
    setup,          \* what the program is started with; never changes
    stage,          \* where the main thread is
    todo,           \* extensions that extensions::init has still to do
    resMode,        \* resources::mode
    options,        \* settings::options
    overrides,      \* settings::configOverrides
    oneTime,        \* authbasic::tokenSecurity is one-time
    tokenSent,      \* authbasic::tokenSent
    perm,           \* the lists of permission.cpp
    listening,      \* the port of the server, or Null
    loaded,         \* extensions::loadedExtensions
    extInit,        \* extensions::initialized
    scripts,        \* the NL_TOKEN of each script that runs at every page load
    serving,        \* the page whose request for the globals is being answered
    pages,          \* see PageType
    ext,            \* the process of each extension
    handed,         \* history: who was given the token by getToken
    lost,           \* history: an answer with the token was not kept by its page
    raced,          \* history: both threads were inside getToken at once
    toldPorts       \* history: the ports told to pages, extensions and the file

bootVars == <<resMode, options, overrides, oneTime, perm, listening>>
extVars == <<todo, loaded, extInit>>
clientVars == <<tokenSent, scripts, serving, pages, ext, handed, lost, raced, toldPorts>>
vars == <<setup, stage, bootVars, extVars, clientVars>>

(***************************************************************************)
(* doc      no document, being loaded, waiting for the globals, with the   *)
(*          globals, with the client library started                       *)
(* nlToken  the global NL_TOKEN of the document                            *)
(* session  sessionStorage holds the token                                 *)
(* extOn    the global NL_EXTENABLED of the document                       *)
(***************************************************************************)
PageType == [doc : {"none", "loading", "fetching", "fetched", "ready"},
             nlToken : {"undefined", "empty", "token"},
             session : BOOLEAN, extOn : BOOLEAN]
NoPage == [doc |-> "none", nlToken |-> "undefined", session |-> FALSE, extOn |-> FALSE]

HasToken(c) == pages[c].nlToken = "token" \/ pages[c].session

Stages == {"args", "resources", "settings", "framework", "server", "extra", "extensions",
           "load", "app", "globals", "globalsSet", "library", "librarySet", "navigate",
           "running", "exited", "aborted"}
Over == stage \in {"exited", "aborted"}

Init ==
    /\ setup \in Setups
    /\ stage = "args"
    /\ todo = <<>>
    /\ resMode = "embedded"
    /\ options = [root |-> NoOptions, modes |-> [m \in Modes |-> NoOptions]]
    /\ overrides = <<>>
    /\ oneTime = TRUE
    /\ tokenSent = FALSE
    /\ perm = Unrestricted
    /\ listening = Null
    /\ loaded = {}
    /\ extInit = FALSE
    /\ scripts = <<>>
    /\ serving = None
    /\ pages = [c \in Pages |-> NoPage]
    /\ ext = [e \in Extensions |-> "none"]
    /\ handed = {}
    /\ lost = FALSE
    /\ raced = FALSE
    /\ toldPorts = {}

-----------------------------------------------------------------------------
(* main(): __initFramework. *)

\* Mutant: any text is taken for a mode of the resources.
ArgRead_AnyMode(st, arg) ==
    CASE arg.key = "--load-dir-res" -> [st EXCEPT !.resMode = "directory"]
      [] arg.key = "--res-mode" -> [st EXCEPT !.resMode = arg.value]
      [] arg.key = "--neu-dev-extension" /\ st.resMode = "directory" ->
            [st EXCEPT !.loaded = @ \cup {DevTools}]
      [] OTHER -> [st EXCEPT !.overrides = @ \o applyConfigOverride(arg)]

\* What the loop of setGlobalArgs keeps; the developer tools are loaded only if
\* an argument before has chosen the directory mode.
ArgRead(st, arg) ==
    CASE arg.key = "--load-dir-res" -> [st EXCEPT !.resMode = "directory"]
      [] arg.key = "--res-mode" ->
            [st EXCEPT !.resMode =
                IF arg.value \in {"directory", "bundle", "embedded"} THEN arg.value ELSE @]
      [] arg.key = "--neu-dev-extension" /\ st.resMode = "directory" ->
            [st EXCEPT !.loaded = @ \cup {DevTools}]
      [] OTHER -> [st EXCEPT !.overrides = @ \o applyConfigOverride(arg)]

\* The loop over the arguments.
ArgsRead(begin, args) ==
    LET st[i \in 0..Len(args)] == IF i = 0 THEN begin ELSE ArgRead(st[i - 1], args[i])
    IN st[Len(args)]

setGlobalArgs ==
    /\ stage = "args"
    /\ LET st == ArgsRead([resMode |-> resMode, loaded |-> loaded, overrides |-> overrides],
                          setup.args)
       IN /\ resMode' = st.resMode
          /\ loaded' = st.loaded
          /\ overrides' = st.overrides
    /\ stage' = "resources"
    /\ UNCHANGED <<setup, options, oneTime, perm, listening, todo, extInit, clientVars>>

\* Embedded resources, then the bundle, then the directory.
FoundMode(mode) ==
    CASE mode = "directory" -> "directory"
      [] mode = "embedded" /\ setup.embedded -> "embedded"
      [] mode # "directory" /\ ~(mode = "embedded" /\ setup.embedded) /\ setup.bundle -> "bundle"
      [] OTHER -> "directory"

resourcesInit ==
    /\ stage = "resources"
    /\ resMode' = FoundMode(resMode)
    /\ stage' = "settings"
    /\ UNCHANGED <<setup, options, overrides, oneTime, perm, listening, extVars, clientVars>>

\* A file that does not parse ends the program, as does a number that stoi
\* refuses; without a file the program goes on with the command line alone.
settingsInit ==
    /\ stage = "settings"
    /\ CASE setup.file = "broken" -> stage' = "exited" /\ UNCHANGED options
         [] setup.file # "broken" /\ InitThrows(overrides) ->
               stage' = "aborted" /\ UNCHANGED options
         [] OTHER ->
               /\ stage' = "framework"
               /\ options' = ApplyOverrides(IF setup.file = "missing" THEN options
                                            ELSE setup.config, overrides)
    /\ UNCHANGED <<setup, resMode, overrides, oneTime, perm, listening, extVars, clientVars>>

\* Mutant: permission::init is forgotten.
authInit_NoLists ==
    /\ stage = "framework"
    /\ oneTime' = LET security == getOptionForCurrentMode(options, "tokenSecurity")
                  IN security = Null \/ security = "one-time"
    /\ stage' = "server"
    /\ UNCHANGED <<setup, resMode, options, overrides, perm, listening, extVars, clientVars>>

\* authbasic::init and permission::init.
authInit ==
    /\ stage = "framework"
    /\ oneTime' = LET security == getOptionForCurrentMode(options, "tokenSecurity")
                  IN security = Null \/ security = "one-time"
    /\ perm' = Registered(options)
    /\ stage' = "server"
    /\ UNCHANGED <<setup, resMode, options, overrides, listening, extVars, clientVars>>

-----------------------------------------------------------------------------
(* main(): __startServerAsync and __initExtra. *)

Port == getOptionForCurrentMode(options, "port")

\* The port the server is asked for, and the one it gets.
ActualPort == IF Port \in {Null, 0} THEN Ephemeral ELSE Port

\* neuserver::init and startAsync; a port in use ends the program.
startServerAsync ==
    /\ stage = "server"
    /\ CASE ~Enabled(options, "enableServer") ->
               stage' = "extra" /\ UNCHANGED <<listening, options>>
         [] Enabled(options, "enableServer") /\ ActualPort \in setup.busyPorts ->
               stage' = "exited" /\ UNCHANGED <<listening, options>>
         [] OTHER ->
               /\ listening' = ActualPort
               /\ options' = IF Port # ActualPort THEN setPort(options, ActualPort) ELSE options
               /\ stage' = "extra"
    /\ UNCHANGED <<setup, resMode, overrides, oneTime, perm, extVars, clientVars>>

\* Telling a port that is not set throws, and nobody catches it on the main
\* thread.  Without its directory (made = FALSE) the file is not written.
initExtra ==
    /\ stage = "extra"
    /\ \E made \in BOOLEAN :
       LET exports == Enabled(options, "exportAuthInfo") /\ made IN
       IF exports /\ Port = Null
       THEN stage' = "aborted" /\ UNCHANGED <<todo, toldPorts>>
       ELSE /\ toldPorts' = IF exports THEN toldPorts \cup {Port} ELSE toldPorts
            /\ LET list == getOptionForCurrentMode(options, "extensions")
               IN IF Enabled(options, "enableExtensions") /\ list # Null
                  THEN stage' = "extensions" /\ todo' = list
                  ELSE stage' = "app" /\ UNCHANGED todo
    /\ UNCHANGED <<setup, bootVars, loaded, extInit, tokenSent, scripts, serving, pages, ext,
                   handed, lost, raced>>

\* extensions::init: the process of the next extension, if it has a command,
\* starts and is told how to connect.
startExtension ==
    /\ stage = "extensions"
    /\ todo # <<>>
    /\ Head(todo).id # Null
    /\ IF Head(todo).command
       THEN /\ ext' = [ext EXCEPT ![Head(todo).id] = "started"]
            /\ IF Port = Null THEN stage' = "aborted" /\ UNCHANGED toldPorts
               ELSE stage' = "load" /\ toldPorts' = toldPorts \cup {Port}
       ELSE stage' = "load" /\ UNCHANGED <<ext, toldPorts>>
    /\ UNCHANGED <<setup, bootVars, extVars, tokenSent, scripts, serving, pages, handed, lost,
                   raced>>

\* An extension without an id is passed over.
skipExtension ==
    /\ stage = "extensions"
    /\ todo # <<>>
    /\ Head(todo).id = Null
    /\ todo' = Tail(todo)
    /\ UNCHANGED <<setup, stage, bootVars, loaded, extInit, clientVars>>

\* Mutant: an extension with a command is not registered.
loadOne_OnlyCommandless ==
    /\ stage = "load"
    /\ loaded' = IF Head(todo).command THEN loaded ELSE loaded \cup {Head(todo).id}
    /\ todo' = Tail(todo)
    /\ stage' = "extensions"
    /\ UNCHANGED <<setup, bootVars, extInit, clientVars>>

\* extensions::loadOne.
loadOne ==
    /\ stage = "load"
    /\ loaded' = loaded \cup {Head(todo).id}
    /\ todo' = Tail(todo)
    /\ stage' = "extensions"
    /\ UNCHANGED <<setup, bootVars, extInit, clientVars>>

\* extensions::init returns.
extensionsLoaded ==
    /\ stage = "extensions"
    /\ todo = <<>>
    /\ extInit' = TRUE
    /\ stage' = "app"
    /\ UNCHANGED <<setup, bootVars, todo, loaded, clientVars>>

-----------------------------------------------------------------------------
(* authbasic::getToken, on either thread. *)

\* Mutant: the configured security is not looked at.
Withheld_Always == tokenSent

\* The token will be withheld.
Withheld == tokenSent /\ oneTime

\* A thread has looked at tokenSent and goes on to set it.
MainInside == stage \in {"globalsSet", "librarySet"}
ServerInside == serving # None /\ ~serving.withheld

\* Mutant: nobody remembers that the token was sent.
GiveToken_Forgets(who) ==
    /\ handed' = handed \cup {who}
    /\ UNCHANGED tokenSent

\* The second half: tokenSent is set and the token returned.
GiveToken(who) ==
    /\ tokenSent' = TRUE
    /\ handed' = handed \cup {who}

-----------------------------------------------------------------------------
(* main(): __startApp. *)

Injects(key) == options.modes["window"][key] = TRUE

\* The window mode builds the window; the others show a page, or just wait.
startApp ==
    /\ stage = "app"
    /\ stage' = IF getMode(options) = "window" THEN "globals" ELSE "running"
    /\ UNCHANGED <<setup, bootVars, extVars, clientVars>>

\* A script with the globals, injected by stage "at": getGlobalVars reads the
\* port, which throws if there is none, and asks for the token.
InjectBegins(at, key, next) ==
    /\ stage = at
    /\ CASE ~Injects(key) -> stage' = next /\ UNCHANGED <<scripts, toldPorts>>
         [] Injects(key) /\ Port = Null -> stage' = "aborted" /\ UNCHANGED <<scripts, toldPorts>>
         [] Injects(key) /\ Port # Null /\ Withheld ->
               /\ scripts' = Append(scripts, "empty")
               /\ toldPorts' = toldPorts \cup {Port}
               /\ stage' = next
         [] OTHER ->
               /\ toldPorts' = toldPorts \cup {Port}
               /\ stage' = IF at = "globals" THEN "globalsSet" ELSE "librarySet"
               /\ UNCHANGED scripts
    /\ raced' = (raced \/ (MainInside' /\ ServerInside))
    /\ UNCHANGED <<setup, bootVars, extVars, tokenSent, serving, pages, ext, handed, lost>>

InjectEnds(at, next) ==
    /\ stage = at
    /\ GiveToken(at)
    /\ scripts' = Append(scripts, "token")
    /\ stage' = next
    /\ UNCHANGED <<setup, bootVars, extVars, serving, pages, ext, lost, raced, toldPorts>>

\* injectGlobals, then __injectClientLibrary (whose file is there).
injectGlobals == InjectBegins("globals", "injectGlobals", "library")
                 \/ InjectEnds("globalsSet", "library")
injectClientLibrary == InjectBegins("library", "injectClientLibrary", "navigate")
                       \/ InjectEnds("librarySet", "navigate")

\* navigate(), and the loop of the window.
showWindow ==
    /\ stage = "navigate"
    /\ stage' = "running"
    /\ UNCHANGED <<setup, bootVars, extVars, clientVars>>

MainThread ==
    \/ setGlobalArgs \/ resourcesInit \/ settingsInit \/ authInit
    \/ startServerAsync \/ initExtra \/ startExtension \/ skipExtension \/ loadOne
    \/ extensionsLoaded \/ startApp \/ injectGlobals \/ injectClientLibrary \/ showWindow

-----------------------------------------------------------------------------
(* Pages: external, but for the requests they make. *)

\* The program has opened its page; others only need the server.
Reachable(c) == IF c = page THEN stage = "running" /\ getMode(options) # "cloud"
                ELSE listening # Null /\ c \in setup.others

\* The token the scripts of the window leave in a new document.
ScriptToken(c) ==
    IF c = page /\ getMode(options) = "window" /\ scripts # <<>> THEN Last(scripts)
    ELSE "undefined"

\* A document is loaded, for the first time or again; the window runs its scripts.
Load(c) ==
    /\ ~Over
    /\ Reachable(c)
    /\ lost' = (lost \/ (pages[c].doc = "fetched" /\ pages[c].nlToken = "token"))
    /\ pages' = [pages EXCEPT ![c] = [@ EXCEPT !.doc = "loading", !.nlToken = ScriptToken(c),
                                              !.extOn = ScriptToken(c) # "undefined" /\ extInit]]
    /\ UNCHANGED <<setup, stage, bootVars, extVars, tokenSent, scripts, serving, ext, handed,
                   raced, toldPorts>>

\* The client library starts (Neutralino.init) and keeps the token.
LibraryStarts(c) ==
    /\ ~Over
    /\ pages[c].doc = IF setup.fetches THEN "fetched" ELSE "loading"
    /\ pages' = [pages EXCEPT ![c] =
                    [@ EXCEPT !.doc = "ready",
                              !.session = pages[c].session \/ pages[c].nlToken = "token"]]
    /\ UNCHANGED <<setup, stage, bootVars, extVars, tokenSent, scripts, serving, ext, handed,
                   lost, raced, toldPorts>>

-----------------------------------------------------------------------------
(* The server thread: router::serve of the globals, handleValidate. *)

\* The document takes the globals of the answer; if it is gone, they are lost.
Answered(c, token) ==
    /\ pages' = IF pages[c].doc = "fetching"
                THEN [pages EXCEPT ![c] = [@ EXCEPT !.doc = "fetched", !.nlToken = token,
                                                   !.extOn = extInit]]
                ELSE pages
    /\ lost' = (lost \/ (pages[c].doc # "fetching" /\ token = "token"))

\* A request for neutralino.js: the globals up to the question of getToken.
serveGlobals(c) ==
    /\ ~Over
    /\ listening # Null
    /\ setup.fetches
    /\ serving = None
    /\ pages[c].doc = "loading"
    /\ pages' = [pages EXCEPT ![c].doc = "fetching"]
    /\ toldPorts' = toldPorts \cup {Port}
    /\ serving' = [page |-> c, withheld |-> Withheld]
    /\ raced' = (raced \/ (MainInside /\ ServerInside'))
    /\ UNCHANGED <<setup, stage, bootVars, extVars, tokenSent, scripts, ext, handed, lost>>

\* The rest of getToken and of the globals, and the answer.
answerGlobals ==
    /\ ~Over
    /\ serving # None
    /\ IF serving.withheld
       THEN Answered(serving.page, "empty") /\ UNCHANGED <<tokenSent, handed>>
       ELSE Answered(serving.page, "token") /\ GiveToken(serving.page)
    /\ serving' = None
    /\ UNCHANGED <<setup, stage, bootVars, extVars, scripts, ext, raced, toldPorts>>

\* An extension connects: refused as long as it is not loaded.
handleValidate(e) ==
    /\ ~Over
    /\ listening # Null
    /\ ext[e] = "started"
    /\ ext' = [ext EXCEPT ![e] = IF e \in loaded THEN "connected" ELSE "refused"]
    /\ UNCHANGED <<setup, stage, bootVars, extVars, tokenSent, scripts, serving, pages,
                   handed, lost, raced, toldPorts>>

ServerThread ==
    \/ \E c \in Pages : serveGlobals(c)
    \/ answerGlobals
    \/ \E e \in Extensions : handleValidate(e)

Clients == \E c \in Pages : Load(c) \/ LibraryStarts(c)

StartupNext == MainThread \/ ServerThread \/ Clients

=============================================================================
