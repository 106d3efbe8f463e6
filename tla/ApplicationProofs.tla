------------------------- MODULE ApplicationProofs --------------------------
(***************************************************************************)
(* Theorems of Application: the configuration in force, what pages and     *)
(* extensions are told, who is given the token, what native calls may do   *)
(* and what requests are answered with, for every configuration, command   *)
(* line, set of pages, set of extensions and tree of files.                *)
(***************************************************************************)
EXTENDS Application, ConfigurationProofs, FiniteSetTheorems

-----------------------------------------------------------------------------
(* The invariant, in six parts. *)

\* The main thread has started the server; it has loaded the extensions.
Served == {"extra", "extensions", "load", "app", "globals", "globalsSet", "library",
           "librarySet", "navigate", "running"}
Begun == {"app", "globals", "globalsSet", "library", "librarySet", "navigate", "running"}
Marks == {"globalsSet", "librarySet"}

Blank == [root |-> NoOptions, modes |-> [m \in Modes |-> NoOptions]]
Listing == getOptionForCurrentMode(options, "extensions")
Configured == Enabled(options, "enableExtensions") /\ Listing # Null

\* What the options are once they are loaded: as in the file where the command
\* line does not set them, else as the command line says last.
FromFile ==
    \A key \in Keys \ {"port"} : Unset(setup.args, key) =>
        \A at \in Places :
            ValueAt(options, at, key) =
                IF setup.file = "missing" THEN Null ELSE ValueAt(setup.config, at, key)

FromArgs ==
    \A key \in CliKeys : \A i \in 1..Len(setup.args) : \A at \in PlacesOf(key) :
        LastSetting(setup.args, i, key) /\ (key = "port" => listening = Null)
            => ValueAt(options, at, key) = ArgValue(setup.args[i])

\* The configuration, the permissions and the port.
ConfigInv ==
    /\ setup \in Setups /\ stage \in Stages
    /\ resMode \in ResModes /\ loaded \subseteq Extensions \cup {DevTools}
    /\ IsOptions(options)
    /\ stage \in {"args", "resources", "settings"} => options = Blank
    /\ stage = "args" => overrides = <<>>
    /\ stage \in {"resources", "settings"} => SayTheSame(overrides, setup.args, Len(setup.args))
    /\ Ready => FromFile /\ FromArgs
    /\ stage \in Served \cup {"server"} => perm = Registered(options)
    /\ listening # Null => stage \in Served /\ Port = listening
    /\ stage \notin Served => toldPorts = {} \/ Over
    /\ toldPorts \subseteq {Port}

TypesInv ==
    /\ {oneTime, tokenSent, extInit, lost} \subseteq BOOLEAN
    /\ todo \in Seq([id : Extensions \cup {DevTools, Null}, command : BOOLEAN])
    /\ scripts \in Seq({"empty", "token"})
    /\ serving = None \/ serving \in [page : Pages, withheld : BOOLEAN]
    /\ pages \in [Pages -> PageType]
    /\ ext \in [Extensions -> {"none", "started", "refused", "connected"}]
    /\ handed \subseteq Pages \cup Marks
    /\ Range(mountedPaths) \subseteq DOMAIN TargetFiles

\* The extensions: while they are loaded those that are not yet loaded are still
\* to be done, and once they are configured the program goes on with all of them.
LoadingInv ==
    /\ extInit => stage \in Begun \cup {"aborted"}
    /\ extInit => Configured /\ \A i \in DOMAIN Listing : Listing[i].id \in loaded \cup {Null}
    /\ stage \in {"extensions", "load"} =>
          /\ Configured
          /\ \A i \in DOMAIN Listing : \/ Listing[i].id \in loaded \cup {Null}
                                       \/ \E j \in DOMAIN todo : todo[j] = Listing[i]
    /\ stage = "load" => todo # <<>> /\ Head(todo).id # Null
    /\ stage \in Begun /\ Configured => extInit

\* The scripts of the window: one for each injection that is behind the main thread.
One(key) == IF Injects(key) THEN 1 ELSE 0

ScriptsInv ==
    /\ stage \notin {"library", "librarySet", "navigate", "running", "aborted"} => scripts = <<>>
    /\ stage \in {"library", "librarySet"} => Len(scripts) = One("injectGlobals")
    /\ stage \in {"globals", "globalsSet", "library", "librarySet", "navigate"} =>
          getMode(options) = "window"
    /\ stage = "globalsSet" => Injects("injectGlobals")
    /\ stage = "librarySet" => Injects("injectClientLibrary")
    /\ stage \in {"navigate", "running"} =>
          Len(scripts) = IF getMode(options) = "window"
                         THEN One("injectGlobals") + One("injectClientLibrary") ELSE 0

\* Who was given the token.
TokenInv ==
    /\ tokenSent <=> handed # {}
    /\ handed # {} => stage \in Served \cup {"aborted"}
    /\ serving # None => listening # Null /\ setup.fetches
    /\ ~setup.fetches => handed \cap Pages = {}
    /\ \A i \in DOMAIN scripts : scripts[i] = "empty" => tokenSent /\ oneTime
    /\ stage \in Marks => \A i \in DOMAIN scripts : scripts[i] # "empty"
    /\ scripts # <<>> /\ scripts[1] = "empty" => handed \cap Marks = {}
    /\ handed \cap Marks # {} => scripts # <<>>
    /\ serving # None => (serving.withheld => tokenSent /\ oneTime)
    /\ oneTime =>
          /\ stage \in Marks => handed \cap Marks = {}
          /\ serving # None => (~serving.withheld => handed \cap Pages = {})
          /\ \A a, b \in handed \cap Marks : a = b
          /\ \A a, b \in handed \cap Pages : a = b

\* What the pages know.
PagesInv ==
    /\ \A c \in Pages : pages[c].doc = "none" \/
          IF c = page THEN stage = "running" ELSE listening # Null
    /\ \A c \in Pages : pages[c].extOn => extInit /\ pages[c].doc # "none"
    /\ \A c \in Pages : pages[c].nlToken = "empty" => tokenSent /\ oneTime
    /\ pages[page].doc \in {"fetching", "fetched"} => setup.fetches /\ listening # Null
    /\ pages[page].doc = "ready" /\ setup.fetches => listening # Null
    /\ pages[page].doc = "fetched" \/ (pages[page].doc = "ready" /\ setup.fetches) =>
          /\ pages[page].nlToken \in {"empty", "token"}
          /\ pages[page].extOn = extInit
    /\ pages[page].doc \in {"loading", "ready"} /\ ~setup.fetches =>
          /\ pages[page].nlToken = ScriptToken(page)
          /\ pages[page].extOn = (ScriptToken(page) # "undefined" /\ extInit)
    /\ page \in handed /\ ~lost =>
          \/ pages[page].session
          \/ pages[page].doc = "fetched" /\ pages[page].nlToken = "token"

\* As long as the threads have not met in getToken, one that is inside comes
\* before everybody who is given the token, and alone.
RaceInv ==
    /\ raced \in BOOLEAN
    /\ oneTime /\ ~raced =>
          /\ ~(MainInside /\ ServerInside)
          /\ MainInside \/ ServerInside => handed = {}
          /\ \A a, b \in handed : a = b

AppInv == ConfigInv /\ TypesInv /\ LoadingInv /\ ScriptsInv /\ TokenInv /\ PagesInv

\* The steps of the main thread after the start of the server.
LateMain ==
    \/ initExtra \/ startExtension \/ skipExtension \/ loadOne \/ extensionsLoaded
    \/ startApp \/ injectGlobals \/ injectClientLibrary \/ showWindow

-----------------------------------------------------------------------------
(* Options. *)

LEMMA BlankIsOptions == IsOptions(Blank)
BY DEF IsOptions, Blank, NoOptions

\* settings::setPort sets the port everywhere and nothing else.
LEMMA PortSet ==
    ASSUME NEW o, IsOptions(o), NEW p, p # Null
    PROVE  /\ IsOptions(setPort(o, p))
           /\ \A key \in Keys \ {"port"} : \A at \in Places :
                 ValueAt(setPort(o, p), at, key) = ValueAt(o, at, key)
           /\ \A at \in Places : ValueAt(setPort(o, p), at, "port") = p
<1>1. PICK r, q : r = o.root /\ q = o.modes
  OBVIOUS
<1>2. r = [k \in Keys |-> r[k]] /\ q = [m \in Modes |-> [k \in Keys |-> q[m][k]]]
  BY <1>1 DEF IsOptions
<1>3. setPort(o, p) = [root |-> [r EXCEPT !["port"] = p],
                       modes |-> [m \in Modes |-> [q[m] EXCEPT !["port"] = p]]]
  BY <1>1 DEF setPort
<1>4. [r EXCEPT !["port"] = p] = [k \in Keys |-> IF k = "port" THEN p ELSE r[k]]
  BY <1>2
<1>5. ASSUME NEW m \in Modes
      PROVE  [q[m] EXCEPT !["port"] = p] = [k \in Keys |-> IF k = "port" THEN p ELSE q[m][k]]
  BY <1>2
<1>6. setPort(o, p) = [root |-> [k \in Keys |-> IF k = "port" THEN p ELSE r[k]],
                       modes |-> [m \in Modes |->
                                    [k \in Keys |-> IF k = "port" THEN p ELSE q[m][k]]]]
  BY <1>3, <1>4, <1>5
<1>7. "root" \notin Modes /\ "port" \in Keys
  BY DEF Modes, Keys
<1>8. IsOptions(setPort(o, p))
  BY <1>6 DEF IsOptions
<1>9. ASSUME NEW key \in Keys, NEW at \in Places
      PROVE  ValueAt(setPort(o, p), at, key) = IF key = "port" THEN p ELSE ValueAt(o, at, key)
  BY <1>1, <1>6, <1>7 DEF ValueAt, Places
<1>10. QED
  BY <1>7, <1>8, <1>9

\* The look-up reads the mode and two places of the key.
LEMMA LookUp ==
    ASSUME NEW o, NEW key
    PROVE  /\ getMode(o) \in Modes
           /\ getMode(o) = IF ValueAt(o, "root", "defaultMode") \in Modes
                           THEN ValueAt(o, "root", "defaultMode") ELSE "window"
           /\ getOptionForCurrentMode(o, key) =
                 IF ValueAt(o, getMode(o), key) # Null THEN ValueAt(o, getMode(o), key)
                 ELSE ValueAt(o, "root", key)
<1>1. getMode(o) \in Modes /\ "root" \notin Modes
  BY DEF getMode, Modes
<1>2. QED
  BY <1>1 DEF getMode, ValueAt, getOptionForCurrentMode

\* After setPort every look-up but that of the port gives what it gave.
LEMMA PortLookUp ==
    ASSUME NEW o, IsOptions(o), NEW p, p # Null
    PROVE  /\ getMode(setPort(o, p)) = getMode(o)
           /\ getOptionForCurrentMode(setPort(o, p), "port") = p
           /\ \A key \in Keys \ {"port"} :
                 getOptionForCurrentMode(setPort(o, p), key) = getOptionForCurrentMode(o, key)
<1>1. PICK s : s = setPort(o, p)
  OBVIOUS
<1>2. /\ \A key \in Keys \ {"port"} : \A at \in Places : ValueAt(s, at, key) = ValueAt(o, at, key)
      /\ \A at \in Places : ValueAt(s, at, "port") = p
  BY <1>1, PortSet
<1>3. "defaultMode" \in Keys \ {"port"} /\ "root" \in Places /\ Modes \subseteq Places
  BY DEF Keys, Places
<1>4. getMode(s) = getMode(o) /\ getMode(s) \in Modes
  BY <1>2, <1>3, LookUp
<1>5. getOptionForCurrentMode(s, "port") = p
  BY <1>2, <1>3, <1>4, LookUp
<1>6. ASSUME NEW key \in Keys \ {"port"}
      PROVE  getOptionForCurrentMode(s, key) = getOptionForCurrentMode(o, key)
  BY <1>2, <1>3, <1>4, LookUp
<1>7. QED
  BY <1>1, <1>4, <1>5, <1>6

\* The permissions do not depend on the port.
LEMMA PortRegistered ==
    ASSUME NEW o, IsOptions(o), NEW p, p # Null
    PROVE  Registered(setPort(o, p)) = Registered(o)
<1>1. {"nativeAllowList", "nativeBlockList", "commandAllowList", "filesystemScopes"}
        \subseteq Keys \ {"port"}
  BY DEF Keys
<1>2. PICK s : s = setPort(o, p)
  OBVIOUS
<1>3. \A key \in Keys \ {"port"} :
         getOptionForCurrentMode(s, key) = getOptionForCurrentMode(o, key)
  BY <1>2, PortLookUp
<1>4. /\ getOptionForCurrentMode(s, "nativeAllowList") = getOptionForCurrentMode(o, "nativeAllowList")
      /\ getOptionForCurrentMode(s, "nativeBlockList") = getOptionForCurrentMode(o, "nativeBlockList")
      /\ getOptionForCurrentMode(s, "commandAllowList") = getOptionForCurrentMode(o, "commandAllowList")
      /\ getOptionForCurrentMode(s, "filesystemScopes") = getOptionForCurrentMode(o, "filesystemScopes")
  BY <1>1, <1>3
<1>5. QED
  BY <1>2, <1>4, Zenon DEF Registered
-----------------------------------------------------------------------------
(* The configuration. *)

\* The port that is bound is a port, and if it is the configured one the options
\* name it.
LEMMA PortIsThere == ActualPort # Null
<1>1. Ephemeral # Null
  BY NullAssumption DEF Ephemeral
<1>2. QED
  BY <1>1 DEF ActualPort

LEMMA ConfigInit == AppInit => ConfigInv
<1> SUFFICES ASSUME AppInit PROVE ConfigInv
  OBVIOUS
<1>1. options = Blank
  BY DEF AppInit, Init, Blank
<1>2. IsOptions(options)
  BY <1>1, BlankIsOptions
<1>3. QED
  BY <1>1, <1>2 DEF AppInit, Init, ConfigInv, Stages, ResModes, Ready, Served

\* settings::setGlobalArgs.
LEMMA ConfigArgs ==
    ASSUME ConfigInv, setGlobalArgs
    PROVE  ConfigInv'
<1>1. setup.args \in Seq(Range(setup.args))
  BY SetupsAssumption DEF ConfigInv
<1>2. Len(setup.args) \in Nat
  BY <1>1, LenProperties
<1>3. PICK X : X = Extensions \cup {DevTools}
  OBVIOUS
<1>4. resMode \in ResModes /\ loaded \in SUBSET X /\ DevTools \in X
  BY <1>3 DEF ConfigInv
<1>5. PICK rm2 \in ResModes, ld2 \in SUBSET X : \E ov :
          /\ ArgsRead(Reading(resMode, loaded, <<>>), setup.args) = Reading(rm2, ld2, ov)
          /\ SayTheSame(ov, setup.args, Len(setup.args))
  BY <1>2, <1>4, ArgsApplied
<1>6. PICK ov :
          /\ ArgsRead(Reading(resMode, loaded, <<>>), setup.args) = Reading(rm2, ld2, ov)
          /\ SayTheSame(ov, setup.args, Len(setup.args))
  BY <1>5
<1>7. overrides = <<>>
  BY DEF ConfigInv, setGlobalArgs
<1>8. PICK st : st = ArgsRead([resMode |-> resMode, loaded |-> loaded, overrides |-> overrides],
                              setup.args)
  OBVIOUS
<1>9. resMode' = st.resMode /\ loaded' = st.loaded /\ overrides' = st.overrides
  BY <1>8 DEF setGlobalArgs
<1>10. st = Reading(rm2, ld2, ov)
  BY <1>6, <1>7, <1>8 DEF Reading
<1>11. resMode' = rm2 /\ loaded' = ld2 /\ overrides' = ov
  BY <1>9, <1>10 DEF Reading
<1>12. /\ stage = "args" /\ stage' = "resources"
      /\ UNCHANGED <<setup, options, perm, listening, toldPorts>>
  BY DEF setGlobalArgs, clientVars
<1>13. QED
  BY <1>3, <1>6, <1>11, <1>12 DEF ConfigInv, Stages, Ready, Served, Over, Port

\* settings::init.
LEMMA ConfigSettings ==
    ASSUME ConfigInv, settingsInit
    PROVE  ConfigInv'
<1>1. /\ stage = "settings" /\ UNCHANGED <<setup, resMode, overrides, perm, listening, loaded, toldPorts>>
  BY DEF settingsInit, clientVars, extVars
<1>2. options = Blank /\ toldPorts = {} /\ listening = Null
  BY <1>1 DEF ConfigInv, Over, Served
<1>3. CASE stage' \in {"exited", "aborted"} /\ UNCHANGED options
  BY <1>1, <1>2, <1>3 DEF ConfigInv, Stages, Ready, Served, Over, Port
<1>4. CASE /\ setup.file # "broken" /\ stage' = "framework"
           /\ options' = ApplyOverrides(IF setup.file = "missing" THEN options ELSE setup.config,
                                        overrides)
  <2>1. PICK o : o = IF setup.file = "missing" THEN options ELSE setup.config
    OBVIOUS
  <2>2. IsOptions(o)
    BY <2>1, SetupsAssumption DEF ConfigInv
  <2>3. SayTheSame(overrides, setup.args, Len(setup.args))
    BY <1>1 DEF ConfigInv
  <2>4. Len(setup.args) \in Nat
    BY SetupsAssumption, LenProperties DEF ConfigInv
  <2>5. PICK args : args = setup.args
    OBVIOUS
  <2>6. options' = ApplyOverrides(o, overrides)
    BY <1>4, <2>1
  <2>7. /\ IsOptions(options')
        /\ \A key \in Keys : Unset(args, key) =>
              \A at \in Places : ValueAt(options', at, key) = ValueAt(o, at, key)
        /\ \A key \in CliKeys : \A i \in 1..Len(args) : \A at \in PlacesOf(key) :
              LastSetting(args, i, key) => ValueAt(options', at, key) = ArgValue(args[i])
    BY <2>2, <2>3, <2>4, <2>5, <2>6, OptionsRead
  <2>8. ASSUME NEW key \in Keys, NEW at \in Places
        PROVE  setup.file = "missing" => ValueAt(o, at, key) = Null
    <3>1. "root" \notin Modes
      BY DEF Modes
    <3>2. QED
      BY <1>2, <2>1, <3>1 DEF ValueAt, Blank, NoOptions, Places
  <2>9. FromFile'
    BY <1>1, <2>1, <2>5, <2>7, <2>8 DEF FromFile
  <2>10. FromArgs'
    BY <1>1, <2>5, <2>7 DEF FromArgs
  <2>11. QED
    BY <1>1, <1>2, <1>4, <2>7, <2>9, <2>10 DEF ConfigInv, Stages, Ready, Served, Over, Port
<1>5. QED
  BY <1>3, <1>4 DEF settingsInit

\* authbasic::init and permission::init.
LEMMA ConfigAuth ==
    ASSUME ConfigInv, authInit
    PROVE  ConfigInv'
<1>1. /\ stage = "framework" /\ stage' = "server" /\ perm' = Registered(options)
      /\ UNCHANGED <<setup, resMode, options, overrides, listening, loaded, toldPorts>>
  BY DEF authInit, clientVars, extVars
<1>2. FromFile' /\ FromArgs'
  BY <1>1 DEF ConfigInv, Ready, FromFile, FromArgs
<1>3. QED
  BY <1>1, <1>2 DEF ConfigInv, Stages, Ready, Served, Over, Port

\* The main thread starts the server: neuserver::init and settings::setPort.
LEMMA ConfigServer ==
    ASSUME ConfigInv, startServerAsync
    PROVE  ConfigInv'
<1>1. /\ stage = "server" /\ stage' \in {"exited", "extra"}
      /\ UNCHANGED <<setup, resMode, overrides, perm, loaded, toldPorts>>
  BY DEF startServerAsync, clientVars, extVars
<1>2. toldPorts = {} /\ listening = Null /\ perm = Registered(options) /\ FromFile /\ FromArgs
  BY <1>1 DEF ConfigInv, Served, Over, Ready
<1>3. CASE UNCHANGED <<listening, options>>
  <2>1. FromFile' /\ FromArgs'
    BY <1>1, <1>2, <1>3 DEF FromFile, FromArgs
  <2>2. QED
    BY <1>1, <1>2, <1>3, <2>1 DEF ConfigInv, Stages, Ready, Served, Over, Port
<1>4. CASE /\ stage' = "extra" /\ listening' = ActualPort
           /\ options' = IF Port # ActualPort THEN setPort(options, ActualPort) ELSE options
  <2>1. PICK p : p = ActualPort
    OBVIOUS
  <2>2. p # Null
    BY <2>1, PortIsThere
  <2>3. /\ IsOptions(options')
        /\ \A key \in Keys \ {"port"} : \A at \in Places :
              ValueAt(options', at, key) = ValueAt(options, at, key)
        /\ Registered(options') = Registered(options)
        /\ getOptionForCurrentMode(options', "port") = p
    <3>1. CASE Port # p
      <4>1. options' = setPort(options, p) /\ IsOptions(options)
        BY <1>4, <2>1, <3>1 DEF ConfigInv
      <4>2. QED
        BY <2>2, <4>1, PortSet, PortLookUp, PortRegistered
    <3>2. CASE Port = p
      BY <1>4, <2>1, <3>2 DEF Port, ConfigInv
    <3>3. QED
      BY <3>1, <3>2
  <2>4. CliKeys \subseteq Keys
    BY DEF Keys, CliKeys, cliMappingAliases
  <2>5. \A key : PlacesOf(key) \subseteq Places
    BY DEF PlacesOf, Places
  <2>6. FromFile'
    BY <1>1, <1>2, <2>3 DEF FromFile
  <2>7. FromArgs'
    BY <1>1, <1>2, <1>4, <2>1, <2>2, <2>3, <2>4, <2>5 DEF FromArgs
  <2>8. QED
    BY <1>1, <1>2, <1>4, <2>1, <2>3, <2>6, <2>7 DEF ConfigInv, Stages, Ready, Served, Over, Port
<1>5. QED
  BY <1>1, <1>3, <1>4 DEF startServerAsync

\* The steps after that leave the configuration as it is; they tell the port in
\* force, load extensions of the list and leave the program only without a port.
Onward ==
    /\ stage \in Served /\ stage' \in Served \cup {"aborted"}
    /\ stage' = "aborted" => Port = Null
    /\ toldPorts' \subseteq toldPorts \cup {Port}
    /\ loaded' \subseteq Extensions \cup {DevTools}
    /\ UNCHANGED <<setup, resMode, options, overrides, perm, listening>>

LEMMA ConfigOnward ==
    ASSUME ConfigInv, Onward
    PROVE  ConfigInv'
<1>1. FromFile' /\ FromArgs'
  BY DEF ConfigInv, Ready, Served, FromFile, FromArgs, Onward
<1>2. Port' = Port
  BY DEF Onward, Port
<1>3. stage' \in Served \/ Over'
  BY DEF Onward, Over
<1>4. listening' # Null => stage' \in Served /\ Port' = listening'
  BY <1>2 DEF ConfigInv, Onward
<1>5. toldPorts' \subseteq {Port'}
  BY <1>2 DEF ConfigInv, Onward
<1>6. QED
  BY <1>1, <1>3, <1>4, <1>5 DEF ConfigInv, Onward, Served, Stages

\* The first of the extensions that are still to be done.
LEMMA HeadTyped ==
    ASSUME TypesInv, todo # <<>>
    PROVE  /\ Head(todo).id \in Extensions \cup {DevTools, Null}
           /\ Head(todo).command \in BOOLEAN
           /\ Tail(todo) \in Seq([id : Extensions \cup {DevTools, Null}, command : BOOLEAN])
<1>1. PICK S : S = [id : Extensions \cup {DevTools, Null}, command : BOOLEAN]
  OBVIOUS
<1>2. todo \in Seq(S)
  BY <1>1 DEF TypesInv
<1>3. Head(todo) \in S /\ Tail(todo) \in Seq(S)
  BY <1>2
<1>4. QED
  BY <1>1, <1>3

LEMMA LateIsOnward ==
    ASSUME ConfigInv, TypesInv, LoadingInv, LateMain
    PROVE  Onward
<1> USE DEF Onward, Served, bootVars, clientVars, extVars
<1>1. loaded \subseteq Extensions \cup {DevTools}
  BY DEF ConfigInv
<1>2. CASE initExtra
  BY <1>1, <1>2 DEF initExtra
<1>3. CASE startExtension
  BY <1>1, <1>3 DEF startExtension
<1>4. CASE skipExtension
  BY <1>1, <1>4 DEF skipExtension
<1>5. CASE loadOne
  <2>1. Head(todo).id \in Extensions \cup {DevTools}
    BY <1>5, HeadTyped DEF loadOne, LoadingInv
  <2>2. QED
    BY <1>1, <1>5, <2>1 DEF loadOne
<1>6. CASE extensionsLoaded
  BY <1>1, <1>6 DEF extensionsLoaded
<1>7. CASE startApp
  BY <1>1, <1>7 DEF startApp
<1>8. CASE injectGlobals
  BY <1>1, <1>8 DEF injectGlobals, InjectBegins, InjectEnds
<1>9. CASE injectClientLibrary
  BY <1>1, <1>9 DEF injectClientLibrary, InjectBegins, InjectEnds
<1>10. CASE showWindow
  BY <1>1, <1>10 DEF showWindow
<1>11. QED
  BY <1>2, <1>3, <1>4, <1>5, <1>6, <1>7, <1>8, <1>9, <1>10 DEF LateMain

\* The steps of the server thread and of the pages; the main thread stands still.
Beside == (ServerThread \/ Clients) /\ UNCHANGED mountedPaths

LEMMA BesideLeaves ==
    ASSUME ConfigInv, Beside
    PROVE  /\ UNCHANGED <<setup, stage, bootVars, extVars, mountedPaths>>
           /\ toldPorts' \subseteq toldPorts \cup {Port}
           /\ toldPorts' # toldPorts => listening # Null
BY DEF Beside, ServerThread, Clients, serveGlobals, answerGlobals, handleValidate, Load,
       LibraryStarts, Answered, bootVars, extVars

LEMMA ConfigNext ==
    ASSUME ConfigInv, TypesInv, LoadingInv, [AppNext]_appVars
    PROVE  ConfigInv'
<1> SUFFICES ASSUME AppNext \/ UNCHANGED appVars PROVE ConfigInv'
  OBVIOUS
<1>1. CASE setGlobalArgs
  BY <1>1, ConfigArgs
<1>2. CASE resourcesInit
  <2>1. /\ stage = "resources" /\ stage' = "settings" /\ resMode' = FoundMode(resMode)
        /\ UNCHANGED <<setup, options, overrides, perm, listening, loaded, toldPorts>>
    BY <1>2 DEF resourcesInit, extVars, clientVars
  <2>2. resMode' \in ResModes
    BY <2>1 DEF FoundMode, ResModes
  <2>3. QED
    BY <2>1, <2>2 DEF ConfigInv, Stages, Ready, Served, Over, Port
<1>3. CASE settingsInit
  BY <1>3, ConfigSettings
<1>4. CASE authInit
  BY <1>4, ConfigAuth
<1>5. CASE startServerAsync
  BY <1>5, ConfigServer
<1>6. CASE LateMain
  BY <1>6, LateIsOnward, ConfigOnward
<1>7. CASE UNCHANGED <<setup, stage, resMode, options, overrides, perm, listening, loaded, toldPorts>>
  <2>1. FromFile' = FromFile /\ FromArgs' = FromArgs
    BY <1>7 DEF FromFile, FromArgs
  <2>2. QED
    BY <1>7, <2>1 DEF ConfigInv, Ready, Over, Port
<1>8. CASE Beside
  <2>1. CASE listening # Null
    <3>1. UNCHANGED <<setup, stage, resMode, options, overrides, perm, listening, loaded>>
      BY <1>8, BesideLeaves DEF bootVars, extVars
    <3>2. stage \in Served /\ loaded \subseteq Extensions \cup {DevTools}
      BY <2>1 DEF ConfigInv
    <3>3. Onward
      BY <1>8, <3>1, <3>2, BesideLeaves DEF Onward, Served
    <3>4. QED
      BY <3>3, ConfigOnward
  <2>2. CASE listening = Null
    BY <1>7, <1>8, <2>2, BesideLeaves DEF bootVars, extVars
  <2>3. QED
    BY <2>1, <2>2
<1>9. CASE \E c \in Pages \cup Extensions : handleMessage(c)
  BY <1>7, <1>9 DEF handleMessage, vars, bootVars, extVars, clientVars
<1>10. CASE UNCHANGED appVars
  BY <1>7, <1>10 DEF appVars, vars, bootVars, extVars, clientVars
<1>11. QED
  BY <1>1, <1>2, <1>3, <1>4, <1>5, <1>6, <1>8, <1>9, <1>10
     DEF AppNext, StartupNext, MainThread, LateMain, Beside

-----------------------------------------------------------------------------
(* The start of the program, before anybody can reach it. *)

EarlyStages == {"args", "resources", "settings", "framework", "server"}
EarlyMain == setGlobalArgs \/ resourcesInit \/ settingsInit \/ authInit \/ startServerAsync

LEMMA EarlyLeaves ==
    ASSUME EarlyMain
    PROVE  /\ stage \in EarlyStages
           /\ stage' \in EarlyStages \cup {"extra", "exited", "aborted"}
           /\ UNCHANGED <<setup, todo, extInit, clientVars>>
           /\ oneTime' = oneTime \/ oneTime' \in BOOLEAN
BY DEF EarlyMain, EarlyStages, setGlobalArgs, resourcesInit, settingsInit, authInit,
       startServerAsync, extVars

\* Every step is one of these.
LEMMA Steps ==
    ASSUME [AppNext]_appVars
    PROVE  \/ EarlyMain /\ UNCHANGED mountedPaths
           \/ LateMain /\ UNCHANGED mountedPaths
           \/ Beside
           \/ (\E c \in Pages \cup Extensions : handleMessage(c)) /\ UNCHANGED vars
           \/ UNCHANGED vars /\ UNCHANGED mountedPaths
BY DEF AppNext, StartupNext, MainThread, EarlyMain, LateMain, Beside, handleMessage, appVars

-----------------------------------------------------------------------------
(* Types. *)

LEMMA TypesInit == AppInit => TypesInv
<1> SUFFICES ASSUME AppInit PROVE TypesInv
  OBVIOUS
<1>1. mountedPaths = << >> /\ Range(mountedPaths) = {}
  BY DEF AppInit, Range
<1>2. pages \in [Pages -> PageType]
  BY DEF AppInit, Init, NoPage, PageType
<1>3. {oneTime, tokenSent, extInit, lost} \subseteq BOOLEAN
  BY DEF AppInit, Init
<1>4. ext \in [Extensions -> {"none", "started", "refused", "connected"}]
  BY DEF AppInit, Init
<1>5. todo = <<>> /\ scripts = <<>> /\ serving = None /\ handed = {}
  BY DEF AppInit, Init
<1>6. QED
  BY <1>1, <1>2, <1>3, <1>4, <1>5, EmptySeq DEF TypesInv

\* The list of extensions comes from the file, where it is a list of such.
LEMMA ListingTyped ==
    ASSUME ConfigInv, Ready, Listing # Null
    PROVE  Listing \in Seq([id : Extensions \cup {DevTools, Null}, command : BOOLEAN])
<1>1. PICK S : S = Seq([id : Extensions \cup {DevTools, Null}, command : BOOLEAN])
  OBVIOUS
<1>2. "extensions" \in FileKeys /\ "root" \in Places /\ getMode(options) \in Places
  BY LookUp DEF FileKeys, Places
<1>3. ASSUME NEW at \in Places
      PROVE  \/ ValueAt(options, at, "extensions") = Null
             \/ ValueAt(options, at, "extensions") \in S
  <2>1. ValueAt(options, at, "extensions") =
          IF setup.file = "missing" THEN Null ELSE ValueAt(setup.config, at, "extensions")
    BY <1>2, FileKeysUnset DEF ConfigInv, FromFile
  <2>2. PICK o : o = IF at = "root" THEN setup.config.root ELSE setup.config.modes[at]
    OBVIOUS
  <2>3. /\ ValueAt(setup.config, at, "extensions") = o["extensions"]
        /\ o \in {setup.config.root} \cup {setup.config.modes[m] : m \in Modes}
    BY <2>2 DEF ValueAt, Places
  <2>4. o["extensions"] # Null => o["extensions"] \in S
    BY <1>1, <2>3, SetupsAssumption DEF ConfigInv
  <2>5. QED
    BY <2>1, <2>3, <2>4
<1>4. QED
  BY <1>1, <1>2, <1>3, LookUp DEF Listing

WithMount(mounts, at, target) ==
    [m \in DOMAIN mounts \cup {at} |-> IF m = at THEN target ELSE mounts[m]]
WithoutMount(mounts, at) == [m \in DOMAIN mounts \ {at} |-> mounts[m]]

Answers(r, o, p, mounts, call) == r = executeNativeMethod(o, p, mounts, call)

\* A native call changes the mounts only to mount a directory or to unmount.
LEMMA Mounted ==
    ASSUME NEW o, NEW p, NEW mounts, NEW call,
           NEW r, Answers(r, o, p, mounts, call), r.mounts # mounts
    PROVE  /\ call.token /\ hasAPIAccess(o) /\ hasMethodAccess(p, call.method)
           /\ \/ /\ call.method = <<"server", "mount">>
                 /\ call.target \in DOMAIN TargetFiles
                 /\ r.mounts = WithMount(mounts, MountPoint(call.path), call.target)
              \/ /\ call.method = <<"server", "unmount">>
                 /\ MountPoint(call.path) \in DOMAIN mounts
                 /\ r.mounts = WithoutMount(mounts, MountPoint(call.path))
BY DEF Answers, executeNativeMethod, mountPath, unmountPath, WithMount, WithoutMount

LEMMA TypesLate ==
    ASSUME ConfigInv, TypesInv, LoadingInv, LateMain, UNCHANGED mountedPaths
    PROVE  TypesInv'
<1>1. PICK S, T : S = [id : Extensions \cup {DevTools, Null}, command : BOOLEAN]
                  /\ T = {"empty", "token"}
  OBVIOUS
<1>2. todo \in Seq(S) /\ scripts \in Seq(T)
  BY <1>1 DEF TypesInv
<1>3. UNCHANGED <<oneTime, serving, pages, lost>>
  BY DEF LateMain, initExtra, startExtension, skipExtension, loadOne, extensionsLoaded, startApp,
         injectGlobals, injectClientLibrary, InjectBegins, InjectEnds, showWindow, clientVars, bootVars
<1>4. todo' \in Seq(S)
  <2>1. CASE UNCHANGED todo
    BY <1>2, <2>1
  <2>2. CASE todo' = Listing /\ initExtra /\ Listing # Null
    <3>1. Ready
      BY <2>2 DEF initExtra, Ready
    <3>2. QED
      BY <1>1, <2>2, <3>1, ListingTyped
  <2>3. CASE todo # <<>> /\ todo' = Tail(todo)
    BY <1>1, <2>3, HeadTyped
  <2>4. QED
    BY <2>1, <2>2, <2>3
       DEF LateMain, initExtra, startExtension, skipExtension, loadOne, extensionsLoaded, startApp,
           injectGlobals, injectClientLibrary, InjectBegins, InjectEnds, showWindow, extVars,
           Listing, LoadingInv
<1>5. scripts' \in Seq(T)
  <2>1. UNCHANGED scripts \/ \E x \in T : scripts' = Append(scripts, x)
    BY <1>1
       DEF LateMain, initExtra, startExtension, skipExtension, loadOne, extensionsLoaded, startApp,
           injectGlobals, injectClientLibrary, InjectBegins, InjectEnds, showWindow, clientVars
  <2>2. QED
    BY <1>2, <2>1
<1>6. tokenSent' \in BOOLEAN /\ extInit' \in BOOLEAN
  <2>1. (UNCHANGED tokenSent \/ tokenSent' = TRUE) /\ (UNCHANGED extInit \/ extInit' = TRUE)
    BY DEF LateMain, initExtra, startExtension, skipExtension, loadOne, extensionsLoaded, startApp,
           injectGlobals, injectClientLibrary, InjectBegins, InjectEnds, showWindow, clientVars,
           extVars, GiveToken
  <2>2. QED
    BY <2>1 DEF TypesInv
<1>7. handed' \subseteq Pages \cup Marks
  <2>1. UNCHANGED handed \/ \E m \in Marks : handed' = handed \cup {m}
    BY DEF LateMain, initExtra, startExtension, skipExtension, loadOne, extensionsLoaded, startApp,
           injectGlobals, injectClientLibrary, InjectBegins, InjectEnds, showWindow, clientVars,
           GiveToken, Marks
  <2>2. QED
    BY <2>1 DEF TypesInv
<1>8. ext' \in [Extensions -> {"none", "started", "refused", "connected"}]
  <2>1. UNCHANGED ext \/ \E e : ext' = [ext EXCEPT ![e] = "started"]
    BY DEF LateMain, initExtra, startExtension, skipExtension, loadOne, extensionsLoaded, startApp,
           injectGlobals, injectClientLibrary, InjectBegins, InjectEnds, showWindow, clientVars
  <2>2. QED
    BY <2>1 DEF TypesInv
<1>9. QED
  BY <1>1, <1>3, <1>4, <1>5, <1>6, <1>7, <1>8 DEF TypesInv

-----------------------------------------------------------------------------
(* What the steps of pages and of the server do to a page. *)

Turned(c, doc, nlToken, session, extOn) ==
    /\ pages' \in [Pages -> PageType]
    /\ \A d \in Pages \ {c} : pages'[d] = pages[d]
    /\ pages'[c].doc = doc /\ pages'[c].nlToken = nlToken
    /\ pages'[c].session = session /\ pages'[c].extOn = extOn

LEMMA PageTyped ==
    ASSUME TypesInv, NEW c \in Pages
    PROVE  /\ pages[c].doc \in {"none", "loading", "fetching", "fetched", "ready"}
           /\ pages[c].nlToken \in {"undefined", "empty", "token"}
           /\ pages[c].session \in BOOLEAN /\ pages[c].extOn \in BOOLEAN
BY DEF TypesInv, PageType

LEMMA PageTurns ==
    ASSUME TypesInv, NEW c \in Pages, NEW p \in PageType, pages' = [pages EXCEPT ![c] = p]
    PROVE  Turned(c, p.doc, p.nlToken, p.session, p.extOn)
<1>1. pages'[c] = p
  BY DEF TypesInv
<1>2. QED
  BY <1>1 DEF TypesInv, Turned

\* The scripts of the window leave a token, an empty one or none.
LEMMA ScriptTokens ==
    ASSUME TypesInv, NEW c
    PROVE  /\ ScriptToken(c) \in {"undefined", "empty", "token"}
           /\ ScriptToken(c) # "undefined" <=>
                 c = page /\ getMode(options) = "window" /\ scripts # <<>>
           /\ ScriptToken(c) = "empty" =>
                 \E i \in DOMAIN scripts : scripts[i] = "empty"
<1>1. CASE c = page /\ getMode(options) = "window" /\ scripts # <<>>
  <2>1. PICK T : T = {"empty", "token"}
    OBVIOUS
  <2>2. scripts \in Seq(T)
    BY <2>1 DEF TypesInv
  <2>3. Len(scripts) \in DOMAIN scripts /\ scripts[Len(scripts)] \in T
    BY <1>1, <2>2
  <2>4. ScriptToken(c) = scripts[Len(scripts)]
    BY <1>1 DEF ScriptToken, Last
  <2>5. QED
    BY <1>1, <2>1, <2>3, <2>4
<1>2. CASE ~(c = page /\ getMode(options) = "window" /\ scripts # <<>>)
  BY <1>2 DEF ScriptToken
<1>3. QED
  BY <1>1, <1>2

LEMMA LoadTurns ==
    ASSUME TypesInv, NEW c \in Pages, Load(c)
    PROVE  Turned(c, "loading", ScriptToken(c), pages[c].session,
                  ScriptToken(c) # "undefined" /\ extInit)
<1>1. PICK n, x : n = ScriptToken(c) /\ x = (ScriptToken(c) # "undefined" /\ extInit)
  OBVIOUS
<1>2. n \in {"undefined", "empty", "token"} /\ x \in BOOLEAN
  BY <1>1, ScriptTokens
<1>3. PICK q : q = pages[c]
  OBVIOUS
<1>4. q \in PageType
  BY <1>3 DEF TypesInv
<1>5. PICK p : p = [q EXCEPT !.doc = "loading", !.nlToken = n, !.extOn = x]
  OBVIOUS
<1>6. /\ p \in PageType /\ p.doc = "loading" /\ p.nlToken = n /\ p.session = q.session
      /\ p.extOn = x
  BY <1>2, <1>4, <1>5 DEF PageType
<1>7. pages' = [pages EXCEPT ![c] = p]
  BY <1>1, <1>3, <1>5 DEF Load
<1>8. Turned(c, p.doc, p.nlToken, p.session, p.extOn)
  BY <1>6, <1>7, PageTurns
<1>9. QED
  BY <1>1, <1>3, <1>6, <1>8

LEMMA LibraryTurns ==
    ASSUME TypesInv, NEW c \in Pages, LibraryStarts(c)
    PROVE  Turned(c, "ready", pages[c].nlToken, pages[c].session \/ pages[c].nlToken = "token",
                  pages[c].extOn)
<1>1. PICK q : q = pages[c]
  OBVIOUS
<1>2. PICK y : y = (pages[c].session \/ pages[c].nlToken = "token")
  OBVIOUS
<1>3. q \in PageType /\ y \in BOOLEAN
  BY <1>1, <1>2 DEF TypesInv
<1>4. PICK p : p = [q EXCEPT !.doc = "ready", !.session = y]
  OBVIOUS
<1>5. /\ p \in PageType /\ p.doc = "ready" /\ p.nlToken = q.nlToken /\ p.session = y
      /\ p.extOn = q.extOn
  BY <1>3, <1>4 DEF PageType
<1>6. pages' = [pages EXCEPT ![c] = p]
  <2>1. pages' = [pages EXCEPT ![c] = [pages[c] EXCEPT !.doc = "ready",
                      !.session = (pages[c].session \/ pages[c].nlToken = "token")]]
    BY DEF LibraryStarts
  <2>2. QED
    BY <1>1, <1>2, <1>4, <2>1, Zenon
<1>7. Turned(c, p.doc, p.nlToken, p.session, p.extOn)
  BY <1>5, <1>6, PageTurns
<1>8. QED
  BY <1>1, <1>2, <1>5, <1>7

LEMMA ServeTurns ==
    ASSUME TypesInv, NEW c \in Pages, serveGlobals(c)
    PROVE  Turned(c, "fetching", pages[c].nlToken, pages[c].session, pages[c].extOn)
<1>1. PICK q : q = pages[c]
  OBVIOUS
<1>2. q \in PageType
  BY <1>1 DEF TypesInv
<1>3. PICK p : p = [q EXCEPT !.doc = "fetching"]
  OBVIOUS
<1>4. /\ p \in PageType /\ p.doc = "fetching" /\ p.nlToken = q.nlToken
      /\ p.session = q.session /\ p.extOn = q.extOn
  BY <1>2, <1>3 DEF PageType
<1>5. pages' = [pages EXCEPT ![c] = p]
  BY <1>1, <1>3 DEF serveGlobals
<1>6. Turned(c, p.doc, p.nlToken, p.session, p.extOn)
  BY <1>4, <1>5, PageTurns
<1>7. QED
  BY <1>1, <1>4, <1>6

LEMMA AnswerTurns ==
    ASSUME TypesInv, NEW c \in Pages, NEW token \in {"empty", "token"}, Answered(c, token)
    PROVE  IF pages[c].doc = "fetching"
           THEN Turned(c, "fetched", token, pages[c].session, extInit)
           ELSE UNCHANGED pages
<1>1. PICK q : q = pages[c]
  OBVIOUS
<1>2. q \in PageType /\ extInit \in BOOLEAN
  BY <1>1 DEF TypesInv
<1>3. PICK p : p = [q EXCEPT !.doc = "fetched", !.nlToken = token, !.extOn = extInit]
  OBVIOUS
<1>4. /\ p \in PageType /\ p.doc = "fetched" /\ p.nlToken = token
      /\ p.session = q.session /\ p.extOn = extInit
  BY <1>2, <1>3 DEF PageType
<1>5. CASE pages[c].doc = "fetching"
  <2>1. pages' = [pages EXCEPT ![c] = p]
    BY <1>1, <1>3, <1>5 DEF Answered
  <2>2. Turned(c, p.doc, p.nlToken, p.session, p.extOn)
    BY <1>4, <2>1, PageTurns
  <2>3. QED
    BY <1>1, <1>4, <1>5, <2>2
<1>6. QED
  BY <1>5 DEF Answered

LEMMA TypesBeside ==
    ASSUME TypesInv, Beside
    PROVE  TypesInv'
<1>1. UNCHANGED <<oneTime, extInit, todo, scripts, mountedPaths>>
  BY DEF Beside, ServerThread, Clients, serveGlobals, answerGlobals, handleValidate, Load,
         LibraryStarts, bootVars, extVars
<1>2. CASE \E c \in Pages : Load(c)
  <2>1. PICK c \in Pages : Load(c)
    BY <1>2
  <2>2. /\ lost' \in BOOLEAN /\ UNCHANGED <<tokenSent, serving, ext, handed>>
    BY <2>1 DEF Load
  <2>3. QED
    BY <1>1, <2>1, <2>2, LoadTurns DEF TypesInv, Turned
<1>3. CASE \E c \in Pages : LibraryStarts(c)
  <2>1. PICK c \in Pages : LibraryStarts(c)
    BY <1>3
  <2>2. UNCHANGED <<lost, tokenSent, serving, ext, handed>>
    BY <2>1 DEF LibraryStarts
  <2>3. QED
    BY <1>1, <2>1, <2>2, LibraryTurns DEF TypesInv, Turned
<1>4. CASE \E c \in Pages : serveGlobals(c)
  <2>1. PICK c \in Pages : serveGlobals(c)
    BY <1>4
  <2>2. UNCHANGED <<lost, tokenSent, ext, handed>>
    BY <2>1 DEF serveGlobals
  <2>3. serving' \in [page : Pages, withheld : BOOLEAN]
    BY <2>1 DEF serveGlobals, Withheld
  <2>4. QED
    BY <1>1, <2>1, <2>2, <2>3, ServeTurns DEF TypesInv, Turned
<1>5. CASE answerGlobals
  <2>1. serving # None /\ serving \in [page : Pages, withheld : BOOLEAN] /\ serving.page \in Pages
    BY <1>5 DEF answerGlobals, TypesInv
  <2>2. serving' = None /\ UNCHANGED ext
    BY <1>5 DEF answerGlobals
  <2>3. \E token \in {"empty", "token"} : Answered(serving.page, token)
    BY <1>5 DEF answerGlobals
  <2>4. pages' \in [Pages -> PageType]
    BY <2>1, <2>3, AnswerTurns DEF TypesInv, Turned
  <2>5. lost' \in BOOLEAN
    BY <2>3 DEF Answered
  <2>6. tokenSent' \in BOOLEAN /\ handed' \subseteq Pages \cup Marks
    BY <1>5, <2>1 DEF answerGlobals, GiveToken, TypesInv
  <2>7. QED
    BY <1>1, <2>2, <2>4, <2>5, <2>6 DEF TypesInv
<1>6. CASE \E e \in Extensions : handleValidate(e)
  <2>1. UNCHANGED <<lost, tokenSent, serving, pages, handed>>
    BY <1>6 DEF handleValidate
  <2>2. ext' \in [Extensions -> {"none", "started", "refused", "connected"}]
    BY <1>6 DEF handleValidate, TypesInv
  <2>3. QED
    BY <1>1, <2>1, <2>2 DEF TypesInv
<1>7. QED
  BY <1>2, <1>3, <1>4, <1>5, <1>6 DEF Beside, ServerThread, Clients

LEMMA TypesNext ==
    ASSUME ConfigInv, TypesInv, LoadingInv, [AppNext]_appVars
    PROVE  TypesInv'
<1>1. CASE EarlyMain /\ UNCHANGED mountedPaths
  BY <1>1, EarlyLeaves DEF TypesInv, clientVars
<1>2. CASE LateMain /\ UNCHANGED mountedPaths
  BY <1>2, TypesLate
<1>3. CASE Beside
  BY <1>3, TypesBeside
<1>4. CASE (\E c \in Pages \cup Extensions : handleMessage(c)) /\ UNCHANGED vars
  <2>1. UNCHANGED <<oneTime, tokenSent, extInit, lost, todo, scripts, serving, pages, ext, handed>>
    BY <1>4 DEF vars, bootVars, extVars, clientVars
  <2>2. PICK call, r : Answers(r, options, perm, mountedPaths, call) /\ mountedPaths' = r.mounts
    BY <1>4 DEF handleMessage, Answers
  <2>3. Range(mountedPaths') \subseteq DOMAIN TargetFiles
    <3>1. CASE r.mounts = mountedPaths
      BY <2>2, <3>1 DEF TypesInv
    <3>2. CASE r.mounts # mountedPaths
      <4>1. \/ /\ call.target \in DOMAIN TargetFiles
               /\ r.mounts = WithMount(mountedPaths, MountPoint(call.path), call.target)
            \/ r.mounts = WithoutMount(mountedPaths, MountPoint(call.path))
        <5>1. Answers(r, options, perm, mountedPaths, call)
          BY <2>2
        <5>2. QED
          BY <3>2, <5>1, Mounted
      <4>2. QED
        BY <2>2, <4>1 DEF TypesInv, Range, WithMount, WithoutMount
    <3>3. QED
      BY <3>1, <3>2
  <2>4. QED
    BY <2>1, <2>3 DEF TypesInv
<1>5. CASE UNCHANGED vars /\ UNCHANGED mountedPaths
  BY <1>5 DEF TypesInv, vars, bootVars, extVars, clientVars
<1>6. QED
  BY <1>1, <1>2, <1>3, <1>4, <1>5, Steps

-----------------------------------------------------------------------------
(* The extensions. *)

LEMMA LoadingInit == AppInit => LoadingInv
<1> SUFFICES ASSUME AppInit PROVE LoadingInv
  OBVIOUS
<1>1. extInit = FALSE /\ stage = "args"
  BY DEF AppInit, Init
<1>2. QED
  BY <1>1 DEF LoadingInv, Begun

LEMMA LoadingNext ==
    ASSUME ConfigInv, TypesInv, LoadingInv, [AppNext]_appVars
    PROVE  LoadingInv'
<1> DEFINE Kept == UNCHANGED <<stage, options, todo, loaded, extInit>>
<1>1. CASE EarlyMain
  <2>1. ~extInit
    BY <1>1, EarlyLeaves DEF LoadingInv, EarlyStages, Begun
  <2>2. ~extInit' /\ stage' \notin Begun \cup {"extensions", "load"}
    BY <1>1, <2>1, EarlyLeaves DEF EarlyStages, Begun
  <2>3. QED
    BY <2>2 DEF LoadingInv
<1>2. ASSUME Kept PROVE LoadingInv'
  BY <1>2 DEF LoadingInv, Listing, Configured
<1>3. ASSUME UNCHANGED <<options, loaded, extInit>>, stage \in Begun, stage' \in Begun \cup {"aborted"}
      PROVE  LoadingInv'
  BY <1>3 DEF LoadingInv, Listing, Configured, Begun
<1>4. CASE LateMain
  <2>0. options' = options
    BY <1>4, LateIsOnward DEF Onward
  <2>1. Configured' = Configured /\ Listing' = Listing
    BY <2>0 DEF Configured, Listing
  <2>2. CASE initExtra
    <3>1. stage = "extra" /\ UNCHANGED <<loaded, extInit>> /\ ~extInit
      BY <2>2 DEF initExtra, LoadingInv, Begun
    <3>2. \/ stage' = "aborted"
          \/ stage' = "extensions" /\ Configured /\ todo' = Listing
          \/ stage' = "app" /\ ~Configured
      BY <2>2 DEF initExtra, Configured, Listing
    <3>3. QED
      BY <2>1, <3>1, <3>2 DEF LoadingInv, Begun
  <2>3. CASE startExtension
    <3>1. /\ stage = "extensions" /\ stage' \in {"aborted", "load"} /\ todo # <<>>
          /\ Head(todo).id # Null /\ UNCHANGED <<todo, loaded, extInit>>
      BY <2>3 DEF startExtension, extVars
    <3>2. QED
      BY <2>1, <3>1 DEF LoadingInv, Begun
  <2>4. CASE skipExtension \/ loadOne
    <3>1. PICK S : S = [id : Extensions \cup {DevTools, Null}, command : BOOLEAN]
      OBVIOUS
    <3>2. todo \in Seq(S) /\ todo # <<>>
      BY <2>4, <3>1 DEF TypesInv, skipExtension, loadOne, LoadingInv
    <3>3. /\ stage \in {"extensions", "load"} /\ stage' = "extensions" /\ todo' = Tail(todo)
          /\ UNCHANGED extInit /\ loaded \subseteq loaded'
          /\ Head(todo).id \in loaded' \cup {Null}
      BY <2>4 DEF skipExtension, loadOne
    <3>4. ASSUME NEW j \in DOMAIN todo
          PROVE  todo[j] = Head(todo) \/ \E i \in DOMAIN todo' : todo'[i] = todo[j]
      <4>1. CASE j = 1
        BY <3>2, <4>1
      <4>2. CASE j # 1
        <5>1. j - 1 \in DOMAIN Tail(todo) /\ Tail(todo)[j - 1] = todo[j]
          BY <3>2, <4>2
        <5>2. QED
          BY <3>3, <5>1
      <4>3. QED
        BY <4>1, <4>2
    <3>5. ~extInit
      BY <3>3 DEF LoadingInv, Begun
    <3>6. ASSUME NEW i \in DOMAIN Listing
          PROVE  \/ Listing[i].id \in loaded' \cup {Null}
                 \/ \E j \in DOMAIN todo' : todo'[j] = Listing[i]
      <4>1. CASE Listing[i].id \in loaded \cup {Null}
        BY <3>3, <4>1
      <4>2. CASE \E j \in DOMAIN todo : todo[j] = Listing[i]
        <5>1. PICK j \in DOMAIN todo : todo[j] = Listing[i]
          BY <4>2
        <5>2. QED
          BY <3>3, <3>4, <5>1
      <4>3. QED
        BY <3>3, <4>1, <4>2 DEF LoadingInv
    <3>7. QED
      BY <2>1, <3>3, <3>5, <3>6 DEF LoadingInv, Begun
  <2>5. CASE extensionsLoaded
    <3>1. /\ stage = "extensions" /\ stage' = "app" /\ todo = <<>> /\ extInit'
          /\ UNCHANGED <<todo, loaded>>
      BY <2>5 DEF extensionsLoaded
    <3>2. DOMAIN todo = {}
      BY <3>1
    <3>3. QED
      BY <2>1, <3>1, <3>2 DEF LoadingInv, Begun
  <2>6. CASE startApp \/ injectGlobals \/ injectClientLibrary \/ showWindow
    <3>1. UNCHANGED <<loaded, extInit>> /\ stage \in Begun /\ stage' \in Begun \cup {"aborted"}
      BY <2>6 DEF startApp, injectGlobals, injectClientLibrary, InjectBegins, InjectEnds,
                  showWindow, extVars, Begun
    <3>2. QED
      BY <1>3, <2>0, <3>1
  <2>7. QED
    BY <1>4, <2>2, <2>3, <2>4, <2>5, <2>6 DEF LateMain
<1>5. CASE Beside
  BY <1>2, <1>5, BesideLeaves DEF bootVars, extVars
<1>6. CASE UNCHANGED vars
  BY <1>2, <1>6 DEF vars, bootVars, extVars
<1>7. QED
  BY <1>1, <1>4, <1>5, <1>6, Steps

-----------------------------------------------------------------------------
(* The scripts of the window. *)

LEMMA ScriptsInit == AppInit => ScriptsInv
<1> SUFFICES ASSUME AppInit PROVE ScriptsInv
  OBVIOUS
<1>1. scripts = <<>> /\ stage = "args"
  BY DEF AppInit, Init
<1>2. QED
  BY <1>1 DEF ScriptsInv

LEMMA Appended ==
    ASSUME TypesInv, NEW x \in {"empty", "token"}, scripts' = Append(scripts, x)
    PROVE  /\ Len(scripts) \in Nat /\ Len(scripts') = Len(scripts) + 1 /\ scripts' # <<>>
           /\ DOMAIN scripts = 1..Len(scripts) /\ DOMAIN scripts' = 1..Len(scripts')
           /\ \A i \in 1..Len(scripts) : scripts'[i] = scripts[i]
           /\ scripts'[Len(scripts) + 1] = x
<1>1. PICK T : T = {"empty", "token"}
  OBVIOUS
<1>2. scripts \in Seq(T) /\ x \in T
  BY <1>1 DEF TypesInv
<1>3. QED
  BY <1>2, AppendProperties, LenProperties

LEMMA ScriptsNext ==
    ASSUME ConfigInv, TypesInv, LoadingInv, ScriptsInv, [AppNext]_appVars
    PROVE  ScriptsInv'
<1>1. CASE EarlyMain
  BY <1>1, EarlyLeaves DEF ScriptsInv, EarlyStages, clientVars
<1>2. ASSUME UNCHANGED <<stage, options, scripts>> PROVE ScriptsInv'
  BY <1>2 DEF ScriptsInv, One, Injects
<1>3. CASE LateMain
  <2>1. options' = options
    BY <1>3, LateIsOnward DEF Onward
  <2>2. \A key : Injects(key)' = Injects(key) /\ One(key)' = One(key)
    BY <2>1 DEF Injects, One
  <2>3. \A key : One(key) = IF Injects(key) THEN 1 ELSE 0
    BY DEF One
  <2>4. CASE initExtra \/ startExtension \/ skipExtension \/ loadOne \/ extensionsLoaded
    <3>1. /\ UNCHANGED scripts /\ stage \in {"extra", "extensions", "load"}
          /\ stage' \in {"aborted", "extensions", "load", "app"}
      BY <2>4 DEF initExtra, startExtension, skipExtension, loadOne, extensionsLoaded, clientVars
    <3>2. QED
      BY <3>1 DEF ScriptsInv
  <2>5. CASE startApp
    <3>1. /\ UNCHANGED scripts /\ stage = "app" /\ scripts = <<>>
          /\ stage' = IF getMode(options) = "window" THEN "globals" ELSE "running"
      BY <2>5 DEF startApp, clientVars, ScriptsInv
    <3>2. Len(scripts) = 0
      BY <3>1
    <3>3. QED
      BY <2>1, <3>1, <3>2 DEF ScriptsInv
  <2>6. CASE injectGlobals
    <3>1. \/ stage = "globals" /\ stage' = "library" /\ ~Injects("injectGlobals") /\ UNCHANGED scripts
          \/ stage = "globals" /\ stage' = "aborted" /\ UNCHANGED scripts
          \/ stage = "globals" /\ stage' = "globalsSet" /\ Injects("injectGlobals") /\ UNCHANGED scripts
          \/ stage \in {"globals", "globalsSet"} /\ stage' = "library" /\ Injects("injectGlobals")
             /\ \E x \in {"empty", "token"} : scripts' = Append(scripts, x)
      BY <2>6 DEF injectGlobals, InjectBegins, InjectEnds, ScriptsInv
    <3>2. scripts = <<>> /\ Len(scripts) = 0 /\ getMode(options) = "window"
      BY <3>1 DEF ScriptsInv
    <3>3. CASE UNCHANGED scripts
      BY <2>1, <2>2, <2>3, <3>1, <3>2, <3>3 DEF ScriptsInv
    <3>4. CASE /\ stage' = "library" /\ Injects("injectGlobals")
               /\ \E x \in {"empty", "token"} : scripts' = Append(scripts, x)
      <4>1. Len(scripts') = 1
        BY <3>2, <3>4, Appended
      <4>2. QED
        BY <2>1, <2>2, <2>3, <3>2, <3>4, <4>1 DEF ScriptsInv
    <3>5. QED
      BY <3>1, <3>3, <3>4
  <2>7. CASE injectClientLibrary
    <3>1. \/ stage = "library" /\ stage' = "navigate" /\ ~Injects("injectClientLibrary") /\ UNCHANGED scripts
          \/ stage = "library" /\ stage' = "aborted" /\ UNCHANGED scripts
          \/ stage = "library" /\ stage' = "librarySet" /\ Injects("injectClientLibrary") /\ UNCHANGED scripts
          \/ stage \in {"library", "librarySet"} /\ stage' = "navigate" /\ Injects("injectClientLibrary")
             /\ \E x \in {"empty", "token"} : scripts' = Append(scripts, x)
      BY <2>7 DEF injectClientLibrary, InjectBegins, InjectEnds, ScriptsInv
    <3>2. Len(scripts) = One("injectGlobals") /\ getMode(options) = "window"
      BY <3>1 DEF ScriptsInv
    <3>3. CASE UNCHANGED scripts
      BY <2>1, <2>2, <2>3, <3>1, <3>2, <3>3 DEF ScriptsInv
    <3>4. CASE /\ stage' = "navigate" /\ Injects("injectClientLibrary")
               /\ \E x \in {"empty", "token"} : scripts' = Append(scripts, x)
      <4>1. Len(scripts') = Len(scripts) + 1
        BY <3>4, Appended
      <4>2. QED
        BY <2>1, <2>2, <2>3, <3>2, <3>4, <4>1 DEF ScriptsInv
    <3>5. QED
      BY <3>1, <3>3, <3>4
  <2>8. CASE showWindow
    <3>1. stage = "navigate" /\ stage' = "running" /\ UNCHANGED scripts
      BY <2>8 DEF showWindow, clientVars
    <3>2. QED
      BY <2>1, <2>2, <3>1 DEF ScriptsInv
  <2>9. QED
    BY <1>3, <2>4, <2>5, <2>6, <2>7, <2>8 DEF LateMain
<1>4. CASE Beside
  <2>1. UNCHANGED scripts
    BY <1>4 DEF Beside, ServerThread, Clients, serveGlobals, answerGlobals, handleValidate, Load,
         LibraryStarts
  <2>2. QED
    BY <1>2, <1>4, <2>1, BesideLeaves DEF bootVars
<1>5. CASE UNCHANGED vars
  BY <1>2, <1>5 DEF vars, bootVars, clientVars
<1>6. QED
  BY <1>1, <1>3, <1>4, <1>5, Steps

-----------------------------------------------------------------------------
(* The token. *)

LEMMA TokenInit == AppInit => TokenInv
<1> SUFFICES ASSUME AppInit PROVE TokenInv
  OBVIOUS
<1>1. scripts = <<>> /\ DOMAIN scripts = {} /\ stage = "args" /\ serving = None /\ handed = {} /\ ~tokenSent
  BY DEF AppInit, Init
<1>2. QED
  BY <1>1 DEF TokenInv, Marks

LEMMA PagesAreNoMarks == Pages \cap Marks = {}
BY PagesAssumption DEF Marks

\* Steps that give the token to nobody.
LEMMA TokenStays ==
    ASSUME TokenInv, UNCHANGED <<setup, oneTime, tokenSent, handed, scripts>>,
           serving' = None \/ serving' = serving,
           listening' = listening,
           handed # {} => stage' \in Served \cup {"aborted"},
           stage' \in Marks => stage \in Marks
    PROVE  TokenInv'
BY DEF TokenInv

\* getToken on the main thread.
LEMMA TokenInjected ==
    ASSUME ConfigInv, TypesInv, ScriptsInv, TokenInv,
           injectGlobals \/ injectClientLibrary
    PROVE  TokenInv'
<1>1. /\ UNCHANGED <<setup, oneTime, listening, serving>>
      /\ stage' \in Served \cup {"aborted"}
  BY DEF injectGlobals, injectClientLibrary, InjectBegins, InjectEnds, bootVars, Served
<1>2. CASE UNCHANGED <<scripts, tokenSent, handed>> /\ stage' \notin Marks
  BY <1>1, <1>2, TokenStays
<1>3. CASE /\ scripts' = Append(scripts, "empty") /\ Withheld
           /\ UNCHANGED <<tokenSent, handed>> /\ stage' \notin Marks
  <2>1. tokenSent /\ oneTime
    BY <1>3 DEF Withheld
  <2>2. /\ Len(scripts) \in Nat /\ Len(scripts') = Len(scripts) + 1 /\ scripts' # <<>>
        /\ DOMAIN scripts = 1..Len(scripts) /\ DOMAIN scripts' = 1..Len(scripts')
        /\ \A i \in 1..Len(scripts) : scripts'[i] = scripts[i]
    BY <1>3, Appended
  <2>3. scripts # <<>> => scripts'[1] = scripts[1]
    <3>1. scripts # <<>> => Len(scripts) # 0
      BY <2>2, EmptySeq DEF TypesInv
    <3>2. QED
      BY <2>2, <3>1
  <2>4. scripts'[1] = "empty" => handed \cap Marks = {}
    BY <2>3 DEF TokenInv
  <2>5. QED
    BY <1>1, <1>3, <2>1, <2>2, <2>4 DEF TokenInv
<1>4. CASE ~Withheld /\ stage' \in Marks /\ UNCHANGED <<scripts, tokenSent, handed>>
  <2>1. \A i \in DOMAIN scripts : scripts[i] # "empty"
    BY <1>4 DEF TokenInv, Withheld
  <2>2. oneTime => handed = {}
    BY <1>4 DEF TokenInv, Withheld
  <2>3. QED
    BY <1>1, <1>4, <2>1, <2>2 DEF TokenInv
<1>5. CASE \E at \in Marks : /\ stage = at /\ stage' \notin Marks
                             /\ tokenSent' = TRUE /\ handed' = handed \cup {at}
                             /\ scripts' = Append(scripts, "token")
  <2>1. PICK at \in Marks : /\ stage = at /\ stage' \notin Marks
                            /\ tokenSent' = TRUE /\ handed' = handed \cup {at}
                            /\ scripts' = Append(scripts, "token")
    BY <1>5
  <2>2. /\ Len(scripts) \in Nat /\ Len(scripts') = Len(scripts) + 1 /\ scripts' # <<>>
        /\ DOMAIN scripts = 1..Len(scripts) /\ DOMAIN scripts' = 1..Len(scripts')
        /\ \A i \in 1..Len(scripts) : scripts'[i] = scripts[i]
        /\ scripts'[Len(scripts) + 1] = "token"
    BY <2>1, Appended
  <2>3. \A i \in DOMAIN scripts' : scripts'[i] # "empty"
    BY <2>1, <2>2 DEF TokenInv
  <2>4. 1 \in DOMAIN scripts'
    BY <2>2
  <2>5. at \notin Pages
    BY <2>1, PagesAreNoMarks
  <2>6. QED
    BY <1>1, <2>1, <2>2, <2>3, <2>4, <2>5 DEF TokenInv
<1>6. QED
  BY <1>2, <1>3, <1>4, <1>5
     DEF injectGlobals, injectClientLibrary, InjectBegins, InjectEnds, GiveToken, Marks

LEMMA TokenNext ==
    ASSUME ConfigInv, TypesInv, LoadingInv, ScriptsInv, TokenInv, [AppNext]_appVars
    PROVE  TokenInv'
<1>1. CASE EarlyMain
  <2>1. /\ stage \in EarlyStages /\ stage' \in EarlyStages \cup {"extra", "exited", "aborted"}
        /\ UNCHANGED <<setup, tokenSent, handed, scripts, serving>>
    BY <1>1, EarlyLeaves DEF clientVars
  <2>2. handed = {} /\ scripts = <<>> /\ serving = None
    BY <2>1 DEF TokenInv, ScriptsInv, ConfigInv, EarlyStages, Served
  <2>3. DOMAIN scripts = {}
    BY <2>2
  <2>4. QED
    BY <2>1, <2>2, <2>3 DEF TokenInv, Marks, EarlyStages
<1>2. CASE injectGlobals \/ injectClientLibrary
  BY <1>2, TokenInjected
<1>3. CASE LateMain /\ ~(injectGlobals \/ injectClientLibrary)
  <2>1. /\ UNCHANGED <<setup, oneTime, tokenSent, handed, scripts, serving, listening>>
        /\ stage' \in Served \cup {"aborted"} /\ stage' \notin Marks
    BY <1>3 DEF LateMain, initExtra, startExtension, skipExtension, loadOne, extensionsLoaded,
                startApp, showWindow, clientVars, bootVars, Served, Marks
  <2>2. QED
    BY <2>1, TokenStays
<1>4. CASE Beside
  <2>1. UNCHANGED <<setup, stage, oneTime, listening, scripts>>
    BY <1>4 DEF Beside, ServerThread, Clients, serveGlobals, answerGlobals, handleValidate, Load,
         LibraryStarts, bootVars
  <2>2. handed # {} => stage \in Served \cup {"aborted"}
    BY DEF TokenInv
  <2>3. CASE \E c \in Pages : Load(c) \/ LibraryStarts(c)
    BY <2>1, <2>2, <2>3, TokenStays DEF Load, LibraryStarts
  <2>4. CASE \E e \in Extensions : handleValidate(e)
    BY <2>1, <2>2, <2>4, TokenStays DEF handleValidate
  <2>5. CASE \E c \in Pages : serveGlobals(c)
    <3>1. PICK c \in Pages : serveGlobals(c)
      BY <2>5
    <3>2. /\ serving' = [page |-> c, withheld |-> Withheld] /\ UNCHANGED <<tokenSent, handed>>
          /\ listening # Null /\ setup.fetches
      BY <3>1 DEF serveGlobals
    <3>3. serving'.withheld = Withheld
      BY <3>2
    <3>4. Withheld <=> tokenSent /\ oneTime
      BY DEF Withheld
    <3>5. QED
      BY <2>1, <3>2, <3>3, <3>4 DEF TokenInv
  <2>6. CASE answerGlobals
    <3>1. serving # None /\ serving' = None /\ serving.page \in Pages
      BY <2>6 DEF answerGlobals, TypesInv
    <3>2. listening # Null /\ setup.fetches /\ stage \in Served
      BY <3>1 DEF TokenInv, ConfigInv
    <3>3. CASE serving.withheld /\ UNCHANGED <<tokenSent, handed>>
      BY <2>1, <2>2, <3>1, <3>3, TokenStays
    <3>4. CASE ~serving.withheld /\ tokenSent' = TRUE /\ handed' = handed \cup {serving.page}
      <4>1. serving.page \notin Marks
        BY <3>1, PagesAreNoMarks
      <4>2. QED
        BY <2>1, <3>1, <3>2, <3>4, <4>1 DEF TokenInv
    <3>5. QED
      BY <2>6, <3>3, <3>4 DEF answerGlobals, GiveToken
  <2>7. QED
    BY <1>4, <2>3, <2>4, <2>5, <2>6 DEF Beside, ServerThread, Clients
<1>5. CASE UNCHANGED vars
  <2>1. handed # {} => stage \in Served \cup {"aborted"}
    BY DEF TokenInv
  <2>2. QED
    BY <1>5, <2>1, TokenStays DEF vars, bootVars, clientVars
<1>6. QED
  BY <1>1, <1>2, <1>3, <1>4, <1>5, Steps

\* The threads inside getToken.
LEMMA RaceNext ==
    ASSUME ConfigInv, TypesInv, ScriptsInv, TokenInv, RaceInv, [AppNext]_appVars
    PROVE  RaceInv'
<1>1. CASE EarlyMain
  <2>1. /\ stage \in EarlyStages /\ stage' \in EarlyStages \cup {"extra", "exited", "aborted"}
        /\ UNCHANGED <<handed, serving, raced>>
    BY <1>1, EarlyLeaves DEF clientVars
  <2>2. handed = {} /\ serving = None
    BY <2>1 DEF TokenInv, ConfigInv, EarlyStages, Served
  <2>3. QED
    BY <2>1, <2>2 DEF RaceInv, MainInside, ServerInside, EarlyStages
<1>2. CASE injectGlobals \/ injectClientLibrary
  <2>1. UNCHANGED <<oneTime, serving>>
    BY <1>2 DEF injectGlobals, injectClientLibrary, InjectBegins, InjectEnds, bootVars
  <2>2. CASE UNCHANGED <<handed, raced>> /\ ~MainInside'
    BY <2>1, <2>2 DEF RaceInv, ServerInside
  <2>3. CASE ~Withheld /\ UNCHANGED handed /\ MainInside' /\ raced' = (raced \/ ServerInside)
    <3>1. oneTime => handed = {}
      BY <2>3 DEF Withheld, TokenInv
    <3>2. QED
      BY <2>1, <2>3, <3>1 DEF RaceInv, ServerInside
  <2>4. CASE MainInside /\ ~MainInside' /\ UNCHANGED raced /\ \E at : handed' = handed \cup {at}
    BY <2>1, <2>4 DEF RaceInv, ServerInside
  <2>5. QED
    BY <1>2, <2>2, <2>3, <2>4
       DEF injectGlobals, injectClientLibrary, InjectBegins, InjectEnds, GiveToken, MainInside, RaceInv
<1>3. CASE LateMain /\ ~(injectGlobals \/ injectClientLibrary)
  <2>1. UNCHANGED <<oneTime, handed, serving, raced>> /\ ~MainInside'
    BY <1>3 DEF LateMain, initExtra, startExtension, skipExtension, loadOne, extensionsLoaded,
                startApp, showWindow, clientVars, bootVars, MainInside
  <2>2. QED
    BY <2>1 DEF RaceInv, ServerInside
<1>4. CASE Beside
  <2>1. UNCHANGED <<stage, oneTime>>
    BY <1>4 DEF Beside, ServerThread, Clients, serveGlobals, answerGlobals, handleValidate, Load,
         LibraryStarts, bootVars
  <2>2. CASE UNCHANGED <<handed, serving, raced>>
    BY <2>1, <2>2 DEF RaceInv, MainInside, ServerInside
  <2>3. CASE \E c \in Pages : serveGlobals(c)
    <3>1. PICK c \in Pages : serveGlobals(c)
      BY <2>3
    <3>2. /\ serving' = [page |-> c, withheld |-> Withheld] /\ UNCHANGED handed
          /\ raced' = (raced \/ (MainInside /\ ServerInside'))
      BY <3>1 DEF serveGlobals
    <3>3. ServerInside' => (oneTime => handed = {})
      BY <3>2 DEF ServerInside, Withheld, TokenInv
    <3>4. CASE ServerInside'
      BY <2>1, <3>2, <3>3, <3>4 DEF RaceInv, MainInside
    <3>5. CASE ~ServerInside'
      BY <2>1, <3>2, <3>5 DEF RaceInv, MainInside
    <3>6. QED
      BY <3>4, <3>5
  <2>4. CASE answerGlobals
    <3>1. serving # None /\ serving' = None /\ UNCHANGED raced
      BY <2>4 DEF answerGlobals
    <3>2. CASE UNCHANGED handed
      BY <2>1, <3>1, <3>2 DEF RaceInv, MainInside, ServerInside
    <3>3. CASE ServerInside /\ handed' = handed \cup {serving.page}
      BY <2>1, <3>1, <3>3 DEF RaceInv, MainInside, ServerInside
    <3>4. QED
      BY <2>4, <3>1, <3>2, <3>3 DEF answerGlobals, GiveToken, ServerInside
  <2>5. QED
    BY <1>4, <2>2, <2>3, <2>4
       DEF Beside, ServerThread, Clients, handleValidate, Load, LibraryStarts
<1>5. CASE UNCHANGED vars
  BY <1>5 DEF vars, bootVars, clientVars, RaceInv, MainInside, ServerInside
<1>6. QED
  BY <1>1, <1>2, <1>3, <1>4, <1>5, Steps

-----------------------------------------------------------------------------
(* The pages. *)

LEMMA PagesInit == AppInit => PagesInv
<1> SUFFICES ASSUME AppInit PROVE PagesInv
  OBVIOUS
<1>1. ASSUME NEW c \in Pages
      PROVE  pages[c].doc = "none" /\ pages[c].extOn = FALSE /\ pages[c].nlToken = "undefined"
  BY DEF AppInit, Init, NoPage
<1>2. handed = {} /\ page \in Pages
  BY DEF AppInit, Init, Pages
<1>3. QED
  BY <1>1, <1>2 DEF PagesInv

\* Steps that leave every page as it is.
LEMMA PagesStay ==
    ASSUME PagesInv, UNCHANGED <<setup, stage, options, scripts, oneTime, listening, extInit, pages>>,
           tokenSent => tokenSent',
           page \in handed' /\ ~lost' => page \in handed /\ ~lost
    PROVE  PagesInv'
<1>1. ScriptToken(page)' = ScriptToken(page)
  BY DEF ScriptToken
<1>2. QED
  BY <1>1 DEF PagesInv

LEMMA PagesMain ==
    ASSUME ConfigInv, TypesInv, LoadingInv, ScriptsInv, TokenInv, PagesInv, EarlyMain \/ LateMain
    PROVE  PagesInv'
<1>1. page \in Pages /\ page \notin Marks
  BY PagesAreNoMarks DEF Pages
<1>2. CASE EarlyMain
  <2>1. /\ stage \in EarlyStages
        /\ UNCHANGED <<setup, extInit, tokenSent, pages, handed>>
    BY <1>2, EarlyLeaves DEF clientVars
  <2>2. handed = {} /\ ~tokenSent /\ listening = Null /\ stage # "running"
    BY <2>1 DEF TokenInv, ConfigInv, EarlyStages, Served
  <2>3. \A c \in Pages : pages[c].doc = "none" /\ ~pages[c].extOn /\ pages[c].nlToken # "empty"
    BY <2>2 DEF PagesInv
  <2>4. QED
    BY <1>1, <2>1, <2>2, <2>3 DEF PagesInv
<1>3. CASE LateMain
  <2>1. UNCHANGED <<setup, oneTime, listening, pages, lost>> /\ stage # "running"
    BY <1>3 DEF LateMain, initExtra, startExtension, skipExtension, loadOne, extensionsLoaded,
           startApp, injectGlobals, injectClientLibrary, InjectBegins, InjectEnds, showWindow,
           clientVars, bootVars
  <2>2. (tokenSent => tokenSent') /\ (extInit => extInit') /\ (page \in handed' => page \in handed)
    BY <1>1, <1>3
       DEF LateMain, initExtra, startExtension, skipExtension, loadOne, extensionsLoaded, startApp,
           injectGlobals, injectClientLibrary, InjectBegins, InjectEnds, showWindow, clientVars,
           extVars, GiveToken, Marks
  <2>3. pages[page].doc = "none"
    BY <1>1, <2>1 DEF PagesInv
  <2>4. \A c \in Pages : pages[c].doc = "none" \/ (c # page /\ listening # Null)
    BY <2>1 DEF PagesInv
  <2>5. QED
    BY <1>1, <2>1, <2>2, <2>3, <2>4 DEF PagesInv
<1>4. QED
  BY <1>2, <1>3

LEMMA PagesBeside ==
    ASSUME ConfigInv, TypesInv, TokenInv, PagesInv, Beside
    PROVE  PagesInv'
<1>1. /\ UNCHANGED <<setup, stage, options, oneTime, listening, extInit, scripts>>
      /\ page \in Pages
  BY DEF Beside, ServerThread, Clients, serveGlobals, answerGlobals, handleValidate, Load,
         LibraryStarts, bootVars, extVars, Pages
<1>2. ScriptToken(page)' = ScriptToken(page)
  BY <1>1 DEF ScriptToken
<1>3. CASE \E c \in Pages : Load(c)
  <2>1. PICK c \in Pages : Load(c)
    BY <1>3
  <2>2. /\ UNCHANGED <<tokenSent, handed>>
        /\ lost' = (lost \/ (pages[c].doc = "fetched" /\ pages[c].nlToken = "token"))
        /\ IF c = page THEN stage = "running" ELSE listening # Null
    BY <2>1 DEF Load, Reachable
  <2>3. Turned(c, "loading", ScriptToken(c), pages[c].session, ScriptToken(c) # "undefined" /\ extInit)
    BY <2>1, LoadTurns
  <2>4. ScriptToken(c) = "empty" => tokenSent /\ oneTime
    BY ScriptTokens DEF TokenInv
  <2>5. QED
    BY <1>1, <1>2, <2>2, <2>3, <2>4 DEF PagesInv, Turned
<1>4. CASE \E c \in Pages : LibraryStarts(c)
  <2>1. PICK c \in Pages : LibraryStarts(c)
    BY <1>4
  <2>2. /\ UNCHANGED <<tokenSent, handed, lost>>
        /\ pages[c].doc = IF setup.fetches THEN "fetched" ELSE "loading"
    BY <2>1 DEF LibraryStarts
  <2>3. Turned(c, "ready", pages[c].nlToken, pages[c].session \/ pages[c].nlToken = "token",
               pages[c].extOn)
    BY <2>1, LibraryTurns
  <2>4. QED
    BY <1>1, <1>2, <2>2, <2>3 DEF PagesInv, Turned
<1>5. CASE \E c \in Pages : serveGlobals(c)
  <2>1. PICK c \in Pages : serveGlobals(c)
    BY <1>5
  <2>2. /\ UNCHANGED <<tokenSent, handed, lost>>
        /\ pages[c].doc = "loading" /\ listening # Null /\ setup.fetches
    BY <2>1 DEF serveGlobals
  <2>3. Turned(c, "fetching", pages[c].nlToken, pages[c].session, pages[c].extOn)
    BY <2>1, ServeTurns
  <2>4. QED
    BY <1>1, <1>2, <2>2, <2>3 DEF PagesInv, Turned
<1>6. CASE answerGlobals
  <2>1. PICK c, token : /\ c = serving.page
                        /\ token = IF serving.withheld THEN "empty" ELSE "token"
    OBVIOUS
  <2>2. serving # None /\ c \in Pages
    BY <1>6, <2>1 DEF answerGlobals, TypesInv
  <2>3. Answered(c, token)
    BY <1>6, <2>1 DEF answerGlobals
  <2>4. IF pages[c].doc = "fetching" THEN Turned(c, "fetched", token, pages[c].session, extInit)
        ELSE UNCHANGED pages
    BY <2>1, <2>2, <2>3, AnswerTurns
  <2>5. lost' = (lost \/ (pages[c].doc # "fetching" /\ token = "token"))
    BY <2>3 DEF Answered
  <2>6. /\ token = "empty" => tokenSent /\ oneTime /\ UNCHANGED <<tokenSent, handed>>
        /\ token # "empty" => token = "token" /\ tokenSent' /\ handed' = handed \cup {c}
        /\ token \in {"empty", "token"}
    BY <1>6, <2>1, <2>2 DEF TokenInv, answerGlobals, GiveToken
  <2>7. listening # Null /\ setup.fetches
    BY <2>2 DEF TokenInv
  <2>8. CASE pages[c].doc = "fetching"
    <3>1. Turned(c, "fetched", token, pages[c].session, extInit)
      BY <2>4, <2>8
    <3>2. (tokenSent => tokenSent') /\ lost' = lost
      BY <2>5, <2>6, <2>8 DEF TypesInv
    <3>3. CASE c = page
      <4>1. stage = "running"
        BY <1>1, <2>8, <3>3 DEF PagesInv
      <4>2. page \in handed' /\ ~lost' => pages[page].session \/ token = "token"
        BY <2>6, <2>8, <3>2, <3>3 DEF PagesInv
      <4>3. QED
        BY <1>1, <2>6, <2>7, <3>1, <3>2, <3>3, <4>1, <4>2 DEF PagesInv, Turned
    <3>4. CASE c # page
      <4>1. page \in handed' => page \in handed
        BY <2>6, <3>4
      <4>2. pages'[page] = pages[page]
        BY <1>1, <3>1, <3>4 DEF Turned
      <4>3. QED
        BY <1>1, <1>2, <2>2, <2>6, <2>7, <3>1, <3>2, <3>4, <4>1, <4>2 DEF PagesInv, Turned
    <3>5. QED
      BY <3>3, <3>4
  <2>9. CASE pages[c].doc # "fetching"
    <3>1. page \in handed' /\ ~lost' => page \in handed /\ ~lost
      BY <2>5, <2>6, <2>9
    <3>2. QED
      BY <1>1, <2>4, <2>6, <2>9, <3>1, PagesStay
  <2>10. QED
    BY <2>8, <2>9
<1>7. CASE \E e \in Extensions : handleValidate(e)
  BY <1>1, <1>7, PagesStay DEF handleValidate
<1>8. QED
  BY <1>3, <1>4, <1>5, <1>6, <1>7 DEF Beside, ServerThread, Clients

LEMMA PagesNext ==
    ASSUME ConfigInv, TypesInv, LoadingInv, ScriptsInv, TokenInv, PagesInv, [AppNext]_appVars
    PROVE  PagesInv'
<1>1. CASE EarlyMain \/ LateMain
  BY <1>1, PagesMain
<1>2. CASE Beside
  BY <1>2, PagesBeside
<1>3. CASE UNCHANGED vars
  BY <1>3, PagesStay DEF vars, bootVars, extVars, clientVars
<1>4. QED
  BY <1>1, <1>2, <1>3, Steps

\* The invariant holds in every state.
THEOREM AppInvHolds == AppSpec => []AppInv
<1>1. AppInit => AppInv
  BY ConfigInit, TypesInit, LoadingInit, ScriptsInit, TokenInit, PagesInit DEF AppInv
<1>2. AppInv /\ [AppNext]_appVars => AppInv'
  BY ConfigNext, TypesNext, LoadingNext, ScriptsNext, TokenNext, PagesNext DEF AppInv
<1>3. QED
  BY <1>1, <1>2, PTL DEF AppSpec

LEMMA RaceInvHolds == AppSpec => []RaceInv
<1>1. AppInit => RaceInv
  BY DEF AppInit, Init, RaceInv, MainInside, ServerInside
<1>2. AppInv /\ RaceInv /\ [AppNext]_appVars => RaceInv'
  BY RaceNext DEF AppInv
<1>3. QED
  BY <1>1, <1>2, AppInvHolds, PTL DEF AppSpec

\* Every variable has its type (TypeOK of Application): whatever stands on the
\* command line, the resources are in one of their modes, and whatever calls ask
\* for, only directories are mounted.
THEOREM TypeOKHolds == AppSpec => []TypeOK
<1>1. AppInv /\ RaceInv => TypeOK
  <2> SUFFICES ASSUME AppInv, RaceInv PROVE TypeOK
    OBVIOUS
  <2>1. DOMAIN options.root = Keys /\ \A m \in Modes : DOMAIN options.modes[m] = Keys
    BY DEF AppInv, ConfigInv, IsOptions
  <2>2. Range(scripts) \subseteq {"empty", "token"}
    <3>1. PICK T : T = {"empty", "token"}
      OBVIOUS
    <3>2. scripts \in Seq(T)
      BY <3>1 DEF AppInv, TypesInv
    <3>3. QED
      BY <3>1, <3>2, ElementOfSeq, LenProperties DEF Range
  <2>3. serving = None \/ serving.page \in Pages
    BY DEF AppInv, TypesInv
  <2>4. QED
    BY <2>1, <2>2, <2>3 DEF AppInv, ConfigInv, TypesInv, RaceInv, TypeOK, ResModes, Marks
<1>2. QED
  BY <1>1, AppInvHolds, RaceInvHolds, PTL

-----------------------------------------------------------------------------
(* The command line. *)

\* The last of the arguments that set a key.
LEMMA LastArgument ==
    ASSUME ConfigInv, NEW key, Sets(key) # {}
    PROVE  \E i : /\ LastSetting(setup.args, i, key) /\ i \in Sets(key)
                  /\ CliValue(key) = ArgValue(setup.args[i])
<1>1. PICK args : args = setup.args
  OBVIOUS
<1>2. Len(args) \in Nat /\ DOMAIN args = 1..Len(args)
  BY <1>1, SetupsAssumption, LenProperties DEF ConfigInv
<1>3. PICK S : S = Sets(key)
  OBVIOUS
<1>4. S = {i \in 1..Len(args) : Setting(args[i], key)}
  BY <1>1, <1>2, <1>3 DEF Sets, Setting
<1>5. \E i \in S : \A j \in S : j <= i
  <2> DEFINE Back == {Len(args) - i : i \in S}
  <2>1. Back \subseteq Nat /\ Back # {}
    BY <1>2, <1>3, <1>4
  <2> HIDE DEF Back
  <2>2. PICK x \in Back : \A y \in Back : x <= y
    BY <2>1, LeastNatural
  <2>3. PICK i \in S : x = Len(args) - i
    BY DEF Back
  <2>4. ASSUME NEW j \in S PROVE j <= i
    <3>1. Len(args) - j \in Back
      BY DEF Back
    <3>2. x <= Len(args) - j
      BY <2>2, <3>1
    <3>3. i \in Int /\ j \in Int
      BY <1>4
    <3>4. QED
      BY <1>2, <2>3, <3>2, <3>3
  <2>5. QED
    BY <2>4
<1>6. PICK i : i = CHOOSE k \in S : \A j \in S : j <= k
  OBVIOUS
<1>7. i \in S /\ \A j \in S : j <= i
  BY <1>5, <1>6
<1>8. LastSetting(args, i, key)
  BY <1>4, <1>7 DEF LastSetting
<1>9. CliValue(key) = ArgValue(args[i])
  BY <1>1, <1>3, <1>6 DEF CliValue, ArgValue
<1>10. QED
  BY <1>1, <1>3, <1>7, <1>8, <1>9

\* What the command line says is not absent.
LEMMA ArgIsThere ==
    ASSUME ConfigInv, NEW i \in DOMAIN setup.args
    PROVE  ArgValue(setup.args[i]) # Null
<1>1. setup.args[i].value # Null
  BY SetupsAssumption DEF ConfigInv
<1>2. ASSUME NEW yes PROVE (setup.args[i].value \in yes) # Null
  <2>1. PICK b : b = (setup.args[i].value \in yes)
    OBVIOUS
  <2>2. b \in BOOLEAN
    BY <2>1
  <2>3. b # Null
    BY <2>2, NullAssumption
  <2>4. QED
    BY <2>1, <2>3
<1>3. QED
  BY <1>1, <1>2, Zenon DEF ArgValue

\* A key that the command line sets is what it says last; the port until one is chosen.
LEMMA InForce ==
    ASSUME ConfigInv, Ready, NEW key \in cliMappingAliases, Sets(key) # {},
           key = "port" => listening = Null
    PROVE  \E i \in Sets(key) : /\ getOptionForCurrentMode(options, key) = ArgValue(setup.args[i])
                                /\ CliValue(key) = ArgValue(setup.args[i])
<1>1. PICK i : /\ LastSetting(setup.args, i, key) /\ i \in Sets(key)
               /\ CliValue(key) = ArgValue(setup.args[i])
  BY LastArgument
<1>2. i \in 1..Len(setup.args) /\ DOMAIN setup.args = 1..Len(setup.args)
  BY <1>1, SetupsAssumption, LenProperties DEF LastSetting, ConfigInv
<1>3. getMode(options) \in PlacesOf(key) /\ key \in CliKeys
  BY LookUp DEF PlacesOf, CliKeys
<1>4. ValueAt(options, getMode(options), key) = ArgValue(setup.args[i])
  BY <1>1, <1>2, <1>3 DEF ConfigInv, FromArgs
<1>5. ArgValue(setup.args[i]) # Null
  BY <1>2, ArgIsThere
<1>6. QED
  BY <1>1, <1>4, <1>5, LookUp

\* What is said last on the command line is in force, for any command line and
\* any file (CliWins; settings::setGlobalArgs, settings::init and
\* getOptionForCurrentMode).
THEOREM CliWinsHolds == AppSpec => []CliWins
<1>1. AppInv => CliWins
  <2> SUFFICES ASSUME AppInv, Ready PROVE CliWins
    BY DEF CliWins
  <2>1. ConfigInv /\ FromArgs
    BY DEF AppInv, ConfigInv
  <2>3. ASSUME NEW key \in cliMappingAliases, Sets(key) # {}, key = "port" => listening = Null
        PROVE  getOptionForCurrentMode(options, key) = CliValue(key)
    BY <2>1, <2>3, InForce
  <2>4. ASSUME Sets("defaultMode") # {}
        PROVE  getMode(options) = CliValue("defaultMode")
    <3>1. PICK i : /\ LastSetting(setup.args, i, "defaultMode") /\ i \in Sets("defaultMode")
                   /\ CliValue("defaultMode") = ArgValue(setup.args[i])
      BY <2>1, <2>4, LastArgument
    <3>2. i \in 1..Len(setup.args) /\ "root" \in PlacesOf("defaultMode") /\ "defaultMode" \in CliKeys
      BY <3>1 DEF LastSetting, PlacesOf, CliKeys, cliMappingAliases
    <3>3. ValueAt(options, "root", "defaultMode") = ArgValue(setup.args[i])
      BY <2>1, <3>1, <3>2 DEF FromArgs
    <3>4. setup.args[i].key = "--mode"
      BY <3>1 DEF Sets, cliMappings, TextArgs, BoolArgs, WindowArgs
    <3>5. ArgValue(setup.args[i]) \in Modes
      <4>1. setup.args[i].value \in Modes
        BY <3>1, <3>4 DEF Sets
      <4>2. cliMappings["--mode"].type # "bool"
        BY DEF cliMappings, TextArgs, BoolArgs, WindowArgs
      <4>3. QED
        BY <3>4, <4>1, <4>2, Zenon DEF ArgValue
    <3>6. QED
      BY <3>1, <3>3, <3>5, LookUp
  <2>5. QED
    BY <2>3, <2>4 DEF CliWins
<1>2. QED
  BY <1>1, AppInvHolds, PTL

-----------------------------------------------------------------------------
(* What pages are told. *)

\* The sets of which the properties count the elements are small.
LEMMA AtMostOne ==
    ASSUME NEW S, \A a, b \in S : a = b
    PROVE  IsFiniteSet(S) /\ Cardinality(S) \in Nat /\ Cardinality(S) <= 1
           /\ (Cardinality(S) = 0 <=> S = {})
<1>1. CASE S = {}
  BY <1>1, FS_EmptySet
<1>2. CASE S # {}
  <2>1. PICK x : S = {x}
    BY <1>2
  <2>2. IsFiniteSet(S) /\ Cardinality(S) = 1
    BY <2>1, FS_Singleton
  <2>3. QED
    BY <1>2, <2>2
<1>3. QED
  BY <1>1, <1>2

\* The ways in which the page gets its globals are the scripts of the window and
\* the request it makes.
LEMMA SourcesAre ==
    /\ One("injectGlobals") \in {0, 1} /\ One("injectClientLibrary") \in {0, 1}
    /\ Sources = (IF getMode(options) = "window"
                  THEN One("injectGlobals") + One("injectClientLibrary") ELSE 0)
                 + (IF setup.fetches /\ listening # Null THEN 1 ELSE 0)
<1>1. PICK a, b : a = "injectGlobals" /\ b = "injectClientLibrary"
  OBVIOUS
<1>2. a # b
  BY <1>1
<1>3. PICK S : S = {k \in {a, b} : getMode(options) = "window" /\ Injects(k)}
  OBVIOUS
<1>4. Cardinality(S) = IF getMode(options) = "window" THEN One(a) + One(b) ELSE 0
  <2>1. PICK A : A = S \cap {a}
    OBVIOUS
  <2>2. IsFiniteSet(A) /\ Cardinality(A) = IF a \in S THEN 1 ELSE 0
    <3>1. CASE a \in S
      <4>1. A = {a}
        BY <2>1, <3>1
      <4>2. QED
        BY <3>1, <4>1, FS_Singleton
    <3>2. CASE a \notin S
      <4>1. A = {}
        BY <2>1, <3>2
      <4>2. QED
        BY <3>2, <4>1, FS_EmptySet
    <3>3. QED
      BY <3>1, <3>2
  <2>3. S = IF b \in S THEN A \cup {b} ELSE A
    BY <1>3, <2>1
  <2>4. b \notin A
    BY <1>2, <2>1
  <2>5. Cardinality(A \cup {b}) = Cardinality(A) + 1
    BY <2>2, <2>4, FS_AddElement
  <2>6. Cardinality(S) = Cardinality(A) + IF b \in S THEN 1 ELSE 0
    BY <2>2, <2>3, <2>5
  <2>7. \A k \in {a, b} : k \in S <=> getMode(options) = "window" /\ Injects(k)
    BY <1>3
  <2>8. \A k : One(k) = IF Injects(k) THEN 1 ELSE 0
    BY DEF One
  <2>9. QED
    BY <2>2, <2>6, <2>7, <2>8
<1>5. Sources = Cardinality(S) + IF setup.fetches /\ listening # Null THEN 1 ELSE 0
  BY <1>1, <1>3 DEF Sources
<1>6. QED
  BY <1>1, <1>4, <1>5 DEF One

\* A page whose document is there has been opened by the program, or reaches a
\* server that listens.
LEMMA Opened ==
    ASSUME AppInv, NEW c \in Pages, pages[c].doc # "none"
    PROVE  stage \in Served /\ Ready /\ (c = page => stage = "running")
BY DEF AppInv, ConfigInv, PagesInv, Served, Ready

\* The window has scripts if it injects anything.
LEMMA HasScripts ==
    ASSUME AppInv, stage = "running"
    PROVE  /\ scripts \in Seq({"empty", "token"})
           /\ Len(scripts) \in Nat /\ (scripts = <<>> <=> Len(scripts) = 0)
           /\ Len(scripts) = IF getMode(options) = "window"
                             THEN One("injectGlobals") + One("injectClientLibrary") ELSE 0
<1>1. PICK T : T = {"empty", "token"}
  OBVIOUS
<1>2. scripts \in Seq(T)
  BY <1>1 DEF AppInv, TypesInv
<1>3. Len(scripts) \in Nat /\ (scripts = <<>> <=> Len(scripts) = 0)
  BY <1>2, LenProperties, EmptySeq
<1>4. QED
  BY <1>1, <1>2, <1>3 DEF AppInv, ScriptsInv

\* What pages, extensions and the exported file are told of the port and of the
\* extensions is true, for every configuration (GlobalsAreTrue; settings::setPort
\* and the order in which main() starts things).
THEOREM GlobalsAreTrueHolds == AppSpec => []GlobalsAreTrue
<1>1. AppInv => GlobalsAreTrue
  <2> SUFFICES ASSUME AppInv PROVE GlobalsAreTrue
    OBVIOUS
  <2>1. PortTruth
    BY DEF AppInv, ConfigInv, PortTruth
  <2>2. ASSUME NEW c \in Pages, pages[c].extOn
        PROVE  Ready /\ Configured /\ \A i \in DOMAIN Listing : Listing[i].id \in loaded \cup {Null}
    <3>1. extInit /\ pages[c].doc # "none"
      BY <2>2 DEF AppInv, PagesInv
    <3>2. QED
      BY <3>1, Opened DEF AppInv, LoadingInv
  <2>3. ASSUME pages[page].doc \in {"fetched", "ready"}, Sources > 0, Configured
        PROVE  pages[page].extOn
    <3>1. page \in Pages /\ stage = "running"
      BY <2>3, Opened DEF Pages
    <3>2. extInit
      BY <2>3, <3>1 DEF AppInv, LoadingInv, Begun
    <3>3. CASE pages[page].doc = "fetched" \/ setup.fetches
      BY <2>3, <3>2, <3>3 DEF AppInv, PagesInv
    <3>4. CASE pages[page].doc = "ready" /\ ~setup.fetches
      <4>1. getMode(options) = "window" /\ scripts # <<>>
        BY <2>3, <3>1, <3>4, SourcesAre, HasScripts
      <4>2. ScriptToken(page) # "undefined"
        BY <4>1, ScriptTokens DEF AppInv
      <4>3. QED
        BY <3>2, <3>4, <4>2 DEF AppInv, PagesInv
    <3>5. QED
      BY <2>3, <3>3, <3>4
  <2>4. ExtEnabledIsTrue
    BY <2>2, <2>3 DEF ExtEnabledIsTrue, Configured, Listing
  <2>5. QED
    BY <2>1, <2>4 DEF GlobalsAreTrue
<1>2. QED
  BY <1>1, AppInvHolds, PTL

\* With the one-time security the token is given out once, however many pages
\* there are and however often they load, unless the main thread and that of the
\* server met in getToken, and then twice at most, to one client of the server and
\* to one script of the window (OneTimeToken; authbasic::getToken).
THEOREM OneTimeTokenHolds == AppSpec => []OneTimeToken
<1>1. AppInv /\ RaceInv => OneTimeToken
  <2> SUFFICES ASSUME AppInv, RaceInv, oneTime PROVE OneTimeToken
    BY DEF OneTimeToken
  <2>1. PICK A, B : A = handed \cap Marks /\ B = handed \cap Pages
    OBVIOUS
  <2>2. (\A a, b \in A : a = b) /\ (\A a, b \in B : a = b)
    BY <2>1 DEF AppInv, TokenInv
  <2>3. /\ IsFiniteSet(A) /\ Cardinality(A) \in Nat /\ Cardinality(A) <= 1
        /\ IsFiniteSet(B) /\ Cardinality(B) \in Nat /\ Cardinality(B) <= 1
    BY <2>2, AtMostOne
  <2>4. handed = A \cup B
    BY <2>1 DEF AppInv, TypesInv
  <2>5. A \cap B = {}
    BY <2>1, PagesAreNoMarks
  <2>6. Cardinality(handed) = Cardinality(A) + Cardinality(B)
    BY <2>3, <2>4, <2>5, FS_Union, FS_EmptySet
  <2>7. ~raced => Cardinality(handed) <= 1
    BY AtMostOne DEF RaceInv
  <2>8. QED
    BY <2>3, <2>6, <2>7 DEF OneTimeToken
<1>2. QED
  BY <1>1, AppInvHolds, RaceInvHolds, PTL

\* A page of the program that has started its library has the token, but for the
\* three cases that OwnPageHasToken names (authbasic::getToken and the two ways
\* in which a page gets its globals).
THEOREM OwnPageHasTokenHolds == AppSpec => []OwnPageHasToken
<1>1. AppInv => OwnPageHasToken
  <2> SUFFICES ASSUME AppInv, pages[page].doc = "ready", Sources > 0, ~HasToken(page)
               PROVE  oneTime /\ (handed \cap Others # {} \/ lost \/ Sources > 1)
    BY DEF OwnPageHasToken
  <2>1. page \in Pages /\ stage = "running"
    BY Opened DEF Pages
  <2>2. pages[page].nlToken # "token" /\ ~pages[page].session
    BY DEF HasToken
  <2>3. pages[page].nlToken = "empty" => tokenSent /\ oneTime /\ handed # {}
    BY <2>1 DEF AppInv, PagesInv, TokenInv
  <2>4. handed = (handed \cap Marks) \cup (handed \cap Pages)
    BY DEF AppInv, TypesInv
  <2>5. CASE setup.fetches
    <3>1. pages[page].nlToken = "empty" /\ listening # Null
      BY <2>2, <2>5 DEF AppInv, PagesInv
    <3>2. Sources > 1 \/ scripts = <<>>
      BY <2>1, <2>5, <3>1, SourcesAre, HasScripts
    <3>3. scripts = <<>> => handed \cap Pages # {}
      BY <2>3, <2>4, <3>1 DEF AppInv, TokenInv
    <3>4. page \in handed => lost
      BY <2>2 DEF AppInv, PagesInv
    <3>5. QED
      BY <2>3, <3>1, <3>2, <3>3, <3>4 DEF Pages
  <2>6. CASE ~setup.fetches
    <3>1. pages[page].nlToken = ScriptToken(page) /\ handed \cap Pages = {}
      BY <2>6 DEF AppInv, PagesInv, TokenInv
    <3>2. getMode(options) = "window" /\ scripts # <<>> /\ Sources = Len(scripts)
      BY <2>1, <2>6, SourcesAre, HasScripts
    <3>3. pages[page].nlToken = "empty" /\ ScriptToken(page) = "empty"
      BY <2>2, <3>1, <3>2, ScriptTokens DEF AppInv
    <3>4. Len(scripts) = 1 => scripts[1] = "empty"
      BY <3>2, <3>3 DEF ScriptToken, Last
    <3>5. Len(scripts) # 1
      BY <2>3, <2>4, <3>1, <3>2, <3>3, <3>4 DEF AppInv, TokenInv
    <3>6. Len(scripts) \in Nat
      BY <2>1, HasScripts
    <3>7. QED
      BY <2>3, <3>2, <3>3, <3>5, <3>6
  <2>7. QED
    BY <2>5, <2>6
<1>2. QED
  BY <1>1, AppInvHolds, PTL

-----------------------------------------------------------------------------
(* The permissions. *)

\* The lists that permission::init registers.
LEMMA Lists ==
    ASSUME NEW o, NEW allow, NEW block, NEW commands, NEW scopes,
           allow = getOptionForCurrentMode(o, "nativeAllowList"),
           block = getOptionForCurrentMode(o, "nativeBlockList"),
           commands = getOptionForCurrentMode(o, "commandAllowList"),
           scopes = getOptionForCurrentMode(o, "filesystemScopes")
    PROVE  /\ Registered(o).checkBlock <=> block # Null
           /\ block # Null => /\ Registered(o).blockedModules = WildcardModules(block)
                              /\ Registered(o).blockedMethods = SingleMethods(block)
           /\ Registered(o).checkAllow <=> allow # Null
           /\ allow # Null => /\ Registered(o).allowedModules = WildcardModules(allow)
                              /\ Registered(o).allowedMethods = SingleMethods(allow)
           /\ Registered(o).checkScopes <=> scopes # Null
           /\ scopes # Null =>
                /\ Registered(o).readScopes = {normalizeScopePath(s.path) : s \in
                      {x \in scopes : x.perm \in {"read", "read-write"}}}
                /\ Registered(o).writeScopes = {normalizeScopePath(s.path) : s \in
                      {x \in scopes : x.perm \in {"write", "read-write"}}}
<1>1. PICK a : a = registerAllowList(Unrestricted, allow)
  OBVIOUS
<1>2. PICK b : b = registerBlockList(a, block)
  OBVIOUS
<1>3. PICK c : c = regiserCommandAllowList(b, commands)
  OBVIOUS
<1>4. Registered(o) = registerScopesLists(c, scopes)
  BY <1>1, <1>2, <1>3 DEF Registered
<1> DEFINE Fields == {"checkBlock", "blockedModules", "blockedMethods", "checkAllow",
                      "allowedModules", "allowedMethods", "checkCommand", "commandPatterns",
                      "checkScopes", "readScopes", "writeScopes"}
<1>5. /\ DOMAIN a = Fields /\ a.checkBlock = FALSE /\ a.checkScopes = FALSE
      /\ a.checkAllow <=> allow # Null
      /\ allow # Null => /\ a.allowedModules = WildcardModules(allow)
                         /\ a.allowedMethods = SingleMethods(allow)
  BY <1>1 DEF registerAllowList, Unrestricted
<1>6. /\ DOMAIN b = Fields /\ b.checkScopes = FALSE
      /\ b.checkAllow = a.checkAllow /\ b.allowedModules = a.allowedModules
      /\ b.allowedMethods = a.allowedMethods
      /\ b.checkBlock <=> block # Null
      /\ block # Null => /\ b.blockedModules = WildcardModules(block)
                         /\ b.blockedMethods = SingleMethods(block)
  BY <1>2, <1>5 DEF registerBlockList
<1>7. /\ DOMAIN c = Fields
      /\ \A f \in Fields \ {"checkCommand", "commandPatterns"} : c[f] = b[f]
  BY <1>3, <1>6 DEF regiserCommandAllowList
<1>8. PICK r : r = registerScopesLists(c, scopes)
  OBVIOUS
<1>9. /\ r.checkAllow = c.checkAllow /\ r.allowedModules = c.allowedModules
      /\ r.allowedMethods = c.allowedMethods
      /\ r.checkBlock = c.checkBlock /\ r.blockedModules = c.blockedModules
      /\ r.blockedMethods = c.blockedMethods
      /\ scopes = Null => r.checkScopes = c.checkScopes
      /\ scopes # Null =>
            /\ r.checkScopes = TRUE
            /\ r.readScopes = {normalizeScopePath(s.path) : s \in
                  {x \in scopes : x.perm \in {"read", "read-write"}}}
            /\ r.writeScopes = {normalizeScopePath(s.path) : s \in
                  {x \in scopes : x.perm \in {"write", "read-write"}}}
  BY <1>7, <1>8 DEF registerScopesLists
<1>10. /\ c.checkAllow = b.checkAllow /\ c.allowedModules = b.allowedModules
       /\ c.allowedMethods = b.allowedMethods
       /\ c.checkBlock = b.checkBlock /\ c.blockedModules = b.blockedModules
       /\ c.blockedMethods = b.blockedMethods /\ c.checkScopes = b.checkScopes
  BY <1>7
<1>11. QED
  BY <1>4, <1>5, <1>6, <1>8, <1>9, <1>10

\* What the file says of a key that the command line cannot set is in force.
LEMMA FileIsRead ==
    ASSUME ConfigInv, Ready, setup.file = "ok", NEW key \in FileKeys
    PROVE  getOptionForCurrentMode(options, key) = FileOption(key)
<1>1. getMode(options) \in Modes /\ "root" \notin Modes
  BY LookUp DEF Modes
<1>2. \A at \in Places : ValueAt(options, at, key) = ValueAt(setup.config, at, key)
  BY FileKeysUnset DEF ConfigInv, FromFile
<1>3. /\ ValueAt(options, getMode(options), key) = setup.config.modes[getMode(options)][key]
      /\ ValueAt(options, "root", key) = setup.config.root[key]
  BY <1>1, <1>2 DEF Places, ValueAt
<1>4. QED
  BY <1>3, LookUp DEF FileOption

\* A list of the file holds pairs of a module and a name.
LEMMA ListOfMethods ==
    ASSUME ConfigInv, NEW key \in {"nativeAllowList", "nativeBlockList"},
           NEW list, list = FileOption(key), list # Null
    PROVE  \A entry \in list : entry = <<entry[1], entry[2]>>
<1>1. PICK o \in {setup.config.root} \cup {setup.config.modes[m] : m \in Modes} : list = o[key]
  BY LookUp DEF FileOption
<1>2. QED
  BY <1>1, SetupsAssumption DEF ConfigInv

\* A method is listed if its module is, or if it is itself.
LEMMA ListedIs ==
    ASSUME NEW list, \A entry \in list : entry = <<entry[1], entry[2]>>,
           NEW a, NEW b, b # "*"
    PROVE  Listed(list, <<a, b>>) <=>
              a \in WildcardModules(list) \/ <<a, b>> \in SingleMethods(list)
<1>1. <<a, b>>[1] = a /\ <<a, b>>[2] = b /\ <<a, "*">>[1] = a /\ <<a, "*">>[2] = "*"
  OBVIOUS
<1>2. <<a, "*">> \in list => a \in WildcardModules(list)
  BY <1>1 DEF WildcardModules
<1>3. a \in WildcardModules(list) => <<a, "*">> \in list
  BY DEF WildcardModules
<1>4. <<a, b>> \in SingleMethods(list) <=> <<a, b>> \in list
  BY <1>1 DEF SingleMethods
<1>5. QED
  BY <1>1, <1>2, <1>3, <1>4 DEF Listed

\* The checks of executeNativeMethod let through what the file allows.
LEMMA AllowedByFile ==
    ASSUME ConfigInv, stage \in Served, NEW a, NEW b, b # "*", hasMethodAccess(perm, <<a, b>>)
    PROVE  ConfiguredToAllow(<<a, b>>)
<1> SUFFICES ASSUME setup.file = "ok" PROVE ConfiguredToAllow(<<a, b>>)
  BY DEF ConfiguredToAllow
<1>1. Ready /\ perm = Registered(options)
  BY DEF ConfigInv, Served, Ready
<1>2. PICK allow, block : allow = FileOption("nativeAllowList") /\ block = FileOption("nativeBlockList")
  OBVIOUS
<1>3. "nativeAllowList" \in FileKeys /\ "nativeBlockList" \in FileKeys
  BY DEF FileKeys
<1>4. /\ getOptionForCurrentMode(options, "nativeAllowList") = allow
      /\ getOptionForCurrentMode(options, "nativeBlockList") = block
  BY <1>1, <1>2, <1>3, FileIsRead
<1>5. /\ perm.checkBlock <=> block # Null
      /\ block # Null => /\ perm.blockedModules = WildcardModules(block)
                         /\ perm.blockedMethods = SingleMethods(block)
      /\ perm.checkAllow <=> allow # Null
      /\ allow # Null => /\ perm.allowedModules = WildcardModules(allow)
                         /\ perm.allowedMethods = SingleMethods(allow)
  BY <1>1, <1>4, Lists
<1>6. <<a, b>>[1] = a
  OBVIOUS
<1>7. CASE block # Null
  <2>1. \A entry \in block : entry = <<entry[1], entry[2]>>
    BY <1>2, <1>7, ListOfMethods
  <2>2. ~(a \in WildcardModules(block) \/ <<a, b>> \in SingleMethods(block))
    BY <1>5, <1>6, <1>7 DEF hasMethodAccess
  <2>3. ~Listed(block, <<a, b>>)
    BY <2>1, <2>2, ListedIs
  <2>4. QED
    BY <1>2, <1>7, <2>3 DEF ConfiguredToAllow
<1>8. CASE block = Null
  <2>1. ASSUME allow # Null PROVE Listed(allow, <<a, b>>)
    <3>1. \A entry \in allow : entry = <<entry[1], entry[2]>>
      BY <1>2, <2>1, ListOfMethods
    <3>2. a \in WildcardModules(allow) \/ <<a, b>> \in SingleMethods(allow)
      BY <1>5, <1>6, <1>8, <2>1 DEF hasMethodAccess
    <3>3. QED
      BY <3>1, <3>2, ListedIs
  <2>2. QED
    BY <1>2, <1>8, <2>1 DEF ConfiguredToAllow
<1>9. QED
  BY <1>7, <1>8

\* A native call takes effect only once the permissions are registered, with the
\* native API enabled, if the file allows the method and a client that was given
\* the token is there, for any configuration and any number of pages, extensions
\* and mounts (EffectsArePermitted; main() and executeNativeMethod).
THEOREM EffectsArePermittedHolds == AppSpec => EffectsArePermitted
<1> DEFINE Permitted ==
      mountedPaths' # mountedPaths =>
        /\ Enabled(options, "enableNativeAPI")
        /\ ConfiguredToAllow(<<"server", IF DOMAIN mountedPaths \subseteq DOMAIN mountedPaths'
                                         THEN "mount" ELSE "unmount">>)
        /\ \E c \in Callers : c \in Extensions \/ HasToken(c)
<1>1. AppInv /\ [AppNext]_appVars => [Permitted]_appVars
  <2> SUFFICES ASSUME AppInv, [AppNext]_appVars, mountedPaths' # mountedPaths
               PROVE  Permitted
    OBVIOUS
  <2>1. PICK c \in Pages \cup Extensions : handleMessage(c)
    BY Steps DEF Beside
  <2>2. listening # Null /\ c \in Callers
    BY <2>1 DEF handleMessage
  <2>3. stage \in Served /\ ConfigInv
    BY <2>2 DEF AppInv, ConfigInv
  <2>4. PICK call, r : /\ Answers(r, options, perm, mountedPaths, call)
                       /\ mountedPaths' = r.mounts /\ call.token = Knows(c)
    BY <2>1 DEF handleMessage, Answers
  <2>5. r.mounts # mountedPaths
    BY <2>4
  <2>6. /\ call.token /\ hasAPIAccess(options) /\ hasMethodAccess(perm, call.method)
        /\ \/ /\ call.method = <<"server", "mount">>
              /\ r.mounts = WithMount(mountedPaths, MountPoint(call.path), call.target)
           \/ /\ call.method = <<"server", "unmount">>
              /\ MountPoint(call.path) \in DOMAIN mountedPaths
              /\ r.mounts = WithoutMount(mountedPaths, MountPoint(call.path))
    <3>1. Answers(r, options, perm, mountedPaths, call)
      BY <2>4
    <3>2. QED
      BY <2>5, <3>1, Mounted
  <2>7. call.method = <<"server", IF DOMAIN mountedPaths \subseteq DOMAIN mountedPaths'
                                  THEN "mount" ELSE "unmount">>
    BY <2>4, <2>6 DEF WithMount, WithoutMount
  <2>8. PICK name : /\ name \in {"mount", "unmount"}
                    /\ name = IF DOMAIN mountedPaths \subseteq DOMAIN mountedPaths'
                              THEN "mount" ELSE "unmount"
    OBVIOUS
  <2>9. ConfiguredToAllow(<<"server", name>>)
    <3>1. hasMethodAccess(perm, <<"server", name>>) /\ name # "*"
      BY <2>6, <2>7, <2>8
    <3>2. QED
      BY <2>3, <3>1, AllowedByFile
  <2>10. Enabled(options, "enableNativeAPI")
    BY <2>6 DEF hasAPIAccess
  <2>11. c \in Extensions \/ HasToken(c)
    BY <2>1, <2>4, <2>6 DEF Knows
  <2>12. QED
    BY <2>2, <2>8, <2>9, <2>10, <2>11
<1>2. QED
  BY <1>1, AppInvHolds, PTL DEF AppSpec, EffectsArePermitted

-----------------------------------------------------------------------------
(* Scopes and commands. *)

\* A path is in a scope that is not the root directory if the scope is a prefix.
LEMMA InScope ==
    ASSUME NEW p, NEW s, Len(p) \in Nat
    PROVE  /\ IsPathInScope(p, s) => IsPrefix(s, p)
           /\ IsPrefix(s, p) /\ s # <<>> => IsPathInScope(p, s)
<1>1. IsPrefix(p, p)
  BY DEF IsPrefix
<1>2. QED
  BY <1>1 DEF IsPathInScope, IsStrictPrefix

\* The question that one path of a method is put to, against the file.
LEMMA ScopeOfPath ==
    ASSUME ConfigInv, stage \in Served \cup {"server"}, setup.file = "ok",
           NEW scopes, scopes = FileOption("filesystemScopes"), scopes # Null,
           NEW path \in FilePaths, Expanded[path] = path, NEW wanted \in {"read", "write"}
    PROVE  /\ hasFileSystemPathAccess(perm, path, wanted) => Granted(path, wanted)
           /\ Granted(path, wanted) /\ ~(\E s \in scopes : normalizeScopePath(s.path) = <<>>)
                => hasFileSystemPathAccess(perm, path, wanted)
<1>1. Ready /\ perm = Registered(options)
  BY DEF ConfigInv, Served, Ready
<1>2. getOptionForCurrentMode(options, "filesystemScopes") = scopes
  BY <1>1, FileIsRead DEF FileKeys
<1>3. /\ perm.checkScopes
      /\ perm.readScopes = {normalizeScopePath(s.path) : s \in
                              {x \in scopes : x.perm \in {"read", "read-write"}}}
      /\ perm.writeScopes = {normalizeScopePath(s.path) : s \in
                              {x \in scopes : x.perm \in {"write", "read-write"}}}
  BY <1>1, <1>2, Lists
<1>4. PICK R : R = IF wanted = "write" THEN perm.writeScopes ELSE perm.readScopes
  OBVIOUS
<1>5. \A t : t \in R <=> \E s \in scopes : s.perm \in {wanted, "read-write"} /\ t = normalizeScopePath(s.path)
  BY <1>3, <1>4
<1>6. hasFileSystemPathAccess(perm, path, wanted) <=>
        \E t \in R : IsPathInScope(Canonical[path], t)
  BY <1>3, <1>4 DEF hasFileSystemPathAccess, normalizeScopePath
<1>7. Len(Canonical[path]) \in Nat
  BY PathsAssumption
<1>8. Granted(path, wanted) <=>
        \E s \in scopes : s.perm \in {wanted, "read-write"} /\ IsPrefix(normalizeScopePath(s.path), Canonical[path])
  BY DEF Granted
<1>9. QED
  BY <1>5, <1>6, <1>7, <1>8, InScope

\* The permissions that methods of the file system ask for.
LEMMA Wants ==
    ASSUME NEW method \in DOMAIN FsMethods, NEW i \in DOMAIN FsMethods[method]
    PROVE  FsMethods[method][i] \in {"read", "write"} /\ i \in {1, 2}
BY DEF FsMethods

LEMMA ScopesHoldInv == AppInv => ScopesHold
<1> SUFFICES ASSUME AppInv, Ready, stage # "framework", setup.file = "ok",
                    FileOption("filesystemScopes") # Null,
                    NEW method \in DOMAIN FsMethods, NEW p1 \in FilePaths, NEW p2 \in FilePaths,
                    NEW wants, wants = FsMethods[method],
                    NEW granted, granted = \A i \in DOMAIN wants : Granted(<<p1, p2>>[i], wants[i]),
                    NEW atRoot, atRoot = \E s \in FileOption("filesystemScopes") : normalizeScopePath(s.path) = <<>>,
                    \A i \in DOMAIN wants : Expanded[<<p1, p2>>[i]] = <<p1, p2>>[i]
             PROVE  /\ FsAllowed(perm, method, <<p1, p2>>) => granted
                    /\ granted /\ ~atRoot => FsAllowed(perm, method, <<p1, p2>>)
  BY DEF ScopesHold
<1>1. ConfigInv /\ stage \in Served \cup {"server"}
  BY DEF AppInv, ConfigInv, Ready, Stages, Served
<1>2. ASSUME NEW i \in DOMAIN wants
      PROVE  /\ hasFileSystemPathAccess(perm, <<p1, p2>>[i], wants[i])
                  => Granted(<<p1, p2>>[i], wants[i])
             /\ Granted(<<p1, p2>>[i], wants[i]) /\ ~atRoot
                  => hasFileSystemPathAccess(perm, <<p1, p2>>[i], wants[i])
  <2>1. wants[i] \in {"read", "write"} /\ i \in {1, 2}
    BY Wants
  <2>2. <<p1, p2>>[i] \in FilePaths
    BY <2>1
  <2>3. PICK path, wanted : path = <<p1, p2>>[i] /\ wanted = wants[i]
    OBVIOUS
  <2>4. path \in FilePaths /\ Expanded[path] = path /\ wanted \in {"read", "write"}
    BY <2>1, <2>2, <2>3
  <2>5. /\ hasFileSystemPathAccess(perm, path, wanted) => Granted(path, wanted)
        /\ Granted(path, wanted) /\ ~atRoot => hasFileSystemPathAccess(perm, path, wanted)
    BY <1>1, <2>4, ScopeOfPath
  <2>6. QED
    BY <2>3, <2>5
<1>3. FsAllowed(perm, method, <<p1, p2>>) <=>
        \A i \in DOMAIN wants : hasFileSystemPathAccess(perm, <<p1, p2>>[i], wants[i])
  BY DEF FsAllowed
<1>4. QED
  BY <1>2, <1>3

\* The text of a word in double quotes.
LEMMA WordInQuotes ==
    ASSUME NEW word \in Words, NEW tail, tail = InQuotes(word)
    PROVE  /\ tail \in Seq(Chars) /\ Len(tail) = 2 + Len(word)
           /\ StandsQuoted(tail, 0, word)
<1>1. PICK S : S = Chars
  OBVIOUS
<1>2. word \in Seq(S) /\ Len(word) \in Nat
  <2>1. word \in Seq(Chars \ {"dq"}) /\ Chars \ {"dq"} \subseteq Chars
    BY WordsAssumption
  <2>2. QED
    BY <1>1, <2>1, SeqMonotonic, LenProperties
<1>3. PICK q : q = "dq"
  OBVIOUS
<1>4. q \in S
  BY <1>1, <1>3 DEF Chars
<1>5. PICK one : one = <<q>>
  OBVIOUS
<1>6. one \in Seq(S) /\ Len(one) = 1 /\ one[1] = q
  BY <1>4, <1>5
<1>7. PICK a : Joins(a, one, word)
  BY DEF Joins
<1>8. /\ a \in Seq(S) /\ Len(a) = 1 + Len(word) /\ a[1] = q
      /\ \A i \in 1..Len(word) : a[1 + i] = word[i]
  <2>1. /\ a \in Seq(S) /\ Len(a) = Len(one) + Len(word)
        /\ \A i \in 1..Len(one) : a[i] = one[i]
        /\ \A i \in 1..Len(word) : a[Len(one) + i] = word[i]
    <3>1. one \in Seq(S)
      BY <1>6
    <3>2. QED
      BY <1>2, <1>7, <3>1, Together
  <2>2. QED
    BY <1>2, <1>6, <2>1
<1>9. PICK b : Joins(b, a, one)
  BY DEF Joins
<1>10. /\ b \in Seq(S) /\ Len(b) = Len(a) + Len(one) /\ Len(a) \in Nat
       /\ \A i \in 1..Len(a) : b[i] = a[i]
       /\ \A i \in 1..Len(one) : b[Len(a) + i] = one[i]
  <2>1. one \in Seq(S) /\ a \in Seq(S)
    BY <1>6, <1>8
  <2>2. QED
    BY <1>9, <2>1, Together
<1>11. b = tail
  BY <1>3, <1>5, <1>7, <1>9 DEF Joins, InQuotes
<1>12. Len(b) = 2 + Len(word) /\ b[1] = q /\ b[2 + Len(word)] = q
       /\ \A i \in 1..Len(word) : b[1 + i] = word[i]
  BY <1>2, <1>6, <1>8, <1>10
<1>13. StandsQuoted(b, 0, word)
  <2>1. /\ 0 + 1 = 1 /\ 0 + 2 + Len(word) = 2 + Len(word)
        /\ \A j \in 1..Len(word) : 0 + 1 + j = 1 + j
    BY <1>2
  <2>2. QED
    BY <1>3, <1>12, <2>1 DEF StandsQuoted
<1>14. QED
  BY <1>1, <1>10, <1>11, <1>12, <1>13

\* What tokenizeCommand makes of the commands of CommandsByName.
LEMMA Commands ==
    ASSUME NEW program \in Words, NEW argument \in Words
    PROVE  /\ tokenizeCommand(InQuotes(program) \o <<"sp">> \o InQuotes(argument))
                = <<program, argument>>
           /\ tokenizeCommand(InQuotes(program) \o <<"sp">> \o <<"x", "meta">>) = <<>>
<1>1. PICK S, T : S = Chars /\ T = Chars \ {"dq"}
  OBVIOUS
<1>2. /\ "dq" \in S /\ "sp" \in S /\ "x" \in S /\ "meta" \in S /\ T \subseteq S /\ "dq" \notin T
  BY <1>1 DEF Chars
<1>3. /\ program \in Seq(T) /\ program # <<>> /\ argument \in Seq(T) /\ argument # <<>>
  BY <1>1, WordsAssumption
<1>4. PICK tail : tail = InQuotes(argument)
  OBVIOUS
<1>5. tail \in Seq(S) /\ Len(tail) = 2 + Len(argument) /\ StandsQuoted(tail, 0, argument)
  BY <1>1, <1>4, WordInQuotes
<1>6. PICK s : IsCommand(s, "dq", "sp", program, tail)
  BY DEF IsCommand
<1>7. tokenizeCommand(s) = <<program, argument>>
  BY <1>2, <1>3, <1>5, <1>6, QuotedCommand
<1>8. s = InQuotes(program) \o <<"sp">> \o InQuotes(argument)
  BY <1>4, <1>6 DEF IsCommand, InQuotes
<1>9. PICK meta : meta = <<"x", "meta">>
  OBVIOUS
<1>10. meta \in Seq(S) /\ IsMeta(meta)
  BY <1>2, <1>9 DEF IsMeta
<1>11. PICK z : IsCommand(z, "dq", "sp", program, meta)
  BY DEF IsCommand
<1>12. tokenizeCommand(z) = <<>>
  BY <1>2, <1>3, <1>10, <1>11, MetaCommand
<1>13. z = InQuotes(program) \o <<"sp">> \o <<"x", "meta">>
  BY <1>9, <1>11 DEF IsCommand, InQuotes
<1>14. QED
  BY <1>7, <1>8, <1>12, <1>13

LEMMA CommandsByNameInv == CommandsByName
<1> SUFFICES ASSUME perm.checkCommand, perm.commandPatterns # {},
                    NEW program \in Words, NEW argument \in Words
             PROVE  /\ tokenizeCommand(InQuotes(program) \o <<"sp">> \o InQuotes(argument))
                          = <<program, argument>>
                    /\ hasCommandExecutionAccess(perm, InQuotes(program) \o <<"sp">> \o InQuotes(argument))
                          <=> program \in perm.commandPatterns \/ <<"*">> \in perm.commandPatterns
                    /\ ~hasCommandExecutionAccess(perm, InQuotes(program) \o <<"sp">> \o <<"x", "meta">>)
  BY DEF CommandsByName
<1>1. PICK s, z : /\ s = InQuotes(program) \o <<"sp">> \o InQuotes(argument)
                  /\ z = InQuotes(program) \o <<"sp">> \o <<"x", "meta">>
  OBVIOUS
<1>2. tokenizeCommand(s) = <<program, argument>> /\ tokenizeCommand(z) = <<>>
  BY <1>1, Commands
<1>3. <<program, argument>> # <<>> /\ <<program, argument>>[1] = program
  OBVIOUS
<1>4. hasCommandExecutionAccess(perm, s)
        <=> program \in perm.commandPatterns \/ <<"*">> \in perm.commandPatterns
  BY <1>2, <1>3 DEF hasCommandExecutionAccess
<1>5. ~hasCommandExecutionAccess(perm, z)
  BY <1>2 DEF hasCommandExecutionAccess
<1>6. QED
  BY <1>1, <1>2, <1>4, <1>5

\* The lists of scopes and of commands mean what they say, for any configuration,
\* paths as they are written, links and words of any length (ListsHold; hasFileSystemPathAccess,
\* hasCommandExecutionAccess and helpers::tokenizeCommand).
THEOREM ListsHoldHolds == AppSpec => []ListsHold
<1>1. AppInv => ListsHold
  BY ScopesHoldInv, CommandsByNameInv DEF ListsHold
<1>2. QED
  BY <1>1, AppInvHolds, PTL
-----------------------------------------------------------------------------
(* Byte ranges. *)

\* What is read of a file from a position inside it: up to the last byte asked
\* for or to the end, also where the number of bytes wraps around.
LEMMA BytesRead ==
    ASSUME NEW size \in 0..MaxLL, NEW first \in 0..MaxLL, first < size,
           NEW last \in 0..MaxLL \cup {Null}, NEW end,
           end = IF last = Null \/ last < first THEN size - 1
                 ELSE IF last < size - 1 THEN last ELSE size - 1
    PROVE  /\ end \in first..size - 1
           /\ applyFileReaderOptions(size, getFileReaderOptions(first, last))
                = [pos |-> first, size |-> end - first + 1]
<1>1. MaxLL \in Nat /\ Null \notin Int
  BY RangesAssumption, NullAssumption
<1>2. PICK o : o = getFileReaderOptions(first, last)
  OBVIOUS
<1>3. o.pos = first
  BY <1>2 DEF getFileReaderOptions
<1>4. CASE last = Null \/ last < first
  <2>1. o.size = -1
    BY <1>1, <1>2, <1>4 DEF getFileReaderOptions
  <2>2. QED
    BY <1>1, <1>2, <1>3, <1>4, <2>1 DEF applyFileReaderOptions
<1>5. CASE last # Null /\ last >= first
  <2>1. last \in 0..MaxLL /\ ~(last < first)
    BY <1>1, <1>5
  <2>2. o.size = Wrapped(last - first + 1)
    BY <1>2, <1>5 DEF getFileReaderOptions
  <2>3. CASE last - first + 1 > MaxLL
    <3>1. first = 0 /\ last = MaxLL /\ o.size = -(MaxLL + 1)
      BY <1>1, <2>1, <2>2, <2>3 DEF Wrapped
    <3>2. end = size - 1
      BY <1>1, <1>5, <3>1
    <3>3. QED
      BY <1>1, <1>2, <1>3, <3>1, <3>2 DEF applyFileReaderOptions
  <2>4. CASE ~(last - first + 1 > MaxLL)
    <3>1. o.size = last - first + 1
      BY <2>2, <2>4 DEF Wrapped
    <3>2. end = IF last < size - 1 THEN last ELSE size - 1
      BY <1>1, <1>5, <2>1
    <3>3. QED
      BY <1>1, <1>2, <1>3, <2>1, <3>1, <3>2 DEF applyFileReaderOptions
  <2>5. QED
    BY <2>3, <2>4
<1>6. QED
  BY <1>1, <1>4, <1>5

\* The answer to a range holds exactly the bytes asked for and says so, for every
\* size of a file and every pair of numbers a long long can hold, the one whose
\* length wraps around included; the globals before the client library are the
\* one thing its headers do not count (RangeIsExact, a part of AnswersAreRight;
\* __getFileReaderOptionsFromHeaders, readFile and getAsset).
THEOREM RangesExact == AppSpec => []RangeIsExact
<1>1. ASSUME NEW size \in Sizes, NEW first \in Offsets, NEW last \in Offsets \cup {Null},
             NEW prependData \in {<<>>, <<"globals">>}
      PROVE  RangeIsAnswered(size, first, last, prependData)
  <2>1. PICK end, a :
           /\ end = IF last = Null \/ last < first THEN size - 1
                    ELSE IF last < size - 1 THEN last ELSE size - 1
           /\ a = RangeAnswer(size, getFileReaderOptions(first, last), prependData)
    OBVIOUS
  <2>2. /\ MaxLL \in Nat /\ size \in 0..MaxLL /\ first \in 0..MaxLL
        /\ last \in 0..MaxLL \cup {Null}
    BY RangesAssumption
  <2>3. PICK o : o = getFileReaderOptions(first, last)
    OBVIOUS
  <2>4. o.pos = first
    BY <2>3 DEF getFileReaderOptions
  <2>5. PICK g, S : g = "globals" /\ S = Int \cup {g}
    OBVIOUS
  <2>6. prependData \in Seq(S) /\ Len(prependData) \in Nat
    <3>1. prependData = <<>> \/ prependData = <<g>>
      BY <2>5
    <3>2. <<>> \in Seq(S) /\ <<g>> \in Seq(S)
      BY <2>5, EmptySeq, Singleton
    <3>3. prependData \in Seq(S)
      BY <3>1, <3>2
    <3>4. QED
      BY <3>3, LenProperties
  <2>7. CASE first < size
    <3>1. end \in first..size - 1
          /\ applyFileReaderOptions(size, o) = [pos |-> first, size |-> end - first + 1]
      BY <2>1, <2>2, <2>3, <2>7, BytesRead
    <3>2. PICK bytes : bytes = [i \in 1..(end - first + 1) |-> first + i - 1]
      OBVIOUS
    <3>3. PICK read, body : /\ read = applyFileReaderOptions(size, o)
                            /\ body = prependData \o [i \in 1..read.size |-> read.pos + i - 1]
      OBVIOUS
    <3>4. read.pos = first /\ read.size = end - first + 1
      BY <3>1, <3>3
    <3>5. body = prependData \o bytes
      BY <3>2, <3>3, <3>4
    <3>6. ~(o.pos >= size)
      BY <2>2, <2>4, <2>7
    <3>7. a = [status |-> 206, first |-> o.pos, last |-> o.pos + read.size - 1,
               body |-> body, length |-> read.size]
      BY <2>1, <2>3, <3>3, <3>6, Zenon DEF RangeAnswer
    <3>8. bytes \in Seq(Int) /\ Len(bytes) = end - first + 1
      <4>1. PICK n \in Nat : n = end - first + 1
        BY <2>2, <3>1
      <4>2. bytes = [i \in 1..n |-> first + i - 1] /\ first \in Int
        BY <2>2, <3>2, <4>1
      <4>3. bytes \in Seq(Int) /\ Len(bytes) = n
        BY <4>2
      <4>4. QED
        BY <4>1, <4>3
    <3>9. Len(body) = Len(prependData) + Len(bytes)
      <4>1. bytes \in Seq(S)
        BY <2>5, <3>8, SeqMonotonic
      <4>2. QED
        BY <2>6, <3>5, <4>1, ConcatProperties
    <3>10. /\ a.status = 206 /\ a.first = o.pos /\ a.last = o.pos + read.size - 1
           /\ a.body = body /\ a.length = read.size
      BY <3>7
    <3>11. end \in Int /\ first \in Int
      BY <2>2, <3>1
    <3>12. a.first = first /\ a.last = end
      BY <2>4, <3>4, <3>10, <3>11
    <3>13. a.length = Len(a.body) - Len(prependData)
      BY <2>6, <3>4, <3>8, <3>9, <3>10, <3>11
    <3>14. QED
      BY <2>7, <2>1, <3>2, <3>5, <3>10, <3>12, <3>13, Zenon DEF RangeIsAnswered
  <2>8. CASE ~(first < size)
    <3>1. o.pos >= size
      BY <2>2, <2>4, <2>8
    <3>2. a = [status |-> 416, first |-> 0, last |-> 0, body |-> prependData, length |-> 0]
      BY <2>1, <2>3, <3>1, Zenon DEF RangeAnswer
    <3>3. a.status = 416 /\ a.body = prependData /\ a.length = 0
      BY <3>2
    <3>4. QED
      BY <2>6, <2>8, <2>1, <3>3 DEF RangeIsAnswered
  <2>9. QED
    BY <2>7, <2>8
<1>2. RangeIsExact
  BY <1>1, Zenon DEF RangeIsExact
<1>3. QED
  BY <1>2, PTL

-----------------------------------------------------------------------------
(* The answers. *)

\* getAsset answers with what it reads first, or with the main page.
LEMMA AssetFirst ==
    ASSUME NEW o, NEW mode, NEW mounts, NEW p, NEW path, NEW r,
           path = Indexed(p), r = ReadAsset(o, mode, mounts, path),
           ~FallsBack(o, path, r.got) \/ MainPage(o) = path
    PROVE  getAsset(o, mode, mounts, p) = r
  BY DEF getAsset

LEMMA AssetSecond ==
    ASSUME NEW o, NEW mode, NEW mounts, NEW p, NEW path, NEW main, NEW r,
           path = Indexed(p), FallsBack(o, path, ReadAsset(o, mode, mounts, path).got),
           MainPage(o) # path,
           main = Indexed(MainPage(o)), r = ReadAsset(o, mode, mounts, main),
           ~FallsBack(o, main, r.got) \/ MainPage(o) = main
    PROVE  getAsset(o, mode, mounts, p) = r
  BY DEF getAsset

\* Mounted paths are texts that are not empty (MountPoint).
MountTexts(mounts) == \A m \in DOMAIN mounts : m \in Texts /\ m # <<>>

\* Of two prefixes of the same length there is only one.
LEMMA MountForIs ==
    ASSUME NEW mounts, MountTexts(mounts), NEW q \in Texts, NEW m \in MountsOf(mounts, q),
           \A n \in MountsOf(mounts, q) : Len(m) <= Len(n)
    PROVE  MountFor(mounts, q) = m
<1>1. PICK x : x = MountFor(mounts, q)
  OBVIOUS
<1>2. x \in MountsOf(mounts, q) /\ \A n \in MountsOf(mounts, q) : Len(x) <= Len(n)
  BY <1>1 DEF MountFor
<1>3. /\ x \in Seq(STRING) /\ m \in Seq(STRING) /\ q \in Seq(STRING)
      /\ IsPrefix(x, q) /\ IsPrefix(m, q)
  BY <1>2 DEF MountsOf, MountTexts, Texts
<1>4. Len(x) <= Len(m) /\ Len(m) <= Len(x)
  BY <1>2
<1>5. Len(x) = Len(m)
  BY <1>3, <1>4, LenProperties
<1>6. /\ \A i \in 1..Len(x) : x[i] = q[i]
      /\ \A i \in 1..Len(m) : m[i] = q[i]
  BY <1>3, PrefixIs
<1>7. x = m
  BY <1>3, <1>5, <1>6, SeqEqual
<1>8. QED
  BY <1>1, <1>7

\* A file below a mounted path.
LEMMA BelowIsFile ==
    ASSUME NEW m \in Texts, m # <<>>, NEW file \in NamesOver(STRING), file # <<>>,
           NEW resource, resource = (IF m = <<Slash>> THEN <<>> ELSE m) \o NameOf(file)
    PROVE  /\ resource \in Texts /\ IsPrefix(m, resource)
           /\ Below(m, resource) \in Texts /\ Below(m, resource) # <<>>
           /\ ~EndsInSlash(Below(m, resource)) /\ Segments(Below(m, resource)) = file
<1>1. PICK f : f = NameOf(file)
  OBVIOUS
<1>2. f \in Seq(STRING) /\ f # <<>> /\ f[1] = Slash /\ f[Len(f)] # Slash /\ Segments(f) = file
  BY <1>1, NameIsFile DEF Named, Texts
<1>3. ~EndsInSlash(f) /\ Slash \in STRING /\ m \in Seq(STRING)
  BY <1>2, LiteralsAssumption DEF EndsInSlash, Last, Texts
<1>4. CASE m = <<Slash>>
  <2>1. resource = f
    <3>1. resource = <<>> \o f
      BY <1>1, <1>4
    <3>2. QED
      BY <1>2, <3>1, ConcatEmptySeq
  <2>2. IsPrefix(m, f)
    <3>1. Len(m) = 1 /\ m[1] = Slash
      BY <1>4
    <3>2. Len(m) <= Len(f)
      BY <1>2, <3>1, EmptySeq, LenProperties
    <3>3. \A i \in 1..Len(m) : m[i] = f[i]
      BY <1>2, <3>1
    <3>4. QED
      BY <1>2, <1>3, <3>2, <3>3, PrefixIs
  <2>3. m \o SubSeq(f, Len(m) + 1, Len(f)) = f
    BY <1>2, <1>3, <2>2, BeginningAndRest
  <2>4. Below(m, f) = f
    BY <1>4, <2>3 DEF Below
  <2>5. QED
    BY <1>2, <1>3, <2>1, <2>2, <2>4 DEF Texts
<1>5. CASE m # <<Slash>>
  <2>1. resource = m \o f
    BY <1>1, <1>5
  <2>2. resource \in Seq(STRING) /\ IsPrefix(m, resource)
    BY <1>2, <1>3, <2>1, RestOfJoin, ConcatProperties
  <2>3. SubSeq(resource, Len(m) + 1, Len(resource)) = f
    BY <1>2, <1>3, <2>1, RestOfJoin
  <2>4. PICK b : b = <<Slash>> \o f
    OBVIOUS
  <2>5. Below(m, resource) = b
    BY <2>3, <2>4 DEF Below
  <2>6. PICK e : e = <<>>
    OBVIOUS
  <2>7. e \in Seq(STRING) /\ Append(e, Slash) = <<Slash>>
    <3>1. e \in Seq(STRING)
      BY <2>6, EmptySeq
    <3>2. QED
      BY <2>6, <3>1
  <2>8. Segments(b) = Segments(e) \o Segments(f)
    <3>1. Segments(Append(e, Slash) \o f) = Segments(e) \o Segments(f)
      BY <1>2, <1>3, <2>7, SplitBoth
    <3>2. QED
      BY <2>4, <2>7, <3>1
  <2>9. Segments(e) = e
    BY <2>6, SplitEmpty DEF NoNames, Segments, NamesRead
  <2>10. e \o file = file
    BY <2>6, ConcatEmptySeq DEF NamesOver
  <2>11. Segments(b) = file
    BY <1>2, <2>8, <2>9, <2>10
  <2>12. b \in Seq(STRING) /\ Len(b) = 1 + Len(f) /\ b[1 + Len(f)] = f[Len(f)]
    <3>1. PICK y : y = <<Slash>>
      OBVIOUS
    <3>2. y \in Seq(STRING)
      BY <1>3, <3>1, Singleton
    <3>3. Len(y) = 1 /\ Len(f) \in Nat /\ Len(f) # 0
      BY <1>2, <3>1, EmptySeq, LenProperties
    <3>4. b = y \o f
      BY <2>4, <3>1
    <3>5. b \in Seq(STRING) /\ Len(b) = Len(y) + Len(f)
      BY <1>2, <3>2, <3>4, ConcatProperties
    <3>6. \A i \in 1..Len(y) + Len(f) : b[i] = IF i <= Len(y) THEN y[i] ELSE f[i - Len(y)]
      BY <1>2, <3>2, <3>4, ConcatProperties
    <3>7. b[1 + Len(f)] = f[(1 + Len(f)) - 1]
      BY <3>3, <3>6
    <3>8. QED
      BY <3>3, <3>5, <3>7
  <2>13. Len(f) \in Nat
    BY <1>2, LenProperties
  <2>14. b # <<>> /\ b[Len(b)] # Slash
    BY <1>2, <2>12, <2>13
  <2>15. QED
    BY <2>2, <2>5, <2>11, <2>12, <2>14 DEF EndsInSlash, Last, Texts
<1>6. QED
  BY <1>4, <1>5

\* A path that begins with a '/' is read as it is, in the bundle or on disk.
LEMMA GetFile ==
    ASSUME NEW mode, NEW path, path # <<>>, path[1] = Slash
    PROVE  \/ getFile(mode, path) = seekFilePos(Resources, path)
           \/ getFile(mode, path) = readFile(Resources, path)
  BY DEF getFile, joinAppPath

LEMMA FoundIsFile ==
    ASSUME NEW o, NEW path, NEW file PROVE ~FallsBack(o, path, Found(file))
  BY DEF FallsBack, Found

LEMMA MountedServes ==
    ASSUME TextOptions(options), MountTexts(mountedPaths), Serves
    PROVE  MountedIsServed
<1>1. ASSUME NEW m \in DOMAIN mountedPaths, NEW t \in DOMAIN TargetFiles,
             NEW file \in TargetFiles[t], NEW resource,
             resource = (IF m = <<Slash>> THEN <<>> ELSE m) \o NameOf(file),
             mountedPaths[m] = t, HasDot(resource),
             \A n \in MountsOf(mountedPaths, resource) : Len(m) <= Len(n)
      PROVE  Answer(resMode, resource) = [from |-> t, got |-> Found(file)]
  <2>1. IsTree(TargetFiles[t]) /\ file \in NamesOver(STRING) /\ file # <<>>
    BY FilesAssumption, TreeFiles
  <2>2. m \in Texts /\ m # <<>>
    BY DEF MountTexts
  <2>3. /\ resource \in Texts /\ IsPrefix(m, resource)
        /\ Below(m, resource) \in Texts /\ Below(m, resource) # <<>>
        /\ ~EndsInSlash(Below(m, resource)) /\ Segments(Below(m, resource)) = file
    BY <1>1, <2>1, <2>2, BelowIsFile
  <2>4. m \in MountsOf(mountedPaths, resource)
    BY <2>3 DEF MountsOf
  <2>5. MountFor(mountedPaths, resource) = m
    BY <1>1, <2>3, <2>4, MountForIs
  <2>6. PICK p : p = Requested(options, resource)
    OBVIOUS
  <2>7. Pathname(options, p) = resource /\ p \in Texts
    BY <2>3, <2>6, PathnameIs DEF Requested
  <2>8. HasDot(p)
    <3>1. PICK i \in DOMAIN resource :
             resource[i] \in Dotted \/ (resource[i] \in DotEnds /\ i < Len(resource))
      BY <1>1 DEF HasDot
    <3>2. PICK d : d = getDocumentRoot(options)
      OBVIOUS
    <3>3. d \in Seq(STRING) /\ resource \in Seq(STRING) /\ p = d \o resource
      BY <2>3, <2>6, <3>2, RootIs DEF Texts, Requested
    <3>4. i \in 1..Len(resource) /\ Len(d) \in Nat /\ Len(resource) \in Nat
      BY <3>1, <3>3, LenProperties
    <3>5. /\ Len(d) + i \in DOMAIN p /\ p[Len(d) + i] = resource[i]
          /\ i < Len(resource) => Len(d) + i < Len(p)
      BY <3>3, <3>4
    <3>6. QED
      BY <3>1, <3>5 DEF HasDot
  <2>9. Indexed(p) = p
    BY <2>8 DEF Indexed
  <2>10. readFile(TargetFiles[t], Below(m, resource)) = Found(file)
    BY <2>1, <2>3, FileRead
  <2>11. PICK r : r = ReadAsset(options, resMode, mountedPaths, p)
    OBVIOUS
  <2>12. r = [from |-> t, got |-> Found(file)]
    BY <1>1, <2>4, <2>5, <2>7, <2>10, <2>11 DEF ReadAsset
  <2>13. ~FallsBack(options, p, r.got)
    BY <2>12, FoundIsFile
  <2>14. getAsset(options, resMode, mountedPaths, p) = r
    BY <2>9, <2>11, <2>13, AssetFirst
  <2>15. QED
    BY <2>6, <2>12, <2>14 DEF Answer
<1>2. ASSUME NEW file \in Resources, NEW root, root = getDocumentRoot(options), NEW resource,
             resource = SubSeq(NameOf(file), Len(root) + 1, Len(NameOf(file))),
             IsPrefix(root, NameOf(file)), HasDot(NameOf(file)),
             MountsOf(mountedPaths, resource) = {}
      PROVE  Answer(resMode, resource) = [from |-> "resources", got |-> Found(file)]
  <2>1. IsTree(Resources) /\ file \in NamesOver(STRING) /\ file # <<>>
    BY FilesAssumption, TreeFiles
  <2>2. PICK f : f = NameOf(file)
    OBVIOUS
  <2>3. f \in Texts /\ f # <<>> /\ f[1] = Slash /\ Segments(f) = file /\ ~EndsInSlash(f)
    BY <2>1, <2>2, NameIsFile DEF Named, EndsInSlash, Last
  <2>4. root \in Texts
    BY <1>2, RootIs
  <2>5. resource \in Texts /\ root \o resource = f
    BY <1>2, <2>2, <2>3, <2>4, BeginningAndRest DEF Texts
  <2>6. Requested(options, resource) = f
    BY <1>2, <2>5 DEF Requested
  <2>7. Pathname(options, f) = resource
    BY <1>2, <2>5, PathnameIs
  <2>8. Indexed(f) = f
    BY <1>2, <2>2 DEF Indexed
  <2>9. getFile(resMode, f) = Found(file)
    BY <2>1, <2>3, FileRead, GetFile
  <2>10. PICK r : r = ReadAsset(options, resMode, mountedPaths, f)
    OBVIOUS
  <2>11. r = [from |-> "resources", got |-> Found(file)]
    BY <1>2, <2>7, <2>9, <2>10 DEF ReadAsset
  <2>12. ~FallsBack(options, f, r.got)
    BY <2>11, FoundIsFile
  <2>13. getAsset(options, resMode, mountedPaths, f) = r
    BY <2>8, <2>10, <2>12, AssetFirst
  <2>14. QED
    BY <2>6, <2>11, <2>13 DEF Answer
<1>3. QED
  BY <1>1, <1>2 DEF MountedIsServed
-----------------------------------------------------------------------------
\* Where a request is looked for: below the document root.
LEMMA RequestIs ==
    ASSUME TextOptions(options), NEW resource \in Requests
    PROVE  LET p == Requested(options, resource)
               d == getDocumentRoot(options)
           IN /\ p \in Texts
              /\ \E rest \in Texts : Indexed(p) = Append(d, Slash) \o rest
<1>1. PICK p, d : p = Requested(options, resource) /\ d = getDocumentRoot(options)
  OBVIOUS
<1>2. resource \in Seq(STRING) /\ resource # <<>> /\ resource[1] = Slash
  BY RequestsAssumption DEF Texts
<1>3. d \in Seq(STRING) /\ p = d \o resource /\ p \in Seq(STRING) /\ Slash \in STRING
  BY <1>1, <1>2, RootIs, PathnameIs, LiteralsAssumption DEF Requested, Texts
<1>4. PICK b : b = Append(d, Slash)
  OBVIOUS
<1>5. PICK y : y = <<Slash>>
  OBVIOUS
<1>6. y \in Seq(STRING) /\ b \in Seq(STRING) /\ b = d \o y
  BY <1>3, <1>4, <1>5, Singleton, AppendProperties, AppendIsConcat
<1>7. IsPrefix(y, resource)
  <2>1. Len(y) = 1 /\ y[1] = Slash
    BY <1>5
  <2>2. Len(y) <= Len(resource)
    BY <1>2, <2>1, EmptySeq, LenProperties
  <2>3. \A i \in 1..Len(y) : y[i] = resource[i]
    BY <1>2, <2>1
  <2>4. QED
    BY <1>2, <1>6, <2>2, <2>3, PrefixIs
<1>8. PICK rest \in Seq(STRING) : y \o rest = resource
  BY <1>2, <1>6, <1>7, BeginningAndRest
<1>9. p = b \o rest
  <2>3. PICK T : T = STRING
    OBVIOUS
  <2>4. d \in Seq(T) /\ y \in Seq(T) /\ rest \in Seq(T)
    BY <1>3, <1>6, <1>8, <2>3
  <2>1. (d \o y) \o rest = d \o (y \o rest)
    BY <2>4, ConcatAssociative
  <2>2. QED
    BY <1>3, <1>6, <1>8, <2>1
<1>10. PICK path : path = Indexed(p)
  OBVIOUS
<1>11. \E more \in Seq(STRING) : path = b \o more
  <2>1. CASE path = p
    BY <1>8, <1>9, <2>1
  <2>2. CASE path = Append(p, Index)
    <3>1. Append(rest, Index) \in Seq(STRING) /\ b \o Append(rest, Index) = Append(b \o rest, Index)
      BY <1>6, <1>8, LiteralsAssumption, JoinAppend, AppendProperties
    <3>2. QED
      BY <1>9, <2>2, <3>1
  <2>3. CASE path = Append(Append(p, Slash), Index)
    <3>1. PICK u : u = Append(rest, Slash)
      OBVIOUS
    <3>5. u \in Seq(STRING) /\ b \o u = Append(b \o rest, Slash)
      <4>1. PICK T : T = STRING
        OBVIOUS
      <4>2. b \in Seq(T) /\ rest \in Seq(T) /\ Slash \in T
        BY <1>3, <1>6, <1>8, <4>1
      <4>3. Append(rest, Slash) \in Seq(T)
        BY <4>2, AppendProperties
      <4>4. b \o Append(rest, Slash) = Append(b \o rest, Slash)
        BY <4>2, JoinAppend
      <4>5. QED
        BY <3>1, <4>1, <4>3, <4>4
    <3>2. u \in Seq(STRING) /\ b \o u = Append(p, Slash)
      BY <1>9, <3>5
    <3>3. Append(u, Index) \in Seq(STRING) /\ b \o Append(u, Index) = Append(b \o u, Index)
      BY <1>6, <3>2, LiteralsAssumption, JoinAppend, AppendProperties
    <3>4. QED
      BY <2>3, <3>2, <3>3
  <2>4. QED
    BY <1>10, <2>1, <2>2, <2>3 DEF Indexed
<1>12. QED
  BY <1>1, <1>3, <1>4, <1>10, <1>11 DEF Texts

LEMMA BothModes ==
    ASSUME NEW path \in Texts, path # <<>>, MeansTheSame(path)
    PROVE  ReadAsset(options, "bundle", mountedPaths, path)
              = ReadAsset(options, "directory", mountedPaths, path)
<1>1. seekFilePos(Resources, path) = readFile(Resources, path)
  BY FilesAssumption, FilesAgree DEF BeyondFile, MeansTheSame
<1>2. getFile("bundle", path) = getFile("directory", path)
  BY <1>1 DEF getFile, joinAppPath, MeansTheSame
<1>3. QED
  BY <1>2 DEF ReadAsset

LEMMA BothAnswer ==
    ASSUME TextOptions(options), Serves
    PROVE  ModesAgree
<1>1. SUFFICES ASSUME Enabled(options, "singlePageServe") => MeansTheSame(Indexed(MainPage(options))),
                      NEW resource \in Requests,
                      MeansTheSame(Indexed(Requested(options, resource)))
               PROVE  Answer("bundle", resource) = Answer("directory", resource)
  BY DEF ModesAgree
<1>2. PICK p, path, main : /\ p = Requested(options, resource) /\ path = Indexed(p)
                           /\ main = Indexed(MainPage(options))
  OBVIOUS
<1>3. path \in Texts /\ path # <<>> /\ main \in Texts /\ main # <<>>
  BY <1>2, RequestIs, IndexedIs, MainIs
<1>4. ReadAsset(options, "bundle", mountedPaths, path)
         = ReadAsset(options, "directory", mountedPaths, path)
  BY <1>1, <1>2, <1>3, BothModes
<1>5. getAsset(options, "bundle", mountedPaths, p) = getAsset(options, "directory", mountedPaths, p)
  <2>1. CASE Enabled(options, "singlePageServe")
    <3>1. ReadAsset(options, "bundle", mountedPaths, main)
             = ReadAsset(options, "directory", mountedPaths, main)
      BY <1>1, <1>2, <1>3, <2>1, BothModes
    <3>2. QED
      BY <1>2, <1>4, <3>1, Zenon DEF getAsset
  <2>2. CASE ~Enabled(options, "singlePageServe")
    <3>1. \A got : ~FallsBack(options, path, got)
      BY <2>2 DEF FallsBack
    <3>2. ASSUME NEW mode
          PROVE  getAsset(options, mode, mountedPaths, p) = ReadAsset(options, mode, mountedPaths, path)
      BY <1>2, <3>1, AssetFirst
    <3>3. QED
      BY <1>4, <3>2
  <2>3. QED
    BY <2>1, <2>2
<1>6. QED
  BY <1>2, <1>5 DEF Answer

LEMMA MainServes ==
    ASSUME TextOptions(options), resMode \in ResModes
    PROVE  SpaServesMain
<1>1. SUFFICES
        ASSUME Enabled(options, "singlePageServe"), RootOf(options) # Null,
               Segments(MainPage(options)) \in Resources, NEW resource \in Requests,
               EndsInSlash(RootOf(options)), ~HasDot(Requested(options, resource)),
               MountsOf(mountedPaths, Pathname(options, Indexed(Requested(options, resource)))) = {},
               MountsOf(mountedPaths, <<Slash, Index>>) = {},
               ~BeyondFile(Indexed(Requested(options, resource))),
               ~IsDirectory(Resources, Append(Segments(Requested(options, resource)), <<Index>>)),
               resMode = "directory" => /\ RootOf(options)[1] = Slash
                                        /\ Plain(Segments(Indexed(Requested(options, resource))))
        PROVE  LET own == Append(Segments(Requested(options, resource)), <<Index>>)
               IN Answer(resMode, resource).got =
                    Found(IF own \in Resources THEN own ELSE Segments(MainPage(options)))
  BY DEF SpaServesMain, RootOf
<1>2. PICK p, path, main, d, own :
        /\ p = Requested(options, resource) /\ path = Indexed(p) /\ main = MainPage(options)
        /\ d = getDocumentRoot(options) /\ own = Append(Segments(p), <<Index>>)
  OBVIOUS
<1>3. /\ p \in Texts /\ path \in Texts /\ path # <<>> /\ Segments(path) = own
      /\ Last(path) = Index /\ ~EndsInSlash(path)
  BY <1>1, <1>2, RequestIs, IndexedIs
<1>4. IsTree(Resources) /\ \A f \in Resources : ~IsStrictPrefix(f, Segments(path))
  BY <1>1, <1>2, FilesAssumption DEF BeyondFile
<1>5. path[1] = RootOf(options)[1] /\ main[1] = RootOf(options)[1]
  <2>1. PICK root : root = RootOf(options)
    OBVIOUS
  <2>2. root = Append(d, Slash) /\ root \in Seq(STRING) /\ Len(root) \in Nat \ {0}
    <3>1. root = Append(d, Slash) /\ root \in Seq(STRING) /\ root # <<>>
      BY <1>1, <1>2, <2>1, RootIs DEF TextOptions, Texts, EndsInSlash
    <3>2. QED
      BY <3>1, EmptySeq, LenProperties
  <2>3. PICK rest \in Seq(STRING) : path = root \o rest
    BY <1>2, <2>2, RequestIs DEF Texts
  <2>4. path[1] = root[1]
    BY <2>2, <2>3, ConcatProperties
  <2>5. main = Append(root, Index)
    BY <1>1, <1>2, <2>1, MainIs
  <2>6. main[1] = root[1]
    BY <2>2, <2>5
  <2>7. QED
    BY <2>1, <2>4, <2>6
<1>6. /\ own \in Resources => getFile(resMode, path) = Found(own)
      /\ own \notin Resources => getFile(resMode, path) = Missing
  <2>1. /\ Plain(Segments(path)) => readFile(Resources, path) = seekFilePos(Resources, path)
        /\ own \in Resources => seekFilePos(Resources, path) = Found(own)
        /\ ~There(Resources, own) => seekFilePos(Resources, path) = Missing
    BY <1>3, <1>4, FilesAgree
  <2>2. own \notin Resources => ~There(Resources, own)
    BY <1>1, <1>2 DEF There
  <2>3. CASE resMode = "directory"
    BY <1>1, <1>2, <1>3, <1>5, <2>1, <2>2, <2>3, GetFile
  <2>4. CASE resMode # "directory"
    <3>1. getFile(resMode, path) = seekFilePos(Resources, path)
      BY <2>4 DEF getFile, ResModes
    <3>2. QED
      BY <2>1, <2>2, <3>1
  <2>5. QED
    BY <2>3, <2>4
<1>7. PICK r : r = ReadAsset(options, resMode, mountedPaths, path)
  OBVIOUS
<1>8. r = [from |-> "resources", got |-> getFile(resMode, path)]
  BY <1>1, <1>2, <1>7 DEF ReadAsset
<1>9. CASE own \in Resources
  <2>1. r.got = Found(own)
    BY <1>6, <1>8, <1>9
  <2>2. getAsset(options, resMode, mountedPaths, p) = r
    BY <1>2, <1>7, <2>1, FoundIsFile, AssetFirst
  <2>3. QED
    BY <1>2, <1>9, <2>1, <2>2 DEF Answer
<1>10. CASE own \notin Resources
  <2>1. FallsBack(options, path, r.got)
    BY <1>1, <1>3, <1>6, <1>8, <1>10 DEF FallsBack, Missing
  <2>2. main # path
    BY <1>1, <1>2, <1>3, <1>10
  <2>3. main \in Texts /\ main # <<>> /\ ~EndsInSlash(main) /\ Indexed(main) = main
    BY <1>1, <1>2, MainIs
  <2>4. Pathname(options, main) = <<Slash, Index>>
    <3>1. d \in Seq(STRING) /\ Slash \in STRING /\ Index \in STRING
      BY <1>2, RootIs, LiteralsAssumption DEF Texts
    <3>2. main = Append(Append(d, Slash), Index)
      BY <1>1, <1>2, RootIs, MainIs
    <3>3. PICK y, z : y = <<Slash>> /\ z = <<Slash, Index>>
      OBVIOUS
    <3>4. y \in Seq(STRING) /\ z = Append(y, Index) /\ z \in Seq(STRING)
      <4>1. y \in Seq(STRING)
        BY <3>1, <3>3, Singleton, Zenon
      <4>2. z = Append(y, Index)
        BY <3>3
      <4>3. Append(y, Index) \in Seq(STRING)
        BY <3>1, <4>1, AppendProperties, Zenon
      <4>4. QED
        BY <4>1, <4>2, <4>3
    <3>5. Append(d, Slash) = d \o y
      BY <3>1, <3>3, AppendIsConcat
    <3>6. d \o Append(y, Index) = Append(d \o y, Index)
      <4>1. PICK T : T = STRING
        OBVIOUS
      <4>2. d \in Seq(T) /\ y \in Seq(T) /\ Index \in T
        BY <3>1, <3>4, <4>1
      <4>3. QED
        BY <4>2, JoinAppend
    <3>7. main = d \o z
      BY <3>2, <3>4, <3>5, <3>6
    <3>8. QED
      BY <1>2, <3>3, <3>4, <3>7, PathnameIs DEF Texts
  <2>5. getFile(resMode, main) = Found(Segments(main))
    <3>1. /\ seekFilePos(Resources, main) = Found(Segments(main))
          /\ readFile(Resources, main) = Found(Segments(main))
      BY <1>1, <1>2, <1>4, <2>3, FileRead
    <3>2. CASE resMode = "directory"
      BY <1>1, <1>5, <2>3, <3>1, <3>2, GetFile
    <3>3. CASE resMode # "directory"
      BY <3>1, <3>3 DEF getFile, ResModes
    <3>4. QED
      BY <3>2, <3>3
  <2>6. PICK q : q = ReadAsset(options, resMode, mountedPaths, main)
    OBVIOUS
  <2>7. q = [from |-> "resources", got |-> Found(Segments(main))]
    BY <1>1, <2>4, <2>5, <2>6 DEF ReadAsset
  <2>8. getAsset(options, resMode, mountedPaths, p) = q
    BY <1>2, <1>7, <2>1, <2>2, <2>3, <2>6, AssetSecond
  <2>9. QED
    BY <1>2, <1>10, <2>7, <2>8 DEF Answer
<1>11. QED
  BY <1>9, <1>10

\* Nothing is thrown but by a directory.
LEMMA ReadAnswers ==
    ASSUME NEW path \in Texts, Segments(path) # <<>>, ~NamesDirectory(path),
           MountTexts(mountedPaths), TextOptions(options), resMode \in ResModes
    PROVE  ReadAsset(options, resMode, mountedPaths, path).got.is \in {"file", "missing"}
<1>1. PICK q, m, r : /\ q = Pathname(options, path) /\ m = MountFor(mountedPaths, q)
                     /\ r = ReadAsset(options, resMode, mountedPaths, path)
  OBVIOUS
<1>2. CASE MountsOf(mountedPaths, q) # {}
  <2>1. PICK files, b : files = TargetFiles[mountedPaths[m]] /\ b = Below(m, q)
    OBVIOUS
  <2>2. r.got = readFile(files, b)
    BY <1>1, <1>2, <2>1 DEF ReadAsset
  <2>3. ~IsDirectory(files \cup Outside, Resolved(files, Segments(b)))
    BY <1>1, <1>2, <2>1 DEF NamesDirectory
  <2>4. QED
    BY <1>1, <2>2, <2>3, DiskAnswers
<1>3. CASE MountsOf(mountedPaths, q) = {}
  <2>1. r.got = getFile(resMode, path)
    BY <1>1, <1>3 DEF ReadAsset
  <2>2. CASE resMode = "directory"
    <3>1. PICK text : text = joinAppPath(path)
      OBVIOUS
    <3>2. ~IsDirectory(Resources \cup Outside, Resolved(Resources, Segments(text)))
      BY <1>1, <1>3, <2>2, <3>1 DEF NamesDirectory
    <3>3. getFile(resMode, path) = readFile(Resources, text)
      BY <2>2, <3>1 DEF getFile
    <3>4. QED
      BY <1>1, <2>1, <3>2, <3>3, DiskAnswers
  <2>3. CASE resMode # "directory"
    <3>1. ~IsDirectory(Resources, Segments(path))
      BY <1>1, <1>3, <2>3 DEF NamesDirectory
    <3>2. getFile(resMode, path) = seekFilePos(Resources, path)
      BY <2>3 DEF getFile, ResModes
    <3>3. QED
      BY <1>1, <2>1, <3>1, <3>2, FilesAnswer
  <2>4. QED
    BY <2>2, <2>3
<1>4. QED
  BY <1>2, <1>3

LEMMA AllAnswered ==
    ASSUME TextOptions(options), MountTexts(mountedPaths), resMode \in ResModes
    PROVE  RequestsAreAnswered
<1>1. SUFFICES
        ASSUME NEW resource \in Requests, ~NamesDirectory(Indexed(Requested(options, resource))),
               Enabled(options, "singlePageServe") =>
                   IF RootOf(options) # Null
                   THEN ~NamesDirectory(Indexed(MainPage(options)))
                   ELSE ReadAsset(options, resMode, mountedPaths,
                                  Indexed(MainPage(options))).got.is = "file"
        PROVE  Answer(resMode, resource).got.is \in {"file", "missing"}
  BY DEF RequestsAreAnswered, RootOf
<1>2. PICK p, path, main, r, q :
        /\ p = Requested(options, resource) /\ path = Indexed(p)
        /\ main = Indexed(MainPage(options))
        /\ r = ReadAsset(options, resMode, mountedPaths, path)
        /\ q = ReadAsset(options, resMode, mountedPaths, main)
  OBVIOUS
<1>3. path \in Texts /\ Segments(path) # <<>> /\ main \in Texts /\ Segments(main) # <<>>
  BY <1>2, RequestIs, IndexedIs, MainIs
<1>4. r.got.is \in {"file", "missing"}
  BY <1>1, <1>2, <1>3, ReadAnswers
<1>5. CASE ~FallsBack(options, path, r.got) \/ MainPage(options) = path
  <2>1. getAsset(options, resMode, mountedPaths, p) = r
    BY <1>2, <1>5, AssetFirst
  <2>2. QED
    BY <1>2, <1>4, <2>1 DEF Answer
<1>6. CASE FallsBack(options, path, r.got) /\ MainPage(options) # path
  <2>1. Enabled(options, "singlePageServe")
    BY <1>6 DEF FallsBack
  <2>2. q.got.is \in {"file", "missing"} /\ (~FallsBack(options, main, q.got) \/ MainPage(options) = main)
    <3>1. CASE RootOf(options) # Null
      <4>1. MainPage(options) = main
        BY <1>2, <3>1, MainIs
      <4>2. q.got.is \in {"file", "missing"}
        BY <1>1, <1>2, <1>3, <2>1, <3>1, ReadAnswers
      <4>3. QED
        BY <4>1, <4>2
    <3>2. CASE RootOf(options) = Null
      BY <1>1, <1>2, <2>1, <3>2 DEF FallsBack
    <3>3. QED
      BY <3>1, <3>2
  <2>3. getAsset(options, resMode, mountedPaths, p) = q
    BY <1>2, <1>6, <2>2, AssetSecond
  <2>4. QED
    BY <1>2, <2>2, <2>3 DEF Answer
<1>7. QED
  BY <1>5, <1>6

-----------------------------------------------------------------------------
(* What the router reads of the options and of the mounts is text. *)

\* The document root and the url, from the file or the command line.
LEMMA TextInForce ==
    ASSUME ConfigInv, Ready, NEW key \in {"documentRoot", "url"}
    PROVE  getOptionForCurrentMode(options, key) \in Texts \cup {Null}
<1>1. CASE Sets(key) = {}
  <2>1. Unset(setup.args, key) /\ key \in Keys \ {"port"}
    <3>1. DOMAIN setup.args = 1..Len(setup.args)
      BY SetupsAssumption, LenProperties DEF ConfigInv
    <3>2. QED
      BY <1>1, <3>1 DEF Sets, Setting, Unset, Keys
  <2>2. ASSUME NEW at \in Places PROVE ValueAt(options, at, key) \in Texts \cup {Null}
    <3>1. ValueAt(options, at, key) =
            IF setup.file = "missing" THEN Null ELSE ValueAt(setup.config, at, key)
      BY <2>1 DEF ConfigInv, FromFile
    <3>2. PICK o : o = IF at = "root" THEN setup.config.root ELSE setup.config.modes[at]
      OBVIOUS
    <3>3. /\ ValueAt(setup.config, at, key) = o[key]
          /\ o \in {setup.config.root} \cup {setup.config.modes[m] : m \in Modes}
      BY <3>2 DEF ValueAt, Places
    <3>4. {o["documentRoot"], o["url"]} \subseteq Seq(STRING) \cup {Null}
      BY <3>3, SetupsAssumption DEF ConfigInv
    <3>5. o[key] \in Texts \cup {Null}
      BY <3>4 DEF Texts
    <3>6. QED
      BY <3>1, <3>3, <3>5
  <2>3. getMode(options) \in Places /\ "root" \in Places
    BY LookUp DEF Places
  <2>4. QED
    BY <2>2, <2>3, LookUp
<1>2. CASE Sets(key) # {}
  <2>1. key \in cliMappingAliases /\ key # "port"
    BY DEF cliMappingAliases
  <2>2. PICK i \in Sets(key) : getOptionForCurrentMode(options, key) = ArgValue(setup.args[i])
    BY <1>2, <2>1, InForce
  <2>3. i \in DOMAIN setup.args /\ setup.args[i].key \in {"--document-root", "--url"}
    BY <2>2 DEF Sets, cliMappings, TextArgs, BoolArgs, WindowArgs
  <2>4. setup.args[i].value \in Texts
    BY <2>3, SetupsAssumption DEF ConfigInv, Texts
  <2>5. cliMappings[setup.args[i].key].type # "bool"
    BY <2>3 DEF cliMappings, TextArgs, BoolArgs, WindowArgs
  <2>6. QED
    BY <2>2, <2>4, <2>5 DEF ArgValue
<1>3. QED
  BY <1>1, <1>2

LEMMA ServesTexts ==
    ASSUME ConfigInv, Serves
    PROVE  TextOptions(options)
<1>1. Ready
  BY DEF ConfigInv, Serves, Served, Ready
<1>2. QED
  BY <1>1, TextInForce DEF TextOptions, RootOf

LEMMA MountPointIs ==
    ASSUME NEW path \in Texts
    PROVE  MountPoint(path) \in Texts /\ MountPoint(path) # <<>>
<1>1. PICK n : n = normalizePath(path)
  OBVIOUS
<1>2. n \in Texts
  <2>1. CASE Len(path) > 1 /\ Last(path) = Slash
    <3>1. path # <<>>
      BY <2>1
    <3>2. EndsInSlash(path) /\ n = Front(path)
      BY <1>1, <2>1, <3>1 DEF EndsInSlash, normalizePath
    <3>3. QED
      BY <3>2, WithoutSlash
  <2>2. CASE ~(Len(path) > 1 /\ Last(path) = Slash)
    BY <1>1, <2>2 DEF normalizePath
  <2>3. QED
    BY <2>1, <2>2
<1>3. <<Slash>> \in Texts /\ <<Slash>> # <<>>
  BY LiteralsAssumption, Singleton DEF Texts
<1>4. QED
  BY <1>1, <1>2, <1>3 DEF MountPoint

MountsInv == MountTexts(mountedPaths)

LEMMA MountsInvHolds == AppSpec => []MountsInv
<1>1. AppInit => MountsInv
  BY DEF AppInit, MountTexts, MountsInv
<1>2. ASSUME MountsInv, [AppNext]_appVars PROVE MountsInv'
  <2>1. CASE UNCHANGED mountedPaths
    BY <1>2, <2>1 DEF MountTexts, MountsInv
  <2>2. ASSUME NEW c, handleMessage(c) PROVE MountsInv'
    <3>1. PICK method, path, target, r :
             /\ path \in MountPaths
             /\ Answers(r, options, perm, mountedPaths,
                        [token |-> Knows(c), method |-> method, path |-> path, target |-> target])
             /\ mountedPaths' = r.mounts
      BY <2>2 DEF handleMessage, Answers
    <3>2. CASE r.mounts = mountedPaths
      BY <2>1, <3>1, <3>2
    <3>3. CASE r.mounts # mountedPaths
      <4>1. PICK call : call = [token |-> Knows(c), method |-> method, path |-> path, target |-> target]
        OBVIOUS
      <4>2. call.path = path
        BY <4>1
      <4>3. \/ r.mounts = WithMount(mountedPaths, MountPoint(path), call.target)
            \/ r.mounts = WithoutMount(mountedPaths, MountPoint(path))
        BY <3>1, <3>3, <4>1, <4>2, Mounted
      <4>4. DOMAIN r.mounts \subseteq DOMAIN mountedPaths \cup {MountPoint(path)}
        BY <4>3 DEF WithMount, WithoutMount
      <4>5. path \in Texts
        BY <3>1, RequestsAssumption
      <4>6. QED
        BY <1>2, <3>1, <4>4, <4>5, MountPointIs DEF MountTexts, MountsInv
    <3>4. QED
      BY <3>2, <3>3
  <2>3. QED
    BY <1>2, <2>1, <2>2 DEF AppNext, appVars
<1>3. QED
  BY <1>1, <1>2, PTL DEF AppSpec

\* Every request is answered with what the configuration and the mounts mean by
\* it, but for the exceptions that the parts of AnswersAreRight name, for any tree
\* of files, any mounts, any document root and url, and any request (handleHTTP,
\* getAsset, __seekFilePos and readFile).
THEOREM AnswersAreRightHolds == AppSpec => []AnswersAreRight
<1>1. ASSUME AppInv, MountsInv, RangeIsExact PROVE AnswersAreRight
  <2>1. CASE Serves
    <3>1. TextOptions(options) /\ resMode \in ResModes
      BY <1>1, <2>1, ServesTexts DEF AppInv, ConfigInv
    <3>2. QED
      BY <1>1, <2>1, <3>1, MountedServes, BothAnswer, MainServes, AllAnswered
         DEF AnswersAreRight, MountsInv
  <2>2. CASE ~Serves
    BY <1>1, <2>2 DEF AnswersAreRight, MountedIsServed, ModesAgree, SpaServesMain, RequestsAreAnswered
  <2>3. QED
    BY <2>1, <2>2
<1>2. QED
  BY <1>1, AppInvHolds, MountsInvHolds, RangesExact, PTL

=============================================================================
