------------------------------ MODULE Settings ------------------------------
(***************************************************************************)
(* The configuration of an application (settings.cpp): the options of      *)
(* neutralino.config.json, at the root and per mode, the command line that *)
(* overrides them, and the look-up every other component uses.             *)
(*                                                                         *)
(* Options are a record [root, modes] of functions from keys to values;    *)
(* Null stands for a key that is not there.  Only the keys that the other  *)
(* modules ask for are kept.                                               *)
(***************************************************************************)
EXTENDS Integers, Sequences, SequencesExt

CONSTANTS
    Null,           \* json null
    NotANumber      \* text that stoi does not accept

\* helpers::getModes.
Modes == {"window", "browser", "cloud", "chrome"}

Keys == {"defaultMode", "port", "url", "documentRoot", "enableServer", "enableNativeAPI",
         "singlePageServe", "enableExtensions", "exportAuthInfo", "dataLocation",
         "tokenSecurity", "nativeBlockList", "nativeAllowList", "commandAllowList",
         "filesystemScopes", "extensions", "injectGlobals", "injectClientLibrary"}

NoOptions == [k \in Keys |-> Null]

\* Absent is not a value an option can have.
ASSUME NullAssumption == Null \notin BOOLEAN /\ Null \notin Int

\* The shape of the options, whatever their values.
IsOptions(o) ==
    /\ o = [root |-> o.root, modes |-> o.modes]
    /\ o.root = [k \in Keys |-> o.root[k]]
    /\ o.modes = [m \in Modes |-> [k \in Keys |-> o.modes[m][k]]]

-----------------------------------------------------------------------------
(* The command line. *)

TextArgs == {"--mode", "--url", "--document-root", "--data-location"}
BoolArgs == {"--enable-server", "--enable-native-api", "--single-page-serve",
             "--enable-extensions", "--export-auth-info"}
WindowArgs == {"--window-inject-globals", "--window-inject-client-library"}

\* Where an argument goes ("root" or a mode), to which key and as which type.
cliMappings ==
    [arg \in TextArgs \cup {"--port"} \cup BoolArgs \cup WindowArgs |->
        [at |-> IF arg \in WindowArgs THEN "window" ELSE "root",
         key |-> CASE arg = "--mode" -> "defaultMode"
                   [] arg = "--url" -> "url"
                   [] arg = "--document-root" -> "documentRoot"
                   [] arg = "--data-location" -> "dataLocation"
                   [] arg = "--port" -> "port"
                   [] arg = "--enable-server" -> "enableServer"
                   [] arg = "--enable-native-api" -> "enableNativeAPI"
                   [] arg = "--single-page-serve" -> "singlePageServe"
                   [] arg = "--enable-extensions" -> "enableExtensions"
                   [] arg = "--export-auth-info" -> "exportAuthInfo"
                   [] arg = "--window-inject-globals" -> "injectGlobals"
                   [] arg = "--window-inject-client-library" -> "injectClientLibrary",
         type |-> CASE arg \in TextArgs -> "string"
                    [] arg = "--port" -> "int"
                    [] arg \in BoolArgs \cup WindowArgs -> "bool"]]

\* The root keys whose command line value is copied to every mode.
cliMappingAliases == {"port", "url", "documentRoot", "enableServer", "enableNativeAPI",
                      "singlePageServe", "enableExtensions", "exportAuthInfo"}

\* Mutant: the command line only writes the root option.
Overrides_RootOnly(mapping, value) ==
    <<[at |-> mapping.at, key |-> mapping.key, type |-> mapping.type, value |-> value]>>

\* The override of an argument and its aliases in the modes.
Overrides(mapping, value) ==
    LET To(at) == [at |-> at, key |-> mapping.key, type |-> mapping.type, value |-> value]
    IN <<To(mapping.at)>> \o
       IF mapping.at = "root" /\ mapping.key \in cliMappingAliases
       THEN [i \in 1..4 |-> To(<<"window", "browser", "cloud", "chrome">>[i])]
       ELSE <<>>

\* An argument that is not in the map, or a mode that does not exist, overrides
\* nothing; a bool without a value is true.
applyConfigOverride(arg) ==
    IF \/ arg.key \notin DOMAIN cliMappings
       \/ arg.key = "--mode" /\ arg.value \notin Modes
    THEN <<>>
    ELSE Overrides(cliMappings[arg.key],
                   IF cliMappings[arg.key].type = "bool" /\ arg.value = ""
                   THEN "true" ELSE arg.value)

-----------------------------------------------------------------------------
(* The options. *)

\* The value of an override; stoi throws on a text that is no number.
Converted(o) == IF o.type = "bool" THEN o.value = "true" ELSE o.value

InitThrows(overrides) ==
    \E i \in DOMAIN overrides : overrides[i].type = "int" /\ overrides[i].value = NotANumber

\* One JSON patch, "add" or "replace".
Patched(options, o) ==
    IF o.at = "root" THEN [options EXCEPT !.root[o.key] = Converted(o)]
    ELSE [options EXCEPT !.modes[o.at][o.key] = Converted(o)]

\* The options after all patches, in the order of the command line.
ApplyOverrides(options, overrides) ==
    LET patched[i \in 0..Len(overrides)] ==
            IF i = 0 THEN options ELSE Patched(patched[i - 1], overrides[i])
    IN patched[Len(overrides)]

\* An unknown mode in the file is the window mode.
getMode(options) ==
    IF options.root["defaultMode"] \in Modes THEN options.root["defaultMode"] ELSE "window"

\* Priority: mode, root, null.
getOptionForCurrentMode(options, key) ==
    LET value == options.modes[getMode(options)][key]
    IN IF value # Null THEN value ELSE options.root[key]

Enabled(options, key) == getOptionForCurrentMode(options, key) = TRUE

\* Mutant: the port chosen by the system is only written at the root.
setPort_RootOnly(options, port) == [options EXCEPT !.root["port"] = port]

\* The port the system chose, for the root and every mode.
setPort(options, port) ==
    [root  |-> [options.root EXCEPT !["port"] = port],
     modes |-> [m \in Modes |-> [options.modes[m] EXCEPT !["port"] = port]]]

=============================================================================
