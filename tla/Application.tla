----------------------------- MODULE Application ----------------------------
(***************************************************************************)
(* The application as a whole: Startup with the native calls of its pages  *)
(* and extensions, which Router answers under the lists of Permission.     *)
(* The one state that native calls of this module change is mountedPaths;  *)
(* the registers of processes, files, watches and storage have modules of  *)
(* their own.                                                              *)
(***************************************************************************)
EXTENDS Startup, Router

CONSTANTS
    MountPaths,     \* paths that calls mount and unmount
    Requests,       \* resources that clients ask for
    FilePaths,      \* paths that methods of the file system name
    Words,          \* arguments of commands, without double quotes
    Sizes,          \* sizes of files
    Offsets,        \* numbers in Range headers
    MaxMounts       \* bound: mounts at a time

\* Words stand between double quotes and are not empty; a path has a canonical
\* form, which is a sequence of names.
ASSUME WordsAssumption ==
    \A w \in Words : w \in Seq(Chars \ {"dq"}) /\ w # <<>>
ASSUME PathsAssumption ==
    \A path \in FilePaths : Len(Canonical[path]) \in Nat

\* The path of a request begins with a '/'.
ASSUME RequestsAssumption ==
    /\ MountPaths \subseteq Texts
    /\ \A resource \in Requests : resource \in Texts /\ resource # <<>> /\ resource[1] = Slash

\* A size is a long long that is not negative, and so is a number of digits that
\* stoll accepts.
ASSUME RangesAssumption ==
    MaxLL \in Nat /\ Sizes \subseteq 0..MaxLL /\ Offsets \subseteq 0..MaxLL

VARIABLES
    mountedPaths    \* router::mountedPaths

appVars == <<vars, mountedPaths>>

AppInit == Init /\ mountedPaths = << >>

\* A page has the client library and a connection, an extension a connection.
Callers == {c \in Pages : pages[c].doc = "ready"} \cup {e \in Extensions : ext[e] = "connected"}

\* An extension was given the token with its input.
Knows(c) == IF c \in Pages THEN HasToken(c) ELSE TRUE

\* handleMessage: a native call, and its answer.
handleMessage(c) ==
    /\ ~Over
    /\ listening # Null
    /\ serving = None
    /\ c \in Callers
    /\ \E method \in {<<"server", "mount">>, <<"server", "unmount">>},
          path \in MountPaths, target \in DOMAIN TargetFiles \cup FileTargets \cup {None} :
            LET result == executeNativeMethod(options, perm, mountedPaths,
                              [token |-> Knows(c), method |-> method, path |-> path,
                               target |-> target])
            IN /\ Cardinality(DOMAIN result.mounts) <= MaxMounts
               /\ mountedPaths' = result.mounts
    /\ UNCHANGED vars

AppNext ==
    \/ StartupNext /\ UNCHANGED mountedPaths
    \/ \E c \in Pages \cup Extensions : handleMessage(c)

AppSpec == AppInit /\ [][AppNext]_appVars

-----------------------------------------------------------------------------
(* Properties. *)

\* Every variable has its type; the resources are in one of their three modes,
\* whatever the command line says, and only directories are mounted.
TypeOK ==
    /\ setup \in Setups
    /\ stage \in Stages
    /\ resMode \in {"embedded", "bundle", "directory"}
    /\ DOMAIN options.root = Keys /\ \A m \in Modes : DOMAIN options.modes[m] = Keys
    /\ {oneTime, tokenSent, extInit, lost, raced} \subseteq BOOLEAN
    /\ loaded \subseteq Extensions \cup {DevTools}
    /\ Range(scripts) \subseteq {"empty", "token"}
    /\ serving = None \/ serving.page \in Pages
    /\ pages \in [Pages -> PageType]
    /\ ext \in [Extensions -> {"none", "started", "refused", "connected"}]
    /\ handed \subseteq Pages \cup {"globalsSet", "librarySet"}
    /\ Range(mountedPaths) \subseteq DOMAIN TargetFiles

\* The options are there.
Ready == stage \notin {"args", "resources", "settings", "exited", "aborted"}

\* The arguments that set a key, by their places on the command line.
Sets(key) ==
    {i \in DOMAIN setup.args :
        /\ setup.args[i].key \in DOMAIN cliMappings
        /\ cliMappings[setup.args[i].key].key = key
        /\ setup.args[i].key = "--mode" => setup.args[i].value \in Modes}

CliValue(key) ==
    LET arg == setup.args[CHOOSE i \in Sets(key) : \A j \in Sets(key) : j <= i]
    IN IF cliMappings[arg.key].type = "bool" THEN arg.value \in {"", "true"} ELSE arg.value

\* What is said last on the command line is in force, whatever the file says at
\* the root and for the mode (the copies of settings::setGlobalArgs for every
\* mode, the patches of settings::init, the priority of getOptionForCurrentMode).
\* The port is in force until the server has chosen one.
CliWins ==
    Ready =>
        /\ \A key \in cliMappingAliases :
              Sets(key) # {} /\ (key = "port" => listening = Null)
                  => getOptionForCurrentMode(options, key) = CliValue(key)
        /\ Sets("defaultMode") # {} => getMode(options) = CliValue("defaultMode")

\* Every port that a page, an extension or the exported file was told is the one
\* the server listens on (setPort must reach the option that getGlobalVars,
\* extensions::init and exportAuthInfo read).
PortTruth == listening # Null => toldPorts \subseteq {listening}

\* With the one-time security the token is given out once, however pages load and
\* reload, as long as the two threads do not meet in getToken: a window that
\* injects globals asks on the main thread, a request on the server's, and each
\* may look at tokenSent before the other sets it.  Then, and only then, two are
\* given the token, where CHANGELOG.md:779 says that it is exposed "only once".
OneTimeToken == oneTime => Cardinality(handed) <= IF raced THEN 2 ELSE 1

\* The ways in which the page of the program gets its globals.
Sources ==
    Cardinality({k \in {"injectGlobals", "injectClientLibrary"} :
                    getMode(options) = "window" /\ Injects(k)})
    + IF setup.fetches /\ listening # Null THEN 1 ELSE 0

\* A page of the program that has started its library has the token: always
\* without the one-time security; with it, unless another client was first, the
\* page was reloaded before its library had kept the token, or the page gets its
\* globals twice, the second time without the token (authbasic::getToken).
OwnPageHasToken ==
    (pages[page].doc = "ready" /\ Sources > 0) =>
        \/ HasToken(page)
        \/ oneTime /\ (handed \cap Others # {} \/ lost \/ Sources > 1)

\* A page that was told NL_EXTENABLED finds every configured extension loaded,
\* and the page of the program is always told when extensions are configured:
\* extensions::init has returned before the page is opened.
ExtEnabledIsTrue ==
    LET list == getOptionForCurrentMode(options, "extensions")
        configured == Ready /\ Enabled(options, "enableExtensions") /\ list # Null
    IN /\ \A c \in Pages : pages[c].extOn =>
             configured /\ \A i \in DOMAIN list : list[i].id \in loaded \cup {Null}
       /\ pages[page].doc \in {"fetched", "ready"} /\ Sources > 0 /\ configured
             => pages[page].extOn

\* What pages, extensions and the exported file are told of the program is true:
\* the port (settings::setPort) and whether extensions are on (extensions::init).
GlobalsAreTrue == PortTruth /\ ExtEnabledIsTrue

\* What the configuration and the command line allow of a method, read from the
\* file itself: the mode's list, else the one at the root; a block list beats an
\* allow list.
FileOption(key) ==
    LET inMode == setup.config.modes[getMode(options)][key]
    IN IF inMode # Null THEN inMode ELSE setup.config.root[key]

Listed(list, method) == method \in list \/ <<method[1], "*">> \in list

ConfiguredToAllow(method) ==
    setup.file = "ok" =>
        IF FileOption("nativeBlockList") # Null
        THEN ~Listed(FileOption("nativeBlockList"), method)
        ELSE FileOption("nativeAllowList") # Null
                => Listed(FileOption("nativeAllowList"), method)

\* A call takes effect only after the permissions are registered, with the
\* native API enabled, if the file allows the method and some client has been
\* given the token (the order of main() and of the checks of executeNativeMethod).
EffectsArePermitted ==
    [][mountedPaths' # mountedPaths =>
        /\ Enabled(options, "enableNativeAPI")
        /\ ConfiguredToAllow(<<"server", IF DOMAIN mountedPaths \subseteq DOMAIN mountedPaths'
                                         THEN "mount" ELSE "unmount">>)
        /\ \E c \in Callers : c \in Extensions \/ HasToken(c)]_appVars

-----------------------------------------------------------------------------
(* Properties of the answers. *)

Answer(mode, resource) ==
    getAsset(options, mode, mountedPaths, Requested(options, resource))

Serves == listening # Null

\* A file of a mounted directory is served from there, unless a shorter mounted
\* path is a prefix of the request; a resource below the document root is served
\* if no mounted path is (the prefix that handleHTTP adds and getAsset takes off).
MountedIsServed ==
    Serves =>
        /\ \A m \in DOMAIN mountedPaths, t \in DOMAIN TargetFiles :
             \A file \in TargetFiles[t] :
               LET resource == (IF m = <<Slash>> THEN <<>> ELSE m) \o NameOf(file)
               IN (mountedPaths[m] = t /\ m[1] = Slash /\ HasDot(resource)
                      /\ \A n \in MountsOf(mountedPaths, resource) : Len(m) <= Len(n))
                  => Answer(resMode, resource) = [from |-> t, got |-> Found(file)]
        /\ \A file \in Resources :
             LET root == getDocumentRoot(options)
                 resource == SubSeq(NameOf(file), Len(root) + 1, Len(NameOf(file)))
             IN (IsPrefix(root, NameOf(file)) /\ HasDot(NameOf(file))
                    /\ MountsOf(mountedPaths, resource) = {})
                => Answer(resMode, resource) = [from |-> "resources", got |-> Found(file)]

\* A path that goes on below a file, or ends with a '/' after it: in the bundle it
\* is that file, in the directory nothing (__seekFilePos).
BeyondFile(path) ==
    EndsInSlash(path) \/ \E f \in Resources : IsStrictPrefix(f, Segments(path))

\* The text of a path means the same to the bundle and to the system.
MeansTheSame(path) == path[1] = Slash /\ Plain(Segments(path)) /\ ~BeyondFile(path)

\* An application answers alike from the bundle and from the directory, unless the
\* path, or the main page of a single page application, goes beyond a file, does
\* not begin with a '/' (a document root or url without one: joinAppPath puts the
\* text right after the directory's name, __seekFilePos takes it), or holds "." or
\* ".." (resolved by the system, names like others in the bundle).
ModesAgree ==
    (Serves /\ (Enabled(options, "singlePageServe") => MeansTheSame(Indexed(MainPage(options))))) =>
        \A resource \in Requests :
            MeansTheSame(Indexed(Requested(options, resource)))
               => Answer("bundle", resource) = Answer("directory", resource)

\* A single page application answers every address without a '.': with the index
\* page of the directory if there is one, else with the main page, as long as its
\* document root ends with a '/', nothing is mounted over them and no directory
\* is called like an index page; read from the directory, the document root also
\* begins with a '/' and the address holds no ".".
SpaServesMain ==
    LET root == getOptionForCurrentMode(options, "documentRoot")
        main == Segments(MainPage(options))
    IN (Serves /\ Enabled(options, "singlePageServe") /\ root # Null /\ main \in Resources) =>
        \A resource \in Requests :
            LET path == Indexed(Requested(options, resource))
                own == Append(Segments(Requested(options, resource)), <<Index>>)
            IN (/\ EndsInSlash(root)
                /\ ~HasDot(Requested(options, resource))
                /\ MountsOf(mountedPaths, Pathname(options, path)) = {}
                /\ MountsOf(mountedPaths, <<Slash, Index>>) = {}
                /\ ~BeyondFile(path) /\ ~IsDirectory(Resources, own)
                /\ resMode = "directory" => root[1] = Slash /\ Plain(Segments(path)))
               => Answer(resMode, resource).got =
                    Found(IF own \in Resources THEN own ELSE main)

\* The path is that of a directory, where it is read.
NamesDirectory(path) ==
    LET pathname == Pathname(options, path)
        m == MountFor(mountedPaths, pathname)
        OnDisk(files, text) == IsDirectory(files \cup Outside, Resolved(files, Segments(text)))
    IN IF MountsOf(mountedPaths, pathname) # {}
       THEN OnDisk(TargetFiles[mountedPaths[m]], Below(m, pathname))
       ELSE IF resMode = "directory" THEN OnDisk(Resources, joinAppPath(path))
       ELSE IsDirectory(Resources, Segments(path))

\* Every request is answered: getAsset comes back without an exception, but for
\* paths of directories (with a '.', as others have an index page), and for a
\* single page application without a document root whose main page is not found
\* (there or where it is mounted).
RequestsAreAnswered ==
    Serves =>
        \A resource \in Requests :
            LET path == Indexed(Requested(options, resource))
                main == Indexed(MainPage(options))
            IN (/\ ~NamesDirectory(path)
                /\ Enabled(options, "singlePageServe") =>
                       IF getOptionForCurrentMode(options, "documentRoot") # Null
                       THEN ~NamesDirectory(main)
                       ELSE ReadAsset(options, resMode, mountedPaths, main).got.is = "file")
               => Answer(resMode, resource).got.is \in {"file", "missing"}

\* The answer to "bytes=first-last" is made of the bytes that are there of those
\* asked for, after what is prepended.
RangeIsAnswered(size, first, last, prependData) ==
    LET end == IF last = Null \/ last < first THEN size - 1
               ELSE IF last < size - 1 THEN last ELSE size - 1
        a == RangeAnswer(size, getFileReaderOptions(first, last), prependData)
    IN /\ a.length = Len(a.body) - Len(prependData)
       /\ IF first < size
          THEN /\ a.status = 206 /\ a.first = first /\ a.last = end
               /\ a.body = prependData \o [i \in 1..(end - first + 1) |-> first + i - 1]
          ELSE a.status = 416 /\ a.length = 0

\* A range that starts inside the file is answered with its bytes and no other,
\* from the first to the last one asked for or the end of the file, and the
\* headers say what the body holds; one that starts behind it with status 416.
\* A last byte before the first is as good as none (the parsing and clamping of
\* __getFileReaderOptionsFromHeaders, readFile and getAsset, wrap included).  The
\* exception is the client library: its globals are put before the bytes of every
\* range, and before the empty answer of status 416, and no header counts them.
RangeIsExact ==
    Serves =>
        \A size \in Sizes, first \in Offsets, last \in Offsets \cup {Null},
           prependData \in {<<>>, <<"globals">>} :
              RangeIsAnswered(size, first, last, prependData)

\* A request is answered with what the configuration and the mounts mean by it,
\* and with the bytes it asks for (handleHTTP, getAsset and resources::getFile).
AnswersAreRight ==
    MountedIsServed /\ ModesAgree /\ SpaServesMain /\ RequestsAreAnswered /\ RangeIsExact

-----------------------------------------------------------------------------
(* Properties of the permissions. *)

\* Does a configured scope give a permission on a path, links resolved?  Constants
\* mean something in scopes; a method uses a path as it is written.
Granted(path, wanted) ==
    \E s \in FileOption("filesystemScopes") :
        /\ s.perm \in {wanted, "read-write"}
        /\ IsPrefix(normalizeScopePath(s.path), Canonical[path])

\* Once permission::init has run, a method of the file system touches a path
\* only if, after all links, it lies in a configured scope of the permission it
\* needs; and a scope opens the whole tree below it (but for that of the root
\* directory, which opens nothing but itself).  An empty map opens nothing, where
\* CHANGELOG.md:26 says that then "no restriction is applied".  The exception is a
\* path with a constant in it: __isPathInScope judges the path it expands to, and
\* the method then touches the one that was written.
ScopesHold ==
    (Ready /\ stage # "framework" /\ setup.file = "ok" /\ FileOption("filesystemScopes") # Null) =>
        \A method \in DOMAIN FsMethods, p1 \in FilePaths, p2 \in FilePaths :
            LET wants == FsMethods[method]
                granted == \A i \in DOMAIN wants : Granted(<<p1, p2>>[i], wants[i])
                asWritten == \A i \in DOMAIN wants : Expanded[<<p1, p2>>[i]] = <<p1, p2>>[i]
                atRoot == \E s \in FileOption("filesystemScopes") : normalizeScopePath(s.path) = <<>>
            IN asWritten =>
                 /\ FsAllowed(perm, method, <<p1, p2>>) => granted
                 /\ granted /\ ~atRoot => FsAllowed(perm, method, <<p1, p2>>)

InQuotes(word) == <<"dq">> \o word \o <<"dq">>

\* With a list of commands in force, a program in double quotes is judged by its
\* name, whatever characters the name and the arguments hold, and outside quotes
\* a character of the shell denies the command (helpers::tokenizeCommand).  A line
\* end outside quotes is white space to it, where CHANGELOG.md:12 counts it among
\* the characters that "reject the command outright".
CommandsByName ==
    (Ready /\ perm.checkCommand /\ perm.commandPatterns # {}) =>
        \A program \in Words, argument \in Words :
            LET named == program \in perm.commandPatterns \/ <<"*">> \in perm.commandPatterns
                Command(tail) == InQuotes(program) \o <<"sp">> \o tail
            IN /\ tokenizeCommand(Command(InQuotes(argument))) = <<program, argument>>
               /\ hasCommandExecutionAccess(perm, Command(InQuotes(argument))) <=> named
               /\ ~hasCommandExecutionAccess(perm, Command(<<"x", "meta">>))

\* The configured lists mean for paths and for programs what they say
\* (hasFileSystemPathAccess and hasCommandExecutionAccess).
ListsHold == ScopesHold /\ CommandsByName

=============================================================================
