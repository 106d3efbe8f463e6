--------------------------- MODULE MCApplication ----------------------------
\* Model checking of Application.
EXTENDS Application

CONSTANTS o1

MCOthers == {o1}
MCExtensions == {"e1"}

\* Texts of paths.
res == <<"/", "resources">>
MCDotted == {"index.html", "a.js", "lib.d", "neutralino.js.org", ".."}
MCDotEnds == {".", "end."}
\* Next to the directory, one whose name goes on with "resources".
MCOutside == { << <<"..">>, <<"a.js">> >>,
               << <<"..">>, <<"application", "resources">>, <<"a.js">> >> }
MCResources ==
    { << <<"resources">>, <<"index.html">> >>,
      << <<"resources">>, <<"a.js">> >>,
      << <<"resources">>, <<"app", "-res">>, <<"a.js">> >>,
      << <<"resources">>, <<"app">>, <<"index.html">> >>,
      << <<"resources">>, <<"lib.d">>, <<"a.js">> >>,
      << <<"resources">>, <<"notes">> >> }
MCTargetFiles ==
    [t \in {"t1", "t2"} |->
        IF t = "t1" THEN {<< <<"a.js">> >>, << <<"app">>, <<"index.html">> >>}
        ELSE {<< <<"index.html">> >>}]
MCMountPaths == {<<>>, <<"/", "app">>, <<"/", "app", "-res", "/">>, <<"app">>,
                 <<"/", "lib.d">>}
MCRequests ==
    { <<"/">>, <<"/", "index.html">>, <<"/", "a.js">>, <<"/", "app">>, <<"/", "app", "/">>,
      <<"/", "app", "-res", "/", "a.js">>, <<"/", "app", "-res">>, <<"/", "none">>,
      <<"/", "none", "/", "index.html">>, <<"/", "none", "/", "a.js">>, <<"/", "notes">>,
      <<"/", "a.js", "/", "a.js">>, <<"/", "app", "-res", "/">>, <<"/", "resources", "/", "none">>,
      <<"/", "lib.d">>, <<"/", "lib.d", "/", "a.js">>, <<"/", "end.">>,
      <<"/", "app", "/", ".">>, <<"/", ".", "/", "a.js">>, <<"/", "app", "/", "..", "/", "a.js">>,
      <<"/", "none", "/", "..", "/", "a.js">>, <<"/", "..", "/", "..", "/", "a.js">>,
      <<"/", "a.js", "/", "..">>, <<"/", "app", "/", "..">> }

\* Directories a and b; a/l is a link to b.  A path that begins with the constant c
\* expands to one in a; as it is written it names a file elsewhere.
MCFilePaths == {<<>>, <<"a">>, <<"a", "x">>, <<"a", "l">>, <<"a", "l", "x">>, <<"b">>,
                <<"b", "x">>, <<"ab">>, <<"${c}">>, <<"${c}", "l">>}
MCExpanded == [p \in MCFilePaths |->
    IF IsPrefix(<<"${c}">>, p) THEN <<"a">> \o Tail(p) ELSE p]
MCCanonical == [p \in MCFilePaths |->
    IF IsPrefix(<<"a", "l">>, p) THEN <<"b">> \o SubSeq(p, 3, Len(p)) ELSE p]
MCWords == UNION {[1..n -> {"x", "sp", "sq", "meta"}] : n \in 1..2}

\* A configuration: the root options, and those of the window mode and the others.
Config(root, window, other) ==
    [root |-> root @@ NoOptions,
     modes |-> [m \in Modes |-> (IF m = "window" THEN window ELSE other) @@ NoOptions]]
Arg(k, v) == [key |-> k, value |-> v]
Nothing == << >>
Server == ("enableServer" :> TRUE) @@ ("enableNativeAPI" :> TRUE)

Basic == [config |-> Config(Server, Nothing, Nothing), args |-> <<>>, file |-> "ok",
          embedded |-> FALSE, bundle |-> TRUE, busyPorts |-> {}, fetches |-> TRUE,
          others |-> {}]

\* Pages, tokens and extensions.
TokenSetups ==
    { \* two clients; an extension with a process, one without, one without an id
      [Basic EXCEPT
        !.config = Config(Server @@ ("port" :> 0) @@ ("enableExtensions" :> TRUE)
                            @@ ("exportAuthInfo" :> TRUE)
                            @@ ("extensions" :> <<[id |-> "e1", command |-> TRUE],
                                                  [id |-> Null, command |-> TRUE],
                                                  [id |-> DevTools, command |-> FALSE]>>)
                            @@ ("nativeBlockList" :> {<<"server", "unmount">>}),
                          "port" :> 0, "port" :> 7),
        !.others = {o1}],
      \* the window injects globals while others ask for them
      [Basic EXCEPT !.config = Config(Server, "injectGlobals" :> TRUE, Nothing),
                    !.others = {o1}],
      [Basic EXCEPT !.config = Config(Server, Nothing, Nothing), !.others = {o1},
                    !.args = <<Arg("--window-inject-client-library", "")>>],
      \* no one-time security
      [Basic EXCEPT !.config = Config(Server @@ ("tokenSecurity" :> "none"), Nothing, Nothing),
                    !.others = {o1}, !.args = <<Arg("--mode", "browser")>>] }

\* Command lines and files.
StartSetups ==
    { [Basic EXCEPT !.file = "broken"],
      [Basic EXCEPT !.file = "missing",
                    !.args = <<Arg("--enable-server", "true"), Arg("--port", 5)>>],
      [Basic EXCEPT !.args = <<Arg("--port", NotANumber)>>],
      [Basic EXCEPT !.args = <<Arg("--port", 7)>>, !.busyPorts = {7}],
      [Basic EXCEPT !.config = Config("exportAuthInfo" :> TRUE, Nothing, Nothing)],
      [Basic EXCEPT !.config = Config("injectGlobals" :> TRUE, "injectGlobals" :> TRUE, Nothing)],
      [Basic EXCEPT !.config = Config(("enableExtensions" :> TRUE) @@
                        ("extensions" :> <<[id |-> "e1", command |-> TRUE]>>), Nothing, Nothing)],
      [Basic EXCEPT
        !.config = Config(Server @@ ("port" :> 3), "port" :> 4, ("port" :> 6) @@ Server),
        !.args = <<Arg("--res-mode", "directory"), Arg("--neu-dev-extension", ""),
                   Arg("--port", 5), Arg("--mode", "chrome"), Arg("--mode", "none"),
                   Arg("--enable-native-api", "false"), Arg("--load-dir-res", ""),
                   Arg("--verbose", "")>>],
      [Basic EXCEPT !.embedded = TRUE, !.args = <<Arg("--res-mode", "zip"), Arg("--mode", "cloud")>>,
                    !.others = {o1}],
      [Basic EXCEPT !.bundle = FALSE, !.args = <<Arg("--res-mode", "bundle"),
                                                 Arg("--enable-server", "false")>>] }

\* Documents, mounts and lists; one page that gets its globals once.
ServeSetups ==
    { [Basic EXCEPT !.fetches = FALSE, !.embedded = TRUE,
                    !.config = Config(Server @@ root, "injectGlobals" :> TRUE, Nothing)] :
        root \in { ("documentRoot" :> (res \o <<"/">>)) @@ ("singlePageServe" :> TRUE)
                     @@ ("commandAllowList" :> {<<"x">>}),
                   ("documentRoot" :> res) @@ ("singlePageServe" :> TRUE)
                     @@ ("commandAllowList" :> {<<"*">>})
                     @@ ("nativeAllowList" :> {<<"server", "*">>}),
                   ("url" :> (res \o <<"/">>)) @@ ("singlePageServe" :> TRUE)
                     @@ ("filesystemScopes" :> {[path |-> <<"a">>, perm |-> "read"],
                                                [path |-> <<"b", "x">>, perm |-> "read-write"]}),
                   ("filesystemScopes" :> {[path |-> <<"${c}", "l">>, perm |-> "write"]})
                     @@ ("nativeAllowList" :> {<<"server", "mount">>}) } }
    \cup
    { [Basic EXCEPT !.fetches = FALSE, !.bundle = FALSE,
                    !.config = Config(Server @@ root, "injectGlobals" :> TRUE, Nothing)] :
        root \in { ("documentRoot" :> (res \o <<"/">>)) @@ ("commandAllowList" :> {}) @@ ("filesystemScopes" :> {}),
                   ("singlePageServe" :> TRUE) @@ ("nativeBlockList" :> {<<"os", "*">>}),
                   ("documentRoot" :> <<"resources", "/">>) @@ ("singlePageServe" :> TRUE),
                   ("url" :> (res \o <<"/", "a.js", "/", "x">>)) @@ ("singlePageServe" :> TRUE),
                   ("url" :> <<"/", "none">>) @@ ("singlePageServe" :> TRUE)
                     @@ ("filesystemScopes" :> {[path |-> <<>>, perm |-> "read"]}) } }

MCSetups == TokenSetups \cup StartSetups \cup ServeSetups

\* Both injections, as the window options allow.
InjectSetups ==
    { [Basic EXCEPT !.fetches = FALSE,
                    !.config = Config(Server, ("injectGlobals" :> TRUE)
                                              @@ ("injectClientLibrary" :> TRUE), Nothing)] }

\* The window's page can make native calls when the window injects the client
\* library ("Developers can use native API calls within initialization scripts if
\* `window.injectClientLibrary` is set to `true`"): its last script leaves it the token.
InjectedCanCall ==
    (pages[page].doc = "ready" /\ getMode(options) = "window" /\ Injects("injectClientLibrary"))
        => HasToken(page)

=============================================================================
