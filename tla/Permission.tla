----------------------------- MODULE Permission -----------------------------
(***************************************************************************)
(* What native methods may do (auth/permission.cpp): the lists registered  *)
(* when the program starts and the questions asked of them by the router   *)
(* and by the methods of the file system and of processes.                 *)
(*                                                                         *)
(* A method, or an entry of a list, is <<module, name>>; the name "*" is   *)
(* the wildcard.  A path is the sequence of its names from the root        *)
(* directory, << >> the root itself.  A command is a sequence of classes   *)
(* of characters, see Chars.                                               *)
(***************************************************************************)
EXTENDS Settings

CONSTANTS
    Expanded,       \* external: path -> path, its ${NL_*} replaced by applyPathConstants
    Canonical       \* external: path -> path, links resolved by weakly_canonical

Unrestricted ==
    [checkBlock |-> FALSE, blockedModules |-> {}, blockedMethods |-> {},
     checkAllow |-> FALSE, allowedModules |-> {}, allowedMethods |-> {},
     checkCommand |-> FALSE, commandPatterns |-> {},
     checkScopes |-> FALSE, readScopes |-> {}, writeScopes |-> {}]

-----------------------------------------------------------------------------
(* init. *)

WildcardModules(list) == {e[1] : e \in {x \in list : x[2] = "*"}}
SingleMethods(list) == {x \in list : x[2] # "*"}

registerAllowList(p, list) ==
    IF list = Null THEN p
    ELSE [p EXCEPT !.checkAllow = TRUE, !.allowedModules = WildcardModules(list),
                   !.allowedMethods = SingleMethods(list)]

registerBlockList(p, list) ==
    IF list = Null THEN p
    ELSE [p EXCEPT !.checkBlock = TRUE, !.blockedModules = WildcardModules(list),
                   !.blockedMethods = SingleMethods(list)]

regiserCommandAllowList(p, list) ==
    IF list = Null THEN p
    ELSE [p EXCEPT !.checkCommand = TRUE, !.commandPatterns = list]

\* The form in which scopes are kept and paths are compared with them.
normalizeScopePath(path) == Canonical[Expanded[path]]

\* A scope is [path, perm].  A map of scopes, even an empty one, is in force.
registerScopesLists(p, scopes) ==
    IF scopes = Null THEN p
    ELSE LET Of(perms) == {normalizeScopePath(s.path) : s \in {x \in scopes : x.perm \in perms}}
         IN [p EXCEPT !.checkScopes = TRUE,
                      !.readScopes = Of({"read", "read-write"}),
                      !.writeScopes = Of({"write", "read-write"})]

\* The lists of the options of the current mode.
Registered(options) ==
    LET Opt(key) == getOptionForCurrentMode(options, key)
    IN registerScopesLists(
         regiserCommandAllowList(
           registerBlockList(
             registerAllowList(Unrestricted, Opt("nativeAllowList")),
             Opt("nativeBlockList")),
           Opt("commandAllowList")),
         Opt("filesystemScopes"))

-----------------------------------------------------------------------------
(* The questions. *)

\* A block list, even an empty one, puts the allow list out of force.
hasMethodAccess(p, method) ==
    CASE p.checkBlock -> method[1] \notin p.blockedModules /\ method \notin p.blockedMethods
      [] ~p.checkBlock /\ p.checkAllow ->
            method[1] \in p.allowedModules \/ method \in p.allowedMethods
      [] OTHER -> TRUE

hasAPIAccess(options) == Enabled(options, "enableNativeAPI")

\* The path is the scope or goes on with a '/' after it.  The text of the root
\* directory ends with its '/', so nothing goes on after it.
IsPathInScope(path, scope) ==
    \/ path = scope
    \/ scope # <<>> /\ IsStrictPrefix(scope, path)

\* Mutant: links in the path of the call are not followed.
hasFileSystemPathAccess_AsWritten(p, path, perm) ==
    p.checkScopes =>
        \E scope \in IF perm = "write" THEN p.writeScopes ELSE p.readScopes :
            IsPathInScope(Expanded[path], scope)

\* The path of the call is expanded as a scope is; the method then uses the path
\* as it was written.
hasFileSystemPathAccess(p, path, perm) ==
    p.checkScopes =>
        \E scope \in IF perm = "write" THEN p.writeScopes ELSE p.readScopes :
            IsPathInScope(normalizeScopePath(path), scope)

\* What the methods ask before they touch a path: the permission of the first
\* path, and of the second one where there is one.
FsMethods ==
    LET writers == {"writeFile", "appendFile", "writeBinaryFile", "appendBinaryFile",
                    "createDirectory", "remove", "createWatcher", "setPermissions",
                    "chmod", "chown"}
        readers == {"readFile", "readBinaryFile", "openFile", "readDirectory",
                    "getStats", "getPermissions", "access"}
    IN [m \in writers \cup readers \cup {"copy", "move"} |->
           CASE m \in writers -> <<"write">>
             [] m \in readers -> <<"read">>
             [] m = "copy" -> <<"read", "write">>
             [] m = "move" -> <<"write", "write">>]

FsAllowed(p, method, paths) ==
    \A i \in DOMAIN FsMethods[method] :
        hasFileSystemPathAccess(p, paths[i], FsMethods[method][i])

-----------------------------------------------------------------------------
(* Commands (helpers::tokenizeCommand). *)

\* Letters of a name, white space (sp; line ends included: isspace comes first),
\* the two quotes (sq and dq), and the characters that reject a command.
Chars == {"x", "y", "sp", "sq", "dq", "meta"}

\* Mutant: a character that rejects also rejects inside quotes.
NextToken_MetaAnywhere(st, c) ==
    CASE c = "meta" -> [st EXCEPT !.rejected = TRUE]
      [] st.quote = "none" /\ c = "sp" ->
            [st EXCEPT !.tokens = IF st.current = <<>> THEN @ ELSE Append(@, st.current),
                       !.current = <<>>]
      [] st.quote = "none" /\ c \in {"sq", "dq"} -> [st EXCEPT !.quote = c]
      [] st.quote # "none" /\ c = st.quote -> [st EXCEPT !.quote = "none"]
      [] OTHER -> [st EXCEPT !.current = Append(@, c)]

\* One turn of the loop over the characters.
NextToken(st, c) ==
    CASE st.rejected -> st
      [] ~st.rejected /\ st.quote = "none" /\ c = "sp" ->
            [st EXCEPT !.tokens = IF st.current = <<>> THEN @ ELSE Append(@, st.current),
                       !.current = <<>>]
      [] ~st.rejected /\ st.quote = "none" /\ c \in {"sq", "dq"} -> [st EXCEPT !.quote = c]
      [] ~st.rejected /\ st.quote = "none" /\ c = "meta" -> [st EXCEPT !.rejected = TRUE]
      [] ~st.rejected /\ st.quote # "none" /\ c = st.quote -> [st EXCEPT !.quote = "none"]
      [] OTHER -> [st EXCEPT !.current = Append(@, c)]

\* The loop.
Tokenized(command) ==
    LET begin == [tokens |-> <<>>, current |-> <<>>, quote |-> "none", rejected |-> FALSE]
        turns[i \in 0..Len(command)] ==
            IF i = 0 THEN begin ELSE NextToken(turns[i - 1], command[i])
    IN turns[Len(command)]

tokenizeCommand(command) ==
    LET st == Tokenized(command)
    IN CASE st.rejected \/ st.quote # "none" -> <<>>
         [] ~(st.rejected \/ st.quote # "none") /\ st.current = <<>> -> st.tokens
         [] OTHER -> Append(st.tokens, st.current)

\* The patterns of the model are names of programs and the one that matches
\* all, written <<"*">>; the matching itself is that of std::regex.
hasCommandExecutionAccess(p, command) ==
    LET tokens == tokenizeCommand(command)
    IN \/ ~p.checkCommand
       \/ p.commandPatterns = {}
       \/ tokens # <<>> /\ (tokens[1] \in p.commandPatterns \/ <<"*">> \in p.commandPatterns)

=============================================================================
