------------------------------- MODULE Router -------------------------------
(***************************************************************************)
(* How a request becomes an answer (server/router.cpp, resources.cpp, the  *)
(* reading of fs.cpp and of the Range header in neuserver.cpp): mounted    *)
(* directories, index pages, single page serving, the look-up of a file in *)
(* the bundle and in the directory, byte ranges, and the order of the      *)
(* checks of a native call.                                                *)
(*                                                                         *)
(* A path is the text the code works on, cut into pieces: "/" is a piece,  *)
(* a name is one or more pieces, so that "/app" is a prefix of "/app-res"; *)
(* the names "." and ".." are pieces of their own.  A file system is the   *)
(* set of its files, each the sequence of its names.                       *)
(***************************************************************************)
EXTENDS Permission

CONSTANTS
    Dotted,         \* the pieces that hold a '.' before their last character
    DotEnds,        \* the pieces whose one '.' is their last character
    Resources,      \* the files of the application, in the bundle or the directory
    TargetFiles,    \* [target directory -> its files]
    FileTargets,    \* paths to mount that are no directories
    Outside,        \* external: files outside a directory, by the way out to them
    MaxLL           \* the largest long long

Slash == "/"
Index == "index.html"
Dot == "."
Up == ".."
DefaultUrl == <<"https:", Slash, Slash, "neutralino.js.org">>

Texts == Seq(STRING)

\* helpers::split(path, '/') without its empty parts: the names that are complete
\* and the one that is being read, piece by piece.
NamesRead(st) == IF st.name = <<>> THEN st.names ELSE Append(st.names, st.name)

NextPiece(st, piece) ==
    IF piece = Slash THEN [names |-> NamesRead(st), name |-> <<>>]
    ELSE [names |-> st.names, name |-> Append(st.name, piece)]

Split(path) ==
    LET read[i \in 0..Len(path)] ==
            IF i = 0 THEN [names |-> <<>>, name |-> <<>>] ELSE NextPiece(read[i - 1], path[i])
    IN read[Len(path)]

Segments(path) == NamesRead(Split(path))

\* The path of a file, for the properties.
NameOf(file) ==
    LET text[i \in 0..Len(file)] ==
            IF i = 0 THEN <<>> ELSE text[i - 1] \o <<Slash>> \o file[i]
    IN text[Len(file)]

IsDirectory(files, at) == \E f \in files : IsStrictPrefix(at, f)

\* helpers::split(path, '.') has two parts: a '.' stands before the last character.
HasDot(path) ==
    \E i \in DOMAIN path : path[i] \in Dotted \/ (path[i] \in DotEnds /\ i < Len(path))

\* path.back() == '/'; of an empty text it reads the byte before it, which is none.
EndsInSlash(path) == path # <<>> /\ Last(path) = Slash

\* No name is "." or "..".
Plain(names) == \A i \in DOMAIN names : names[i] \notin {<<Dot>>, <<Up>>}

\* A name is a text without a '/', a file has one, and no file is a directory.
IsTree(files) ==
    /\ \A f \in files : f # <<>> /\ f \in Seq(Seq(STRING \ {Slash}) \ {<<>>}) /\ Plain(f)
    /\ \A f, g \in files : ~IsStrictPrefix(f, g)

ASSUME FilesAssumption ==
    /\ IsTree(Resources) /\ \A t \in DOMAIN TargetFiles : IsTree(TargetFiles[t])
    /\ \A f \in Outside : f # <<>> /\ f[1] = <<Up>>
    /\ {Index, Up} \subseteq Dotted /\ Dot \in DotEnds /\ Slash \notin Dotted \cup DotEnds

\* Literals are texts: true, and the provers have no theory of STRING.
ASSUME LiteralsAssumption == {Slash, Index} \subseteq STRING /\ DefaultUrl \in Texts

-----------------------------------------------------------------------------
(* Files.  What is found: a file, nothing, or an exception. *)

Found(file) == [is |-> "file", file |-> file]
Missing == [is |-> "missing", file |-> <<>>]
Throws == [is |-> "throws", file |-> <<>>]

\* Mutant: a name that is not in the tree is skipped.
SeekName_Skips(files, st, name) ==
    LET at == Append(st.at, name)
    IN IF st.null \/ st.at \in files \/ ~(at \in files \/ IsDirectory(files, at)) THEN st
       ELSE [st EXCEPT !.at = at]

\* One name of __seekFilePos: null stays null, and a file stays what it is.
SeekName(files, st, name) ==
    LET at == Append(st.at, name)
    IN CASE st.null \/ st.at \in files -> st
         [] ~(st.null \/ st.at \in files) /\ (at \in files \/ IsDirectory(files, at)) ->
               [st EXCEPT !.at = at]
         [] OTHER -> [st EXCEPT !.null = TRUE]

Sought(files, names) ==
    LET seek[i \in 0..Len(names)] ==
            IF i = 0 THEN [null |-> FALSE, at |-> <<>>] ELSE SeekName(files, seek[i - 1], names[i])
    IN seek[Len(names)]

\* A directory has no size: get throws.
seekFilePos(files, path) ==
    LET st == Sought(files, Segments(path))
    IN CASE st.null -> Missing
         [] ~st.null /\ st.at \in files -> Found(st.at)
         [] OTHER -> Throws

\* One name of a path that the system opens (external): "." stays in a directory
\* and ".." goes up; elsewhere, and on the way out of the tree, they are kept.
WalkName(files, at, name) ==
    LET inDirectory == at = <<>> \/ IsDirectory(files, at)
    IN CASE inDirectory /\ name = <<Dot>> -> at
         [] inDirectory /\ name = <<Up>> /\ at # <<>> -> Front(at)
         [] OTHER -> Append(at, name)

\* The place that names lead to.
Resolved(files, names) ==
    LET at[i \in 0..Len(names)] ==
            IF i = 0 THEN <<>> ELSE WalkName(files, at[i - 1], names[i])
    IN IF Plain(names) THEN names ELSE at[Len(names)]

\* fs::readFile: a directory opens and its size cannot be allocated.
readFile(files, path) ==
    LET at == Resolved(files, Segments(path))
        tree == files \cup Outside
    IN CASE at \in tree /\ ~EndsInSlash(path) -> Found(at)
         [] at \notin tree /\ IsDirectory(tree, at) -> Throws
         [] OTHER -> Missing

\* settings::joinAppPath, as seen from the directory of the application: a text
\* without a '/' before it goes on the name of that directory.
joinAppPath(path) ==
    IF path # <<>> /\ path[1] = Slash THEN path
    ELSE <<Slash, Up, Slash, "application">> \o path

\* resources::getFile.
getFile(mode, path) ==
    IF mode \in {"embedded", "bundle"} THEN seekFilePos(Resources, path)
    ELSE readFile(Resources, joinAppPath(path))

-----------------------------------------------------------------------------
(* Mounts. *)

\* helpers::normalizePath, and the empty path of a mount.
normalizePath(path) ==
    IF Len(path) > 1 /\ Last(path) = Slash THEN Front(path) ELSE path

MountPoint(path) == IF normalizePath(path) = <<>> THEN <<Slash>> ELSE normalizePath(path)

\* mountPath: the status and the mounts after it.
mountPath(mounts, path, target) ==
    LET at == MountPoint(path)
    IN CASE target \notin DOMAIN TargetFiles \cup FileTargets ->
               [status |-> "NE_FS_NOPATHE", mounts |-> mounts]
         [] target \in FileTargets -> [status |-> "NE_FS_NOTADIR", mounts |-> mounts]
         [] target \in DOMAIN TargetFiles /\ at \in DOMAIN mounts ->
               [status |-> "NE_SR_MPINUSE", mounts |-> mounts]
         [] OTHER -> [status |-> "NE_ST_OK",
                        mounts |-> [m \in DOMAIN mounts \cup {at} |->
                                       IF m = at THEN target ELSE mounts[m]]]

unmountPath(mounts, path) ==
    IF MountPoint(path) \in DOMAIN mounts
    THEN [status |-> "NE_ST_OK",
          mounts |-> [m \in DOMAIN mounts \ {MountPoint(path)} |-> mounts[m]]]
    ELSE [status |-> "NE_SR_NOMTPTH", mounts |-> mounts]

\* The mounts that begin a path; the first in the order of the map is the shortest.
MountsOf(mounts, pathname) == {m \in DOMAIN mounts : IsPrefix(m, pathname)}
MountFor(mounts, pathname) ==
    CHOOSE m \in MountsOf(mounts, pathname) :
        \A n \in MountsOf(mounts, pathname) : Len(m) <= Len(n)

-----------------------------------------------------------------------------
(* getAsset. *)

\* neuserver::getDocumentRoot.
getDocumentRoot(options) ==
    LET root == getOptionForCurrentMode(options, "documentRoot")
    IN CASE root = Null -> <<>>
         [] root # Null /\ EndsInSlash(root) -> Front(root)
         [] OTHER -> root

\* Mutant: the index page of a directory is looked for next to it.
Indexed_NoSlash(path) == IF HasDot(path) THEN path ELSE Append(path, Index)

\* A path without a '.' is a directory: its index page is meant.
Indexed(path) ==
    IF HasDot(path) THEN path
    ELSE Append(IF EndsInSlash(path) THEN path ELSE Append(path, Slash), Index)

\* Mutant: the mounts are compared with the path on disk.
ReadAsset_FullPath(options, mode, mounts, path) ==
    IF MountsOf(mounts, path) # {}
    THEN LET m == MountFor(mounts, path)
         IN [from |-> mounts[m],
             got |-> readFile(TargetFiles[mounts[m]],
                              <<Slash>> \o SubSeq(path, Len(m) + 1, Len(path)))]
    ELSE [from |-> "resources", got |-> getFile(mode, path)]

\* The path without the document root, and below the path of a mount.
Pathname(options, path) == SubSeq(path, Len(getDocumentRoot(options)) + 1, Len(path))
Below(m, pathname) == <<Slash>> \o SubSeq(pathname, Len(m) + 1, Len(pathname))

\* Where a path is read from, and what is found there.
ReadAsset(options, mode, mounts, path) ==
    LET pathname == Pathname(options, path)
    IN IF MountsOf(mounts, pathname) # {}
       THEN LET m == MountFor(mounts, pathname)
            IN [from |-> mounts[m],
                got |-> readFile(TargetFiles[mounts[m]], Below(m, pathname))]
       ELSE [from |-> "resources", got |-> getFile(mode, path)]

\* The page of a single page application: the text of the document root and
\* "index.html", or the url of the application.
MainPage(options) ==
    LET root == getOptionForCurrentMode(options, "documentRoot")
        url == getOptionForCurrentMode(options, "url")
    IN CASE root # Null -> Append(root, Index)
         [] root = Null /\ url # Null -> url
         [] OTHER -> DefaultUrl

\* A path that is not found is answered by the main page.
FallsBack(options, path, got) ==
    /\ got.is = "missing"
    /\ Enabled(options, "singlePageServe")
    /\ Last(path) = Index

\* Mutant: the main page is looked for again when it is itself missing.
getAsset_Again(options, mode, mounts, path) ==
    LET first == Indexed(path)
        r1 == ReadAsset(options, mode, mounts, first)
        second == Indexed(MainPage(options))
        r2 == ReadAsset(options, mode, mounts, second)
    IN CASE ~FallsBack(options, first, r1.got) -> r1
         [] FallsBack(options, first, r1.got) /\ ~FallsBack(options, second, r2.got) -> r2
         [] OTHER -> [from |-> "resources", got |-> [is |-> "diverges", file |-> <<>>]]

\* The call for the main page is a call of getAsset: it falls back in turn, on
\* the same page, and so ends only if that page is the path it was asked for.
getAsset(options, mode, mounts, path) ==
    LET first == Indexed(path)
        r1 == ReadAsset(options, mode, mounts, first)
        second == Indexed(MainPage(options))
        r2 == ReadAsset(options, mode, mounts, second)
        Ends(p, r) == ~FallsBack(options, p, r.got) \/ MainPage(options) = p
    IN CASE Ends(first, r1) -> r1
         [] ~Ends(first, r1) /\ Ends(second, r2) -> r2
         [] OTHER -> [from |-> "resources", got |-> [is |-> "diverges", file |-> <<>>]]

\* handleHTTP: the path of a request on disk.
Requested(options, resource) == getDocumentRoot(options) \o resource

-----------------------------------------------------------------------------
(* Byte ranges: "bytes=first-last", last may be absent (Null). *)

\* Signed arithmetic of the build: it wraps.
Wrapped(n) == IF n > MaxLL THEN n - 2 * (MaxLL + 1) ELSE n

\* Mutant: the last byte is not counted.
getFileReaderOptions_OffByOne(first, last) ==
    [pos |-> first,
     size |-> IF last # Null /\ last >= first THEN Wrapped(last - first) ELSE -1]

\* __getFileReaderOptionsFromHeaders, for numbers that stoll accepts.
getFileReaderOptions(first, last) ==
    [pos |-> first,
     size |-> IF last # Null /\ last >= first THEN Wrapped(last - first + 1) ELSE -1]

\* The bytes that are read from a file of so many bytes (__applyFileReaderOptions
\* and fs::readFile do the same): where and how many.
applyFileReaderOptions(origSize, o) ==
    LET Least(a, b) == IF a < b THEN a ELSE b
        pos == IF o.pos > -1 THEN Least(o.pos, origSize) ELSE 0
        rest == origSize - pos
    IN [pos |-> pos, size |-> IF o.size > -1 THEN Least(o.size, rest) ELSE rest]

\* The answer to a range of a file that is there.  The headers (first, last and
\* length) are made of the bytes read; what is prepended, the globals before the
\* client library, comes after that.
RangeAnswer(origSize, o, prependData) ==
    LET read == applyFileReaderOptions(origSize, o)
    IN IF o.pos >= origSize
       THEN [status |-> 416, first |-> 0, last |-> 0, body |-> prependData, length |-> 0]
       ELSE [status |-> 206, first |-> o.pos, last |-> o.pos + read.size - 1,
             body |-> prependData \o [i \in 1..read.size |-> read.pos + i - 1],
             length |-> read.size]

-----------------------------------------------------------------------------
(* Native calls. *)

\* executeNativeMethod, for a method that changes the mounts or does not exist:
\* the status and the mounts after it.
executeNativeMethod(options, p, mounts, call) ==
    LET Refused(status) == [status |-> status, mounts |-> mounts]
    IN CASE ~call.token -> Refused("NE_RT_INVTOKN")
         [] call.token /\ ~hasAPIAccess(options) -> Refused("NE_RT_APIPRME")
         [] call.token /\ hasAPIAccess(options) /\ ~hasMethodAccess(p, call.method) ->
               Refused("NE_RT_NATPRME")
         [] OTHER ->
               CASE call.method = <<"server", "mount">> ->
                       mountPath(mounts, call.path, call.target)
                 [] call.method = <<"server", "unmount">> -> unmountPath(mounts, call.path)
                 [] OTHER -> Refused("NE_RT_NATNTIM")

=============================================================================
