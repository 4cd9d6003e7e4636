----------------------------- MODULE Workspace -----------------------------
(***************************************************************************)
(* The workspace endpoints of src/openhands/server/routes/copy_to_workspace.py *)
(* and the agent runtime that shares the mounted workspace directory.     *)
(*                                                                         *)
(* Both handlers are `async def` bodies without an await, so the server   *)
(* runs each one to completion before any other request: copy_to_workspace *)
(* is one action.  The runtime is another process writing to the same     *)
(* directory, so clear_workspace is split at its file-system calls: the   *)
(* glob of the workspace; for each globbed item the isdir() test, then    *)
(* os.remove, or shutil.rmtree as a walk that unlinks what the directory  *)
(* holds followed by the rmdir of the directory itself; the glob of       *)
(* uploads and the same steps for each upload; the response.              *)
(*                                                                         *)
(* A path string is a sequence of tokens: "/" separators and whole         *)
(* components.  A file-system path is a sequence of components from the    *)
(* root, resolved lexically (no symbolic links).                           *)
(***************************************************************************)
EXTENDS SequencesExt, FiniteSets, Integers

CONSTANTS
    Dests,          \* values of the `destination` form field
    Filenames,      \* UploadFile.filename values
    RuntimeFiles,   \* paths at which the runtime creates or deletes files
    RuntimeDirs,    \* paths at which the runtime creates directories
    HiddenNames,    \* component names that start with '.'
    SplitAtBackslash \* each component name holding a backslash, as the
                     \* tokens str.replace('\\', '/') turns it into

VARIABLES
    files,      \* paths of regular files
    dirs,       \* paths of directories
    clearPc,    \* where clear_workspace is: "idle", "loop", "uploads", "done"
    items,      \* globbed workspace items not yet processed
    uploadItems,\* globbed uploads not yet processed
    cur,        \* the item being removed and the call about to be made
    removed,    \* removed_items of the running clear
    snapshot,   \* ghost: everything the clear globbed
    touched,    \* ghost: paths others changed since the last clear began
    lastCopy    \* ghost: outcome of the last copy_to_workspace call

vars == <<files, dirs, clearPc, items, uploadItems, cur, removed, snapshot,
          touched, lastCopy>>

NoItem == [item |-> << >>, call |-> "none"]

\* WORKSPACE_BASE unset: '/opt/workspace_base'.
BaseStr == <<"/", "opt", "/", "workspace_base">>
Base == <<"opt", "workspace_base">>
Uploads == Base \o <<"uploads">>

(***************************************************************************)
(* posixpath and the OS's resolution of a path.                            *)
(***************************************************************************)

\* os.path.join(a, b)
Join(a, b) ==
    IF b # << >> /\ Head(b) = "/" THEN b
    ELSE IF a = << >> \/ Last(a) = "/" THEN a \o b
    ELSE a \o <<"/">> \o b

\* The file the OS opens for an absolute path string: empty components and
\* "." dropped, ".." going up one level (and staying at the root).
Resolve(p) ==
    LET Step(acc, t) ==
            CASE t \in {"/", "."} -> acc
              [] t = ".."         -> IF acc = << >> THEN acc ELSE Front(acc)
              [] OTHER            -> Append(acc, t)
    IN FoldLeft(Step, << >>, p)

\* str.replace('//', '/'): non-overlapping, left to right, one pass.
RECURSIVE ReplaceDoubleSlash(_)
ReplaceDoubleSlash(p) ==
    IF Len(p) < 2 THEN p
    ELSE IF p[1] = "/" /\ p[2] = "/" THEN <<"/">> \o ReplaceDoubleSlash(Tail(Tail(p)))
    ELSE <<p[1]>> \o ReplaceDoubleSlash(Tail(p))

\* str.replace('\\', '/'): a component holding a backslash splits in two.
ReplaceBackslash(p) ==
    FoldLeft(LAMBDA acc, t : acc \o (IF t \in DOMAIN SplitAtBackslash
                                     THEN SplitAtBackslash[t] ELSE <<t>>),
             << >>, p)

IsUnder(p, d) == IsPrefix(d, p) /\ p # d
Children(d) == {p \in files \cup dirs : Len(p) = Len(d) + 1 /\ IsPrefix(d, p)}
\* glob.glob(os.path.join(d, '*')): names starting with '.' do not match.
Glob(d) == {p \in Children(d) : Last(p) \notin HiddenNames}

\* os.makedirs(path, exist_ok=True) succeeds unless a prefix is a file.
MakedirsOk(p) == \A k \in 1 .. Len(p) : SubSeq(p, 1, k) \notin files
MakedirsDirs(p) == {SubSeq(p, 1, k) : k \in 0 .. Len(p)}

\* Ghost: writes by anyone but the clear since the last clear began.
TouchAll(ps) == touched' = IF clearPc # "idle" THEN touched \cup ps ELSE touched

(***************************************************************************)
(* copy_to_workspace                                                       *)
(***************************************************************************)

\* Mutant: the reported path built without the destination.
RelativePathNoDest(dest, filename) ==
    ReplaceDoubleSlash(ReplaceBackslash(Join(<<"/", "workspace">>, filename)))

\* The path reported to the client, as the runtime container sees it.
RelativePath(dest, filename) ==
    ReplaceDoubleSlash(ReplaceBackslash(Join(Join(<<"/", "workspace">>, dest), filename)))

CopyToWorkspace(destination, filename) ==
    LET dest == IF destination = << >> THEN <<"uploads">> ELSE destination
        full == Resolve(Join(BaseStr, dest))
        path == Resolve(Join(Join(BaseStr, dest), filename))
        rel  == RelativePath(dest, filename)
        ok   == /\ MakedirsOk(full)
                /\ path \notin dirs \cup MakedirsDirs(full)
                /\ Front(path) \in dirs \cup MakedirsDirs(full)
    IN /\ clearPc \in {"idle", "done"}
       /\ dirs' = IF MakedirsOk(full) THEN dirs \cup MakedirsDirs(full) ELSE dirs
       /\ files' = IF ok THEN files \cup {path} ELSE files
       /\ lastCopy' = IF ok THEN [status |-> 200, file |-> path, path |-> rel]
                            ELSE [status |-> 500, file |-> << >>, path |-> << >>]
       /\ TouchAll((files' \ files) \cup (dirs' \ dirs))
       /\ UNCHANGED <<clearPc, items, uploadItems, cur, removed, snapshot>>

(***************************************************************************)
(* clear_workspace                                                         *)
(***************************************************************************)

\* Mutant: removed_items not reset between calls.
ClearStartKeepsRemoved ==
    /\ clearPc \in {"idle", "done"}
    /\ MakedirsOk(Uploads)
    /\ dirs' = dirs \cup MakedirsDirs(Uploads)
    /\ items' = Glob(Base) \cup {Uploads}
    /\ snapshot' = Glob(Base) \cup {Uploads}
    /\ touched' = {}
    /\ clearPc' = "loop"
    /\ UNCHANGED <<files, uploadItems, cur, lastCopy, removed>>

\* makedirs(uploads) then glob the workspace.
ClearStart ==
    /\ clearPc \in {"idle", "done"}
    /\ MakedirsOk(Uploads)
    /\ dirs' = dirs \cup MakedirsDirs(Uploads)
    /\ items' = Glob(Base) \cup {Uploads}
    /\ snapshot' = Glob(Base) \cup {Uploads}
    /\ removed' = {}
    /\ touched' = {}
    /\ clearPc' = "loop"
    /\ UNCHANGED <<files, uploadItems, cur, lastCopy>>

\* Any other item: os.path.isdir(item) chooses shutil.rmtree or os.remove.
ClearItem(item) ==
    /\ clearPc = "loop"
    /\ cur = NoItem
    /\ item \in items
    /\ item # Uploads
    /\ items' = items \ {item}
    /\ cur' = [item |-> item, call |-> IF item \in dirs THEN "rmtree" ELSE "remove"]
    /\ UNCHANGED <<files, dirs, clearPc, uploadItems, removed, snapshot, touched, lastCopy>>

\* Mutant: the try/except placed around the whole loop, so the first
\* failing removal ends it.
ClearRemoveAbortOnError ==
    /\ cur.call = "remove"
    /\ IF cur.item \in files
         THEN /\ files' = files \ {cur.item}
              /\ removed' = removed \cup {cur.item}
              /\ UNCHANGED <<items, uploadItems>>
         ELSE /\ items' = {} /\ uploadItems' = {}
              /\ UNCHANGED <<files, removed>>
    /\ cur' = NoItem
    /\ UNCHANGED <<dirs, clearPc, snapshot, touched, lastCopy>>

\* os.remove(item) and removed_items.append: a file is unlinked and
\* reported; a path gone or now a directory raises, which is logged and
\* the loop goes on.
ClearRemove ==
    /\ cur.call = "remove"
    /\ IF cur.item \in files
         THEN /\ files' = files \ {cur.item}
              /\ removed' = removed \cup {cur.item}
         ELSE UNCHANGED <<files, removed>>
    /\ cur' = NoItem
    /\ UNCHANGED <<dirs, clearPc, items, uploadItems, snapshot, touched, lastCopy>>

\* shutil.rmtree(item), its walk: everything the directory holds now is
\* unlinked; a path gone or now a file raises (logged, loop goes on).
ClearRmtreeWalk ==
    /\ cur.call = "rmtree"
    /\ IF cur.item \in dirs
         THEN /\ files' = {p \in files : ~IsUnder(p, cur.item)}
              /\ dirs' = {p \in dirs : ~IsUnder(p, cur.item)}
              /\ cur' = [cur EXCEPT !.call = "rmdir"]
         ELSE /\ cur' = NoItem
              /\ UNCHANGED <<files, dirs>>
    /\ UNCHANGED <<clearPc, items, uploadItems, removed, snapshot, touched, lastCopy>>

\* Mutant: removed_items.append made whether or not the rmdir succeeded.
ClearRmdirReportsAlways ==
    /\ cur.call = "rmdir"
    /\ dirs' = IF Children(cur.item) = {} THEN dirs \ {cur.item} ELSE dirs
    /\ removed' = removed \cup {cur.item}
    /\ cur' = NoItem
    /\ UNCHANGED <<files, clearPc, items, uploadItems, snapshot, touched, lastCopy>>

\* Mutant: a failed rmdir retried, rmtree walking the directory again.
ClearRmdirRetries ==
    /\ cur.call = "rmdir"
    /\ IF Children(cur.item) = {}
         THEN /\ dirs' = dirs \ {cur.item}
              /\ removed' = removed \cup {cur.item}
              /\ cur' = NoItem
         ELSE /\ cur' = [cur EXCEPT !.call = "rmtree"]
              /\ UNCHANGED <<dirs, removed>>
    /\ UNCHANGED <<files, clearPc, items, uploadItems, snapshot, touched, lastCopy>>

\* shutil.rmtree(item), its last call: rmdir, which fails if the runtime
\* put something in the directory during the walk; then
\* removed_items.append.
ClearRmdir ==
    /\ cur.call = "rmdir"
    /\ IF Children(cur.item) = {}
         THEN /\ dirs' = dirs \ {cur.item}
              /\ removed' = removed \cup {cur.item}
         ELSE UNCHANGED <<dirs, removed>>
    /\ cur' = NoItem
    /\ UNCHANGED <<files, clearPc, items, uploadItems, snapshot, touched, lastCopy>>

\* The uploads item: glob inside it.
ClearUploadsGlob ==
    /\ clearPc = "loop"
    /\ cur = NoItem
    /\ Uploads \in items
    /\ items' = items \ {Uploads}
    /\ uploadItems' = Glob(Uploads)
    /\ snapshot' = snapshot \cup Glob(Uploads)
    /\ clearPc' = "uploads"
    /\ UNCHANGED <<files, dirs, cur, removed, touched, lastCopy>>

\* An upload: the same isdir() test and removal.
ClearUploadItem(item) ==
    /\ clearPc = "uploads"
    /\ cur = NoItem
    /\ item \in uploadItems
    /\ uploadItems' = uploadItems \ {item}
    /\ cur' = [item |-> item, call |-> IF item \in dirs THEN "rmtree" ELSE "remove"]
    /\ UNCHANGED <<files, dirs, clearPc, items, removed, snapshot, touched, lastCopy>>

ClearUploadsDone ==
    /\ clearPc = "uploads"
    /\ cur = NoItem
    /\ uploadItems = {}
    /\ clearPc' = "loop"
    /\ UNCHANGED <<files, dirs, items, uploadItems, cur, removed, snapshot, touched, lastCopy>>

ClearRespond ==
    /\ clearPc = "loop"
    /\ cur = NoItem
    /\ items = {}
    /\ clearPc' = "done"
    /\ UNCHANGED <<files, dirs, items, uploadItems, cur, removed, snapshot, touched, lastCopy>>

(***************************************************************************)
(* The agent runtime, writing to the mounted workspace.                    *)
(***************************************************************************)

Touch(p) == TouchAll({p})

RuntimeCreateFile(p) ==
    /\ p \notin files \cup dirs
    /\ Front(p) \in dirs
    /\ files' = files \cup {p}
    /\ Touch(p)
    /\ UNCHANGED <<dirs, clearPc, items, uploadItems, cur, removed, snapshot, lastCopy>>

RuntimeMkdir(p) ==
    /\ p \notin files \cup dirs
    /\ Front(p) \in dirs
    /\ dirs' = dirs \cup {p}
    /\ Touch(p)
    /\ UNCHANGED <<files, clearPc, items, uploadItems, cur, removed, snapshot, lastCopy>>

RuntimeDeleteFile(p) ==
    /\ p \in files
    /\ files' = files \ {p}
    /\ Touch(p)
    /\ UNCHANGED <<dirs, clearPc, items, uploadItems, cur, removed, snapshot, lastCopy>>

Init ==
    /\ files \in SUBSET RuntimeFiles
    /\ dirs = {<< >>, <<"opt">>, Base, <<"etc">>}
    /\ \A f \in files : Front(f) \in dirs
    /\ clearPc = "idle"
    /\ items = {}
    /\ uploadItems = {}
    /\ cur = NoItem
    /\ removed = {}
    /\ snapshot = {}
    /\ touched = {}
    /\ lastCopy = [status |-> 0, file |-> << >>, path |-> << >>]

\* The steps of a clear_workspace call in progress.
ClearSteps ==
    \/ \E i \in items : ClearItem(i)
    \/ ClearUploadsGlob
    \/ \E i \in uploadItems : ClearUploadItem(i)
    \/ ClearRemove
    \/ ClearRmtreeWalk
    \/ ClearRmdir
    \/ ClearUploadsDone
    \/ ClearRespond

Next ==
    \/ \E d \in Dests, f \in Filenames : CopyToWorkspace(d, f)
    \/ ClearStart
    \/ ClearSteps
    \/ \E p \in RuntimeFiles : RuntimeCreateFile(p) \/ RuntimeDeleteFile(p)
    \/ \E p \in RuntimeDirs : RuntimeMkdir(p)

\* A request the server has begun runs to its response: the handler has
\* no await, so nothing of the server's can stop it.  Clients and the
\* runtime get no fairness.
Spec == Init /\ [][Next]_vars /\ WF_vars(ClearSteps)

(***************************************************************************)
(* Properties.                                                             *)
(***************************************************************************)

Path == Seq(STRING)

TypeOK ==
    /\ files \subseteq Path /\ dirs \subseteq Path
    /\ files \cap dirs = {}
    /\ clearPc \in {"idle", "loop", "uploads", "done"}
    /\ items \subseteq Path /\ uploadItems \subseteq Path
    /\ cur \in [item : Path, call : {"none", "remove", "rmtree", "rmdir"}]
    /\ removed \subseteq snapshot
    /\ lastCopy.status \in {0, 200, 500}

\* Ghost: the runtime or an upload changed p or something beneath it since
\* the clear began.
TouchedAtOrBeneath(p) == \E q \in touched : IsPrefix(p, q)

\* When clear_workspace responds, every entry it globbed is gone unless it
\* is the uploads directory or the runtime changed it, or put something in
\* it, while the clear ran: an isdir() answer made stale by the runtime or
\* an rmtree that loses the race makes only that item fail (the per-item
\* try/except), never the rest of the loop.
ClearRemovesSnapshot ==
    clearPc = "done" =>
        \A p \in snapshot \ {Uploads} :
            p \in files \cup dirs => TouchedAtOrBeneath(p)

\* removed_items reports only what was removed: when the clear responds,
\* each reported entry is gone unless the runtime or an upload created that
\* very path again (the append follows only a remove or an rmtree that
\* succeeded; an rmtree whose final rmdir lost the race is not reported).
ReportedRemovedAreGone ==
    clearPc = "done" =>
        \A p \in removed : p \in files \cup dirs => p \in touched

\* A clear_workspace call that has started always responds, whatever the
\* runtime writes meanwhile: each snapshot entry is tried once, and a
\* failing isdir/remove/rmtree is logged and never retried.
ClearResponds == clearPc \in {"loop", "uploads"} ~> clearPc = "done"

\* The docstring: clear_workspace "removes all files and directories in the
\* workspace directory" and "removes all files within" uploads.  With no
\* concurrent writer, a finished clear leaves only the empty uploads
\* directory.
ClearLeavesOnlyUploads ==
    (clearPc = "done" /\ touched = {}) =>
        /\ Children(Base) = {Uploads}
        /\ Children(Uploads) = {}

\* The `destination` parameter is "the subdirectory within workspace to
\* copy to": a successful copy writes a file inside the workspace.
WrittenInsideWorkspace ==
    lastCopy.status = 200 => IsUnder(lastCopy.file, Base)

\* The host file a path in the runtime container names: the workspace base
\* is mounted at /workspace; any other container path is not on the host.
HostFileOf(rel) ==
    LET r == Resolve(rel)
    IN IF r # << >> /\ Head(r) = "workspace" THEN Base \o Tail(r)
       ELSE <<"container">> \o r

\* The `path` a successful copy_to_workspace returns names, inside the
\* runtime container, the very file the handler wrote on the host (the
\* workspace "is mounted to the runtime container").
ReportedPathIsWritten ==
    lastCopy.status = 200 => HostFileOf(lastCopy.path) = lastCopy.file

=============================================================================
