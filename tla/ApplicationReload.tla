-------------------------- MODULE ApplicationReload --------------------------
(***************************************************************************)
(* How a running application keeps up with its files.                      *)
(*                                                                         *)
(* A directory is watched: what the watcher reports is collected until it  *)
(* is quiet, batches are worked off one after another, a batch of sheets   *)
(* refreshes links in place and any other replaces the document.  Files    *)
(* keep changing meanwhile, a reload may fail, and the window may close.   *)
(* A dev server is read through a registry that confirms a module by       *)
(* reading it and hands the same text to the engine later; the server may  *)
(* be gone by then.                                                        *)
(* A file is its version.  The document links two sheets, one of which     *)
(* imports a third, and runs one script, which imports others at any time. *)
(*                                                                         *)
(* External: the editor, the watcher, the server, and Bun's module cache   *)
(* (a module path is evaluated once).                                      *)
(***************************************************************************)
EXTENDS Naturals, Sequences, SequencesExt

CONSTANT MaxVersion   \* bound: versions written to onDisk, the first included

Sheets == {"linked", "importing", "imported"}

Files == Sheets \cup {"page", "main", "lazy"}

VARIABLES
    source,          \* "directory" or "server": the AppFiles variant
    onDisk,          \* file -> its version, 0 when there is none
    newest,          \* versions written so far
    broken,          \* versions of "main" that throw
    serving,         \* the server answers
    unreported,      \* changes the watcher has not reported
    notified, armed, \* the coordinator: files, the timer
    batches,         \* the promise chain: batches that have not begun
    doing,           \* the batch being worked off
    open,            \* the session: "no", "yes", or "over"
    view,            \* the document in the window: its number, file -> version
    inRealm,         \* the document the scripts live in, url -> version evaluated
    fetched, loaded, \* ModuleRegistry: url -> version
    importing,       \* urls resolved for the engine and not yet asked for
    overlooked       \* history: files a batch or a confirmed import gave up on

writtenVars == <<onDisk, newest, broken>>
watchVars == <<unreported, notified, armed, batches, doing>>
moduleVars == <<fetched, loaded, importing>>
reloadVars == <<source, writtenVars, serving, watchVars, open, view, inRealm, moduleVars, overlooked>>

(***************************************************************************)
(* Module resolution                                                       *)
(***************************************************************************)
Outside == <<"..">>

\* One segment of a specifier; a path left of the root is refused.
Walk(path, segment) ==
    CASE path = Outside -> Outside
      [] segment = "." -> path
      [] segment = ".." -> IF path = <<>> THEN Outside ELSE Front(path)
      [] OTHER -> Append(path, segment)

Normalise(base, segments) == FoldLeft(Walk, base, segments)

\* modules::resolve
ResolveUrl(referrer, specifier) ==
    [path |-> Normalise(IF specifier.rooted THEN <<>> ELSE Front(referrer.path),
                        specifier.segments),
     query |-> specifier.query]

Inside(url) == url.path \notin {<<>>, Outside}

MainUrl == [path |-> <<"assets", "main">>, query |-> 0]

\* What the script writes in an import.
Specifiers ==
    {[rooted |-> r, segments |-> s, query |-> q] :
        r \in {FALSE}, s \in {<<".", "lazy">>, <<"..", "assets", "lazy">>}, q \in {0}}
    \cup {[rooted |-> TRUE, segments |-> <<"assets", "lazy">>, query |-> 1],
          [rooted |-> FALSE, segments |-> <<".", "main">>, query |-> 0],
          [rooted |-> FALSE, segments |-> <<"..", "..", "lazy">>, query |-> 0]}

ModuleUrls == {u \in {ResolveUrl(MainUrl, s) : s \in Specifiers} : Inside(u)}

\* file_of: a query reaches a server and names the same file.
FileOf(url) == Last(url.path)

\* What the fold over a specifier's segments comes to, for the specifiers above.
ASSUME UrlAssumption == \A u \in ModuleUrls : FileOf(u) \in Files \ Sheets

NoModules == [u \in ModuleUrls |-> 0]

(***************************************************************************)
(* The document                                                            *)
(***************************************************************************)
Read(file) == IF source = "server" /\ ~serving THEN 0 ELSE onDisk[file]

NoBatch == [batch |-> <<>>, left |-> <<>>, swapped |-> 0]

ReloadInit ==
    /\ source \in {"directory", "server"}
    /\ onDisk = [f \in Files |-> 1] /\ newest = 1 /\ broken = {}
    /\ serving = TRUE
    /\ unreported = {} /\ notified = <<>> /\ armed = FALSE /\ batches = <<>> /\ doing = NoBatch
    /\ open = "no"
    /\ view = [doc |-> 0, shown |-> [f \in Sheets \cup {"page"} |-> 0]]
    /\ inRealm = [doc |-> 0, ran |-> NoModules]
    /\ fetched = NoModules /\ loaded = NoModules /\ importing = {}
    /\ overlooked = {}

Absent(file) == Read(file) = 0

Throws == onDisk["main"] \in broken

\* The served page's script is read through the registry; a file's text by Bun.
RunScripts(doc) ==
    /\ inRealm' = [doc |-> doc, ran |-> [NoModules EXCEPT ![MainUrl] = Read("main")]]
    /\ fetched' = NoModules /\ importing' = {}
    /\ loaded' = IF source = "server" THEN [NoModules EXCEPT ![MainUrl] = Read("main")]
                 ELSE NoModules

\* load_window_document and what follows it.  A page that cannot be read leaves
\* the last one and its scripts; a script that throws leaves only the view.
LoadDocument ==
    LET doc == inRealm.doc + 1
    IN IF Absent("page") THEN UNCHANGED <<view, inRealm, moduleVars, overlooked>>
       ELSE /\ RunScripts(doc)
            /\ IF Throws THEN UNCHANGED <<view, overlooked>>
               ELSE /\ view' = [doc |-> doc, shown |-> [f \in DOMAIN view.shown |-> Read(f)]]
                    /\ overlooked' = {}

\* WindowSession::reload, refused when there is no session.
Reload ==
    IF open = "yes" THEN LoadDocument ELSE UNCHANGED <<view, inRealm, moduleVars, overlooked>>

\* openDirectory: a session that fails to open ends the program.
OpenDirectory ==
    /\ open = "no"
    /\ LoadDocument
    /\ open' = IF Absent("page") \/ Throws THEN "over" ELSE "yes"
    /\ UNCHANGED <<source, writtenVars, serving, watchVars>>

(***************************************************************************)
(* The files                                                               *)
(***************************************************************************)
Change(file, version) ==
    /\ onDisk' = [onDisk EXCEPT ![file] = version]
    /\ unreported' = IF source = "directory" THEN unreported \cup {file} ELSE unreported

WriteFile(file) ==
    /\ newest < MaxVersion /\ newest' = newest + 1
    /\ Change(file, newest')
    /\ \E throws \in {TRUE, FALSE} :
          /\ throws => file = "main"
          /\ broken' = IF throws THEN broken \cup {newest'} ELSE broken
    /\ UNCHANGED <<source, serving, notified, armed, batches, doing, open, view, inRealm,
                   moduleVars, overlooked>>

DeleteFile(file) ==
    /\ newest < MaxVersion /\ newest' = newest + 1 /\ onDisk[file] # 0
    /\ Change(file, 0)
    /\ UNCHANGED <<source, broken, serving, notified, armed, batches, doing, open, view, inRealm,
                   moduleVars, overlooked>>

ServerTurns ==
    /\ source = "server" /\ serving' = ~serving
    /\ UNCHANGED <<source, writtenVars, watchVars, open, view, inRealm, moduleVars, overlooked>>

(***************************************************************************)
(* createReloadCoordinator                                                 *)
(***************************************************************************)
\* Only an open directory is watched, and a closed coordinator hears nothing.
Notify(file) ==
    /\ file \in unreported /\ unreported' = unreported \ {file}
    /\ IF open # "yes" THEN UNCHANGED <<notified, armed>>
       ELSE /\ notified' = IF \E i \in DOMAIN notified : notified[i] = file THEN notified
                          ELSE Append(notified, file)
            /\ armed' = TRUE
    /\ UNCHANGED <<source, writtenVars, serving, batches, doing, open, view, inRealm, moduleVars,
                   overlooked>>

\* A mutant forgets what was collected while a batch is being worked off.
FlushOnce ==
    /\ armed /\ armed' = FALSE
    /\ notified' = <<>> /\ batches' = IF doing = NoBatch THEN Append(batches, notified) ELSE batches
    /\ UNCHANGED <<source, writtenVars, serving, unreported, doing, open, view, inRealm,
                   moduleVars, overlooked>>

Flush ==
    /\ armed /\ armed' = FALSE
    /\ notified' = <<>> /\ batches' = Append(batches, notified)
    /\ UNCHANGED <<source, writtenVars, serving, unreported, doing, open, view, inRealm,
                   moduleVars, overlooked>>

BeginBatch ==
    /\ doing = NoBatch /\ batches # <<>> /\ batches' = Tail(batches)
    /\ doing' = [batch |-> Head(batches), left |-> Head(batches), swapped |-> 0]
    /\ UNCHANGED <<source, writtenVars, serving, unreported, notified, armed, open, view, inRealm,
                   moduleVars, overlooked>>

IsSheets(batch) == ToSet(batch) \subseteq Sheets

\* The links of the document, and what their sheets import.
Refreshed(file) ==
    CASE file = "linked" -> {"linked"}
      [] file = "importing" -> {"importing", "imported"}
      [] OTHER -> {}

\* reloadCSS for the next sheet of the batch.
ReloadCSS ==
    /\ doing.left # <<>> /\ IsSheets(doing.batch)
    /\ LET file == Head(doing.left)
       IN IF open # "yes" \/ onDisk[file] = 0
          THEN /\ doing' = NoBatch
               /\ overlooked' = overlooked \cup ToSet(doing.left)
                                    \cup {f \in ToSet(doing.batch) : Refreshed(f) = {}}
               /\ UNCHANGED view
          ELSE /\ doing' = [doing EXCEPT !.left = Tail(@),
                                         !.swapped = IF Refreshed(file) = {} THEN @ ELSE @ + 1]
               /\ view' = [view EXCEPT !.shown =
                             [f \in DOMAIN @ |-> IF f \in Refreshed(file) THEN onDisk[f] ELSE @[f]]]
               /\ overlooked' = overlooked \ Refreshed(file)
    /\ UNCHANGED <<source, writtenVars, serving, unreported, notified, armed, batches, open, inRealm,
                   moduleVars>>

\* The rest of a batch: a sheet nothing links needs a document when no other
\* sheet of its batch was refreshed.
EndBatch ==
    /\ doing # NoBatch
    /\ doing.left = <<>> \/ ~IsSheets(doing.batch)
    /\ doing' = NoBatch
    /\ IF doing.swapped > 0
       THEN /\ overlooked' = overlooked \cup
                  {f \in ToSet(doing.batch) :
                     \A g \in ToSet(doing.batch) : f \notin Refreshed(g)}
            /\ UNCHANGED <<view, inRealm, moduleVars>>
       ELSE Reload
    /\ UNCHANGED <<source, writtenVars, serving, unreported, notified, armed, batches, open>>

\* pumpWindow finds the window gone; the watcher closes in the same turn.
EndSession ==
    /\ open = "yes" /\ open' = "over"
    /\ notified' = <<>> /\ armed' = FALSE
    /\ UNCHANGED <<source, writtenVars, serving, unreported, batches, doing, view, inRealm,
                   moduleVars, overlooked>>

(***************************************************************************)
(* Dynamic imports                                                         *)
(***************************************************************************)
ImportLocal(specifier) ==
    LET url == ResolveUrl(MainUrl, specifier)
    IN /\ source = "directory" /\ open = "yes" /\ Inside(url)
       /\ inRealm.ran[url] = 0 /\ inRealm' = [inRealm EXCEPT !.ran[url] = onDisk[FileOf(url)]]
       /\ UNCHANGED <<source, writtenVars, serving, watchVars, open, view, moduleVars, overlooked>>

\* ModuleRegistry::resolve, called back for an import of a served module.
ResolveImport(specifier) ==
    LET url == ResolveUrl(MainUrl, specifier)
    IN /\ source = "server" /\ open = "yes" /\ Inside(url)
       /\ inRealm.ran[url] = 0 /\ url \notin importing
       /\ IF loaded[url] # 0 \/ fetched[url] # 0 THEN UNCHANGED fetched
          ELSE Read(FileOf(url)) # 0 /\ fetched' = [fetched EXCEPT ![url] = Read(FileOf(url))]
       /\ importing' = importing \cup {url}
       /\ UNCHANGED <<source, writtenVars, serving, watchVars, open, view, inRealm, loaded, overlooked>>

\* A mutant reads again what the resolution read.
ReadAgain(url) == Read(FileOf(url))

\* ModuleRegistry::source's choice of bytes.
ClaimedText(url) == IF fetched[url] # 0 THEN fetched[url] ELSE Read(FileOf(url))

LoadImport(url) ==
    /\ url \in importing /\ importing' = importing \ {url}
    /\ loaded' = [loaded EXCEPT ![url] = IF @ # 0 THEN @ ELSE ClaimedText(url)]
    /\ fetched' = [fetched EXCEPT ![url] = IF loaded[url] # 0 THEN @ ELSE 0]
    /\ inRealm' = [inRealm EXCEPT !.ran[url] = loaded'[url]]
    /\ overlooked' = IF loaded'[url] = 0 THEN overlooked \cup {FileOf(url)} ELSE overlooked
    /\ UNCHANGED <<source, writtenVars, serving, watchVars, open, view>>

ReloadNext ==
    \/ OpenDirectory \/ ServerTurns \/ Flush \/ BeginBatch \/ ReloadCSS \/ EndBatch
    \/ EndSession
    \/ \E f \in Files : WriteFile(f) \/ DeleteFile(f) \/ Notify(f)
    \/ \E s \in Specifiers : ImportLocal(s) \/ ResolveImport(s)
    \/ \E u \in importing : LoadImport(u)

ReloadSpec == ReloadInit /\ [][ReloadNext]_reloadVars

(***************************************************************************)
(* Properties                                                              *)
(***************************************************************************)
AllReloaded == unreported = {} /\ ~armed /\ batches = <<>> /\ doing = NoBatch

\* When nothing is left to report or to reload, the window shows what the
\* directory holds and its scripts are those of the document shown, unless
\* the directory cannot be loaded as it is; the sheets a batch gave up on
\* are the only ones left behind.
ShowsTheDisk ==
    source = "directory" /\ open = "yes" /\ AllReloaded /\ ~Absent("page") /\ ~Throws =>
        /\ \A f \in DOMAIN view.shown : view.shown[f] = onDisk[f] \/ f \in overlooked
        /\ view.doc = inRealm.doc
        /\ \A u \in ModuleUrls : inRealm.ran[u] \in {0, onDisk[FileOf(u)]}

\* A module that was resolved is there when the engine asks for it, whatever
\* became of the server, and a url has one text for every import of it.
ResolvedIsDelivered ==
    source = "server" =>
        /\ overlooked = {}
        /\ \A u \in importing : fetched[u] # 0 \/ loaded[u] # 0
        /\ \A u \in ModuleUrls : inRealm.ran[u] # 0 => loaded[u] = inRealm.ran[u]

\* The running application is that of its files: a directory's last state, and
\* for a served one the text each import confirmed.
RunsItsFiles == ShowsTheDisk /\ ResolvedIsDelivered
=============================================================================
