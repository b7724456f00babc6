-------------------------- MODULE MarkdownRenderer --------------------------
(***************************************************************************)
(* The markdown-renderer add-on: run.sh runs generate_nginx.py, then        *)
(* _git_sync.py once, starts the 5 s loop of _git_sync.py --periodic and    *)
(* becomes nginx.  The container may be killed at any step; /tmp, where the *)
(* pages and nginx.conf are written, survives a restart of the container.   *)
(*                                                                         *)
(* A namespace of the options is a record of what the validators look at:   *)
(* the class of its name, the sizes and URL schemes of its CSS and plugins, *)
(* and its git fields.  Git (external) does what the code relies on.        *)
(***************************************************************************)
EXTENDS ServiceValues, Integers, FiniteSets, Sequences

CONSTANTS
  Sites,       \* what options.json may hold: sequences of directory entries
  MaxTroubles  \* bound on kills, option changes, failing git calls and commits

VARIABLES
  mdOptions,  \* options.json
  docroots,   \* /tmp: namespace |-> the entry its index.html was made from
  landing,    \* the entries on the landing page, or None
  conf,       \* nginx.conf: "none", "minimal" or the entries it serves
  mdAt,       \* next step of run.sh and the scripts it runs
  entries,    \* validated namespaces, as a set
  left,       \* namespaces the current loop has still to visit
  served,     \* what nginx serves since it started, or None
  dirs,       \* Markdown directories: namespace |-> [kind, base, own]
  mdRemote,   \* the commit at the head of every remote
  troubles

tmp == <<docroots, landing, conf>>
mdVars == <<mdOptions, tmp, mdAt, entries, left, served, dirs, mdRemote, troubles>>

Elements(s) == {s[i] : i \in 1..Len(s)}
MdNames == UNION {{e.name : e \in Elements(o)} : o \in Sites}
Pages == [n \in {} |-> None]

-----------------------------------------------------------------------------
(* validate_directories *)

SizeAllowed(size) == size \in {"none", "small", "warned"}
UrlAllowed(url) == url \in {"none", "https"}

\* Neither empty, nor reserved, nor anything but a slug.
NamespaceValid(class) == class = "slug"

CssValid(e) == SizeAllowed(e.css) /\ UrlAllowed(e.cssUrl)

\* Exactly one of url and code; https only; inline code of a bounded size that
\* either uses JavaScript-only syntax or compiles.
PluginValid(p) ==
  /\ (p.url = "none") # (p.code = "none")
  /\ UrlAllowed(p.url)
  /\ SizeAllowed(p.code)
  /\ p.compiles

EntryValid(e) ==
  /\ NamespaceValid(e.class)
  /\ CssValid(e)
  /\ \A p \in e.plugins : PluginValid(p)

\* Mutant of OptionsValid: a second namespace of one name passes.
EntriesValid(o) == \A e \in Elements(o) : EntryValid(e)

OptionsValid(o) ==
  /\ \A e \in Elements(o) : EntryValid(e)
  /\ \A i, j \in 1..Len(o) : i # j => o[i].name # o[j].name

-----------------------------------------------------------------------------
MdInit ==
  /\ mdOptions \in Sites
  /\ docroots = Pages /\ landing = None /\ conf = "none"
  /\ mdAt = "start" /\ entries = {} /\ left = {} /\ served = None
  /\ dirs \in [MdNames -> {[kind |-> "empty", base |-> 0, own |-> FALSE],
                           [kind |-> "files", base |-> 0, own |-> TRUE]}]
  /\ mdRemote = 1 /\ troubles = 0

Trouble == troubles < MaxTroubles /\ troubles' = troubles + 1
NoGit == UNCHANGED <<mdOptions, dirs, mdRemote>>

(* generate_nginx.py: main *)

\* Without a directory: a configuration that answers 503.
MinimalConf == "minimal"

\* Invalid options end the script with 1, and run.sh (set -e) with it: the
\* container stops and the Supervisor starts it again.
Validate ==
  /\ mdAt = "start"
  /\ IF ~OptionsValid(mdOptions)
     THEN mdAt' = "start" /\ UNCHANGED <<tmp, entries>>
     ELSE IF mdOptions = <<>>
     THEN mdAt' = "sync" /\ conf' = MinimalConf /\ entries' = {} /\ UNCHANGED <<docroots, landing>>
     ELSE mdAt' = "clear" /\ entries' = Elements(mdOptions) /\ UNCHANGED tmp
  /\ left' = {}
  /\ UNCHANGED <<served, troubles>> /\ NoGit

\* Mutant of FreshOutput: the directories of before are kept.
StaleOutput ==
  /\ mdAt = "clear"
  /\ left' = entries
  /\ mdAt' = "pages"
  /\ UNCHANGED <<tmp, entries, served, troubles>> /\ NoGit

\* Fresh output directories on every run.
FreshOutput ==
  /\ mdAt = "clear"
  /\ docroots' = Pages /\ landing' = None
  /\ left' = entries
  /\ mdAt' = "pages"
  /\ UNCHANGED <<conf, entries, served, troubles>> /\ NoGit

WritePage ==
  /\ mdAt = "pages"
  /\ \E e \in left :
       /\ docroots' = [n \in DOMAIN docroots \cup {e.name} |->
                         IF n = e.name THEN e ELSE docroots[n]]
       /\ left' = left \ {e}
  /\ UNCHANGED <<landing, conf, mdAt, entries, served, troubles>> /\ NoGit

WriteLanding ==
  /\ mdAt = "pages" /\ left = {}
  /\ landing' = entries
  /\ mdAt' = "conf"
  /\ UNCHANGED <<docroots, conf, entries, left, served, troubles>> /\ NoGit

\* nginx.conf, then nginx -t: one it refuses ends the script, and run.sh, with 1.
WriteConf ==
  /\ mdAt = "conf"
  /\ conf' = entries
  /\ mdAt' \in {"sync", "start"}
  /\ UNCHANGED <<docroots, landing, entries, left, served, troubles>> /\ NoGit

-----------------------------------------------------------------------------
(* _git_sync.py; it reads options.json itself, which has not changed since *)

\* Namespaces without git_pull and without an interval are not looked at.
Wanted == {e \in Elements(mdOptions) : e.git}

StartGitSync ==
  /\ mdAt = "sync"
  /\ left' = Wanted
  /\ mdAt' = "syncing"
  /\ UNCHANGED <<tmp, entries, served, troubles>> /\ NoGit

\* Mutant of Synced: a failing pull is followed by a fresh checkout.
SyncedByForce(d, url, works) ==
  IF works /\ (url \/ d.kind = "repo")
  THEN [kind |-> "repo", base |-> mdRemote, own |-> FALSE] ELSE d

\* One namespace: clone into an empty directory, or pull --ff-only, which git
\* refuses over commits or edits of its own; a failure is only a warning.
Synced(d, url, works) ==
  IF works /\ d.kind = "empty" /\ url
  THEN [kind |-> "repo", base |-> mdRemote, own |-> FALSE]
  ELSE IF works /\ d.kind = "repo" /\ ~d.own THEN [d EXCEPT !.base = mdRemote]
  ELSE d

\* The interval gate compares with last_pull, which is empty in every new process:
\* it passes every namespace once the host has run for the interval.
SyncNamespace ==
  /\ mdAt \in {"syncing", "periodic"}
  /\ \E e \in left, works \in BOOLEAN :
       /\ dirs' = [dirs EXCEPT ![e.name] = Synced(@, e.url, works)]
       /\ left' = left \ {e}
       /\ IF works THEN UNCHANGED troubles ELSE Trouble
  /\ UNCHANGED <<mdOptions, tmp, mdAt, entries, served, mdRemote>>

\* run.sh becomes nginx, which reads nginx.conf and opens the pages as asked.
Serve ==
  /\ mdAt = "syncing" /\ left = {}
  /\ served' = conf
  /\ mdAt' = "serving"
  /\ UNCHANGED <<tmp, entries, left, troubles>> /\ NoGit

PeriodicSync ==
  /\ mdAt = "serving"
  /\ left' = Wanted
  /\ mdAt' = "periodic"
  /\ UNCHANGED <<tmp, entries, served, troubles>> /\ NoGit

PeriodicEnds ==
  /\ mdAt = "periodic" /\ left = {}
  /\ mdAt' = "serving"
  /\ UNCHANGED <<tmp, entries, left, served, troubles>> /\ NoGit

-----------------------------------------------------------------------------
\* The container is killed; the options may be changed before it starts again.
MdRestart ==
  /\ Trouble
  /\ mdOptions' \in Sites
  /\ mdAt' = "start" /\ left' = {} /\ served' = None /\ entries' = {}
  /\ UNCHANGED <<tmp, dirs, mdRemote>>

RemoteCommit ==
  /\ Trouble
  /\ mdRemote' = mdRemote + 1
  /\ UNCHANGED <<mdOptions, tmp, mdAt, entries, left, served, dirs>>

\* A file of the user: the directory is not empty any more.
Edited(d) == [d EXCEPT !.own = TRUE, !.kind = IF @ = "empty" THEN "files" ELSE @]

UserEdits ==
  /\ Trouble
  /\ \E n \in MdNames : dirs' = [dirs EXCEPT ![n] = Edited(@)]
  /\ UNCHANGED <<mdOptions, tmp, mdAt, entries, left, served, mdRemote>>

MdNext ==
  \/ Validate \/ FreshOutput \/ WritePage \/ WriteLanding \/ WriteConf
  \/ StartGitSync \/ SyncNamespace \/ Serve \/ PeriodicSync \/ PeriodicEnds
  \/ MdRestart \/ RemoteCommit \/ UserEdits

MdSpec == MdInit /\ [][MdNext]_mdVars

-----------------------------------------------------------------------------
(* Properties *)

\* nginx never serves a half generated or stale site: its locations, the landing
\* page and the pages on disk are those of one validated options file, the one
\* of this start, each namespace once, and no page of an earlier configuration
\* is left, whatever restarts interrupted (generate_nginx.py:1094).
SiteIsWhole ==
  served # None =>
    IF mdOptions = <<>> THEN served = "minimal"
    ELSE /\ served = Elements(mdOptions) /\ landing = served
         /\ DOMAIN docroots = {e.name : e \in served}
         /\ \A e \in served : docroots[e.name] = e

\* Syncing never touches a directory with content of its own: no clone into a
\* filled directory, no pull over local commits or edits (_git_sync.py:79-87).
LocalContentKept ==
  [][\A n \in MdNames : dirs[n].own => dirs'[n].own /\ dirs'[n].base = dirs[n].base]_mdVars
=============================================================================
