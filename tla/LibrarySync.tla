----------------------------- MODULE LibrarySync -----------------------------
(***************************************************************************)
(* internal/sync-admin-ui.py: the admin-ui library and its Python skeleton   *)
(* are copied into every add-on that uses them, each copy with a stamp, and  *)
(* admin-ui/lib.lock records the source.  The tool may be interrupted at any *)
(* point; people edit the source and, by mistake, the copies.                *)
(*                                                                         *)
(* A tree hash stands for the content it is computed from.  The version file *)
(* is part of the library: a library is [version, rev].  The skeleton has no  *)
(* version of its own, and [version |-> 0] is a tree half removed.           *)
(***************************************************************************)
EXTENDS ServiceValues, Integers, Sequences

CONSTANTS
  Addons,       \* the names of add-on directories, in the order of the tool
  MaxVersion,   \* bound on library versions
  MaxLibEvents  \* bound on runs of the tool and edits

AddonNames == {Addons[i] : i \in DOMAIN Addons}

\* What a directory may hold, and what may be at the place of a copy.
Trees == [version : Int, rev : Int]
Stamps == [version : Int, sha256 : Trees]
CopyStates == [content : Trees, stamp : Stamps]

ASSUME LibraryAssumption ==
  /\ Addons \in Seq(AddonNames) /\ MaxVersion \in Nat /\ MaxLibEvents \in Nat
  /\ None \notin Stamps /\ None \notin CopyStates /\ None \notin {"passed", "synced"}

VARIABLES
  library, skeleton,  \* the source directories
  copies,      \* <<add-on, part>> |-> None or [content, stamp]
  lock,        \* lib.lock
  tool,        \* the tool's next step
  scope,       \* how it was called: "some" add-ons, "all", or "release"
  plan,        \* the source state it read
  libTodo,     \* the <<add-on, part>> pairs it has still to copy
  installed,   \* history: add-ons that once had both copies
  interrupts,  \* interrupted runs
  verdict,     \* what the last run ended with, while nothing changed since
  libEvents

source == <<library, skeleton>>
libraryVars == <<source, copies, lock, tool, scope, plan, libTodo, installed, interrupts,
                 verdict, libEvents>>

Parts == {"lib", "skeleton"}
Copies == AddonNames \X Parts
State == [version |-> library.version, lib |-> library, skeleton |-> skeleton]
Stamp(s, part) == [version |-> s.version, sha256 |-> s[part]]
Copy(s, part) == [content |-> s[part], stamp |-> Stamp(s, part)]

\* discover_consumers: one stamp is enough.
Discovered == {a \in AddonNames : \E part \in Parts :
                 copies[<<a, part>>] # None /\ copies[<<a, part>>].stamp # None}

\* The pair that is next: add-on by add-on, the library before the skeleton.
Turn(pair) == 2 * (CHOOSE i \in DOMAIN Addons : Addons[i] = pair[1])
               + (IF pair[2] = "lib" THEN 0 ELSE 1)
IsNext(pair) == pair \in libTodo /\ \A other \in libTodo : Turn(pair) <= Turn(other)

LibEvent == libEvents < MaxLibEvents /\ libEvents' = libEvents + 1

\* do_sync reads the source once, whichever way it was called.
StartSync(addons, how) ==
  /\ plan' = State' /\ libTodo' = addons \X Parts
  /\ tool' = "copy" /\ scope' = how /\ verdict' = None

Sync ==
  /\ tool = "idle" /\ LibEvent
  /\ UNCHANGED <<source, copies, lock, installed, interrupts>>
  /\ \E addons \in SUBSET AddonNames :
       StartSync(addons, "some") \/ StartSync(addons \cup Discovered, "all")

\* release: every check comes before the version file is written.
Release(version) ==
  /\ tool = "idle" /\ LibEvent
  /\ version >= library.version
  /\ version = library.version => lock = State
  /\ \A a \in Discovered :
       copies[<<a, "lib">>] # None => copies[<<a, "lib">>].content.version <= version
  /\ library' = [library EXCEPT !.version = version]
  /\ UNCHANGED <<skeleton, copies, lock, installed, interrupts>>
  /\ StartSync(Discovered, "release")

\* Mutant of UpToDate: the stamp is believed.
UpToDateByStamp(pair) == copies[pair] # None /\ copies[pair].stamp = Stamp(plan, pair[2])

\* copy_part leaves a copy that is the source's, with its stamp.
UpToDate(pair) == copies[pair] = Copy(plan, pair[2])

\* The new copy is built beside the old one and compared with the plan.
BuildNew(pair) ==
  IF State[pair[2]] = plan[pair[2]] THEN tool' = "remove" /\ UNCHANGED verdict
  ELSE tool' = "idle" /\ verdict' = "error"

CopyNext ==
  /\ tool = "copy"
  /\ \/ libTodo = {} /\ tool' = "lock" /\ UNCHANGED <<libTodo, verdict>>
     \/ \E pair \in libTodo : IsNext(pair) /\
          IF UpToDate(pair) THEN libTodo' = libTodo \ {pair} /\ UNCHANGED <<tool, verdict>>
          ELSE BuildNew(pair) /\ UNCHANGED libTodo
  /\ UNCHANGED <<source, copies, lock, scope, plan, installed, interrupts, libEvents>>

\* Mutant of Removed: both copies of the add-on are taken away first.
RemovedWithSibling(pair) == [p \in Copies |-> IF p[1] = pair[1] THEN None ELSE copies[p]]

Removed(pair) == [copies EXCEPT ![pair] = None]

\* rmtree may be interrupted half-way ...
RemoveOld ==
  /\ tool = "remove"
  /\ \E pair \in libTodo : IsNext(pair) /\
       \/ copies' = Removed(pair) /\ tool' = "rename"
       \/ /\ copies[pair] # None /\ copies[pair].content.version # 0
          /\ copies' = [copies EXCEPT ![pair].content = [version |-> 0, rev |-> 0]]
          /\ UNCHANGED tool
  /\ UNCHANGED <<source, lock, scope, plan, libTodo, installed, interrupts, verdict, libEvents>>

\* ... the rename is one step.
RenameNew ==
  /\ tool = "rename"
  /\ \E pair \in libTodo :
       /\ IsNext(pair)
       /\ copies' = [copies EXCEPT ![pair] = Copy(plan, pair[2])]
       /\ libTodo' = libTodo \ {pair} /\ tool' = "copy"
       /\ installed' = IF \A part \in Parts : copies'[<<pair[1], part>>] # None
                       THEN installed \cup {pair[1]} ELSE installed
  /\ UNCHANGED <<source, lock, scope, plan, interrupts, verdict, libEvents>>

\* check_part under --strict; a copy ahead of the source fails as well.
PartPasses(pair) ==
  LET c == copies[pair] IN
  /\ c # None /\ c.stamp # None
  /\ c.content = c.stamp.sha256
  /\ pair[2] = "lib" => c.content.version = c.stamp.version
  /\ c.stamp.version = library.version
  /\ c.stamp.sha256 = State[pair[2]]

\* do_check --strict.
StrictCheck ==
  /\ lock = State
  /\ \A a \in Discovered, part \in Parts : PartPasses(<<a, part>>)

WriteLock ==
  /\ tool = "lock"
  /\ lock' = plan
  /\ tool' = IF scope = "release" THEN "check" ELSE "idle"
  /\ verdict' = IF scope = "all" /\ plan = State THEN "synced" ELSE None
  /\ UNCHANGED <<source, copies, scope, plan, libTodo, installed, interrupts, libEvents>>

Check ==
  /\ \/ tool = "idle" /\ LibEvent
     \/ tool = "check" /\ UNCHANGED libEvents
  /\ tool' = "idle"
  /\ verdict' = IF StrictCheck THEN "passed" ELSE "failed"
  /\ UNCHANGED <<source, copies, lock, scope, plan, libTodo, installed, interrupts>>

Interrupt ==
  /\ tool # "idle" /\ LibEvent
  /\ tool' = "idle" /\ verdict' = None
  /\ interrupts' = interrupts + 1
  /\ UNCHANGED <<source, copies, lock, scope, plan, libTodo, installed>>

\* Somebody edits the source, its version file or a copy, while the tool runs
\* or not.
EditSource ==
  /\ LibEvent /\ verdict' = None
  /\ \/ library' = [library EXCEPT !.rev = libEvents'] /\ UNCHANGED skeleton
     \/ /\ library.version < MaxVersion
        /\ library' = [library EXCEPT !.version = @ + 1] /\ UNCHANGED skeleton
     \/ skeleton' = [skeleton EXCEPT !.rev = libEvents'] /\ UNCHANGED library
  /\ UNCHANGED <<copies, lock, tool, scope, plan, libTodo, installed, interrupts>>

EditCopy ==
  /\ tool = "idle" /\ LibEvent /\ verdict' = None
  /\ \E pair \in Copies :
       /\ copies[pair] # None
       /\ copies' = [copies EXCEPT ![pair].content.rev = -1]
  /\ UNCHANGED <<source, lock, tool, scope, plan, libTodo, installed, interrupts>>

LibraryInit ==
  /\ library = [version |-> 1, rev |-> 0] /\ skeleton = [version |-> 1, rev |-> 0]
  /\ copies = [pair \in Copies |-> None]
  /\ lock = State /\ tool = "idle" /\ scope = "some"
  /\ plan = State /\ libTodo = {} /\ verdict = None /\ libEvents = 0
  /\ installed = {} /\ interrupts = 0

LibraryNext ==
  \/ Sync \/ \E version \in 1..MaxVersion : Release(version)
  \/ CopyNext \/ RemoveOld \/ RenameNew \/ WriteLock \/ Check \/ Interrupt
  \/ EditSource \/ EditCopy

LibrarySpec == LibraryInit /\ [][LibraryNext]_libraryVars

-----------------------------------------------------------------------------
(* Properties *)

\* One interrupted run, at whatever step, does not make the tool forget an add-on
\* that has the library: the next --all, release or check still finds it by the
\* stamp of its other copy (sync-admin-ui.py:147-154).
ConsumersKept ==
  tool = "idle" /\ interrupts <= 1 => installed \subseteq Discovered

\* A strict check or a release passes only where all copies in all add-ons and
\* the lock are the source's, and what a completed run with --all has left
\* passes it, whatever was in the copies before (sync-admin-ui.py:1-19).
PassedIsIdentical ==
  verdict \in {"passed", "synced"} =>
    /\ lock = State
    /\ \A a \in Discovered, part \in Parts :
         copies[<<a, part>>] = Copy(State, part)
=============================================================================
