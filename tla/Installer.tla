----------------------------- MODULE Installer -----------------------------
(***************************************************************************)
(* Installing, repairing and removing the integration                      *)
(* (internal/installer) beside the native program's own updater.  A        *)
(* managed directory is a bin directory with the entries the installer     *)
(* owns and, under libexec, the preserved copy of the native binary.       *)
(* Repair is Install.                                                      *)
(*                                                                         *)
(* What a file holds is a version of the native binary, something of       *)
(* agy-pool's own, or nothing.  Files staged under names with the PID are  *)
(* local to their process and appear as its held copy.  Configuration,     *)
(* data directories and shell files do not bear on any of this.            *)
(***************************************************************************)
EXTENDS Naturals, Sequences

CONSTANTS
    Procs,        \* commands that run at the same time, at most
    MaxVersion,   \* bound on the versions the updater brings
    MaxCommands,  \* bound on the commands that are given
    Nothing, Own  \* no file; a shim, the link to one, or agy-pool itself

ASSUME InstallerAssumption ==
    /\ MaxVersion \in Nat \ {0} /\ MaxCommands \in Nat
    /\ Nothing \notin Nat /\ Own \notin Nat /\ Nothing # Own

\* ~/.local, which is searched first, and /usr/local.  The third place for a
\* native binary is one the installer never writes, such as /usr/bin/agy.
Dirs == {"user", "system"}
Names == {"agy", "agy-raw", "agy-orig", "agy-pool"}
Native == 1 .. MaxVersion
Content == Native \cup {Nothing, Own}

VARIABLES
    entry,        \* the files of each bin directory
    managed,      \* libexec/agy-pool/agy-native of each
    package,      \* /usr/bin/agy
    newest,       \* the updater's last version
    commands,     \* how many commands have been given
    \* one process per command
    pc,           \* where it is
    kind,         \* "install" or "uninstall"
    dir,          \* the directory it works on
    named,        \* how a native binary was named: "search", "--native-agy", "AGY_BIN"
    source,       \* the binary Install has chosen
    held,         \* its copy of it
    step,         \* the entry it has come to
    \* history
    owed,         \* the version whose last copy may not go
    disturbed     \* what has come between

files == <<entry, managed, package>>
bounds == <<newest, commands>>
local == <<kind, dir, named, source, held, step>>
history == <<owed, disturbed>>
vars == <<files, bounds, pc, local, history>>

PC == {"idle", "choose", "copy", "preserve", "recheck", "publish",
       "verify", "unlink", "remove_copy", "ok"}
Final == {"idle", "ok"}
Disturbance == {"overlap", "uninstall_overlap", "late_update", "passed_over"}

\* The places Install may take a native binary from.
Place == [in : {"entry", "managed"}, dir : Dirs] \cup {[in |-> "package"]}
Entry(d) == [in |-> "entry", dir |-> d]
Managed(d) == [in |-> "managed", dir |-> d]
Package == [in |-> "package"]

\* The type invariant of the installer.
TypeOK ==
    /\ entry \in [Dirs -> [Names -> Content]]
    /\ managed \in [Dirs -> Content]
    /\ package \in Native \cup {Nothing}
    /\ newest \in Native
    /\ commands \in 0 .. MaxCommands
    /\ pc \in [Procs -> PC]
    /\ kind \in [Procs -> {"install", "uninstall"}]
    /\ dir \in [Procs -> Dirs]
    /\ named \in [Procs -> {"search", "--native-agy", "AGY_BIN"}]
    /\ source \in [Procs -> Place]
    /\ held \in [Procs -> Content]
    /\ step \in [Procs -> 1 .. 4]
    /\ owed \subseteq Native
    /\ disturbed \subseteq Disturbance

\* The native binary is in ~/.local/bin, in /usr/local/bin, a package, several
\* of these or none.
Init ==
    /\ entry \in [Dirs -> {[n \in Names |-> IF n = "agy" THEN c ELSE Nothing] : c \in {1, Nothing}}]
    /\ managed = [d \in Dirs |-> Nothing]
    /\ package \in {1, Nothing}
    /\ newest = 1
    /\ commands = 0
    /\ pc = [p \in Procs |-> "idle"]
    /\ kind = [p \in Procs |-> "install"]
    /\ dir = [p \in Procs |-> "user"]
    /\ named = [p \in Procs |-> "search"]
    /\ source = [p \in Procs |-> Package]
    /\ held = [p \in Procs |-> Nothing]
    /\ step = [p \in Procs |-> 1]
    /\ owed = IF package = 1 \/ \E d \in Dirs : entry[d]["agy"] = 1 THEN {1} ELSE {}
    /\ disturbed = {}

Goto(p, l) == pc' = [pc EXCEPT ![p] = l]

\* A command is over, with success or without, and forgets what it has found.
Ends(p, l) ==
    /\ Goto(p, l)
    /\ kind' = [kind EXCEPT ![p] = "install"]
    /\ dir' = [dir EXCEPT ![p] = "user"]
    /\ named' = [named EXCEPT ![p] = "search"]
    /\ source' = [source EXCEPT ![p] = Package]
    /\ held' = [held EXCEPT ![p] = Nothing]
    /\ step' = [step EXCEPT ![p] = 1]

Active(p) == pc[p] \notin Final

---------------------------------------------------------------------------
(* Finding the native binary (internal/diagnostics).                       *)

At(place) ==
    CASE place.in = "entry" -> entry[place.dir]["agy"]
      [] place.in = "managed" -> managed[place.dir]
      [] place.in = "package" -> package

\* ValidateNativeCandidate: an executable that is not agy-pool's own.
Valid(place) == At(place) \in Native

\* Where ResolveNativeAgyBinary looks: the copies first, then the entries and the
\* package; a binary named by AGY_BIN or the configuration is taken or refused,
\* never passed over.
Search(name) ==
    IF name = "AGY_BIN" THEN <<Package>>
    ELSE <<Managed("user"), Managed("system"), Entry("system"), Package, Entry("user")>>

\* The first valid candidate of several.
IsFirst(place, places) ==
    \E i \in DOMAIN places :
        /\ places[i] = place /\ Valid(place)
        /\ \A j \in 1 .. i - 1 : ~Valid(places[j])

SomeValid(places) == \E i \in DOMAIN places : Valid(places[i])

\* The order in which Install looks: the entry may be an update that has replaced
\* the shim.
Candidates(p) ==
    IF named[p] = "--native-agy" THEN <<Package>>
    ELSE <<Entry(dir[p]), Managed(dir[p])>> \o Search(named[p])

---------------------------------------------------------------------------
(* Install.                                                                *)

Begin(p) ==
    /\ ~Active(p) /\ commands < MaxCommands
    /\ \E k \in {"install", "uninstall"}, d \in Dirs, n \in {"search", "--native-agy", "AGY_BIN"} :
        /\ k = "uninstall" => n = "search"
        /\ kind' = [kind EXCEPT ![p] = k]
        /\ dir' = [dir EXCEPT ![p] = d]
        /\ named' = [named EXCEPT ![p] = n]
        /\ Goto(p, IF k = "install" THEN "choose" ELSE "verify")
        /\ disturbed' = disturbed
            \cup (IF \E q \in Procs : Active(q) THEN {"overlap"} ELSE {})
            \cup (IF \E q \in Procs : Active(q) /\ (k = "uninstall" \/ kind[q] = "uninstall")
                  THEN {"uninstall_overlap"} ELSE {})
            \cup (IF n = "--native-agy" THEN {"passed_over"} ELSE {})
    /\ commands' = commands + 1
    /\ UNCHANGED <<files, newest, source, held, step, owed>>

\* The preserved copy is preferred to the entry.
ChoosePreserved(p) ==
    /\ pc[p] = "choose"
    /\ \E place \in Place :
        /\ IsFirst(place, <<Managed(dir[p])>> \o Candidates(p))
        /\ source' = [source EXCEPT ![p] = place]
        /\ Goto(p, IF place = Managed(dir[p]) THEN "recheck" ELSE "copy")
    /\ UNCHANGED <<files, bounds, kind, dir, named, held, step, history>>

\* An installation that finds its shim and its copy has nothing to do.
ChooseUnlessInstalled(p) ==
    /\ pc[p] = "choose"
    /\ \/ /\ entry[dir[p]]["agy"] = Own /\ Valid(Managed(dir[p]))
          /\ Ends(p, "ok")
       \/ /\ entry[dir[p]]["agy"] # Own
          /\ \E place \in Place :
                /\ IsFirst(place, Candidates(p))
                /\ source' = [source EXCEPT ![p] = place]
                /\ Goto(p, IF place = Managed(dir[p]) THEN "recheck" ELSE "copy")
          /\ UNCHANGED <<kind, dir, named, held, step>>
    /\ UNCHANGED <<files, bounds, history>>

\* Install finds the native binary; the preserved copy need not be copied.
Choose(p) ==
    /\ pc[p] = "choose"
    /\ \E place \in Place :
        /\ IsFirst(place, Candidates(p))
        /\ source' = [source EXCEPT ![p] = place]
        /\ Goto(p, IF place = Managed(dir[p]) THEN "recheck" ELSE "copy")
    /\ UNCHANGED <<files, bounds, kind, dir, named, held, step, history>>

\* Without one nothing is changed.
NotFound(p) ==
    /\ pc[p] = "choose"
    /\ ~SomeValid(Candidates(p))
    /\ Ends(p, "idle")
    /\ UNCHANGED <<files, bounds, history>>

\* The copy is not looked at before it is put into place.
CopyUnchecked(p) ==
    /\ pc[p] = "copy"
    /\ At(source[p]) # Nothing
    /\ held' = [held EXCEPT ![p] = At(source[p])]
    /\ Goto(p, "preserve")
    /\ UNCHANGED <<files, bounds, kind, dir, named, source, step, history>>

\* CopyFile to a file of its own, which must be a native binary too: what was
\* chosen may have been replaced by a shim.
Copy(p) ==
    /\ pc[p] = "copy"
    /\ Valid(source[p])
    /\ held' = [held EXCEPT ![p] = At(source[p])]
    /\ Goto(p, "preserve")
    /\ UNCHANGED <<files, bounds, kind, dir, named, source, step, history>>

\* The copy replaces the preserved binary.
Preserve(p) ==
    /\ pc[p] = "preserve"
    /\ managed' = [managed EXCEPT ![dir[p]] = held[p]]
    /\ Goto(p, "recheck")
    /\ UNCHANGED <<entry, package, bounds, local, history>>

\* The preserved binary is validated where it is; the entries are staged.
Recheck(p) ==
    /\ pc[p] = "recheck"
    /\ Valid(Managed(dir[p]))
    /\ Goto(p, "publish")
    /\ UNCHANGED <<files, bounds, local, history>>

\* The order in which the staged files are renamed into place.
Published == <<"agy-pool", "agy", "agy-raw", "agy-orig">>

\* os.Remove of agy-orig before its rename.
ClearOrig(p) ==
    /\ pc[p] = "publish" /\ Published[step[p]] = "agy-orig"
    /\ entry[dir[p]]["agy-orig"] # Nothing
    /\ entry' = [entry EXCEPT ![dir[p]]["agy-orig"] = Nothing]
    /\ UNCHANGED <<managed, package, bounds, pc, local, history>>

\* A rename replaces whatever the entry is by then.
Publish(p) ==
    /\ pc[p] = "publish"
    /\ LET n == Published[step[p]] IN
        /\ n = "agy-orig" => entry[dir[p]][n] = Nothing
        /\ entry' = [entry EXCEPT ![dir[p]][n] = Own]
    /\ IF step[p] < 4
       THEN step' = [step EXCEPT ![p] = @ + 1] /\ UNCHANGED <<pc, kind, dir, named, source, held>>
       ELSE Ends(p, "ok")
    /\ UNCHANGED <<managed, package, bounds, history>>

---------------------------------------------------------------------------
(* Uninstall.                                                              *)

\* The order in which SafeRemoveOwnedEntry is called.
Removed == <<"agy", "agy-raw", "agy-orig", "agy-pool">>

AfterEntry(p) ==
    IF step[p] < 4
    THEN step' = [step EXCEPT ![p] = @ + 1] /\ Goto(p, "verify")
    ELSE UNCHANGED step /\ Goto(p, "remove_copy")

\* SafeRemoveOwnedEntry looks at the entry: one that is not agy-pool's own is left.
Verify(p) ==
    /\ pc[p] = "verify"
    /\ IF entry[dir[p]][Removed[step[p]]] = Own
       THEN Goto(p, "unlink") /\ UNCHANGED step
       ELSE AfterEntry(p)
    /\ UNCHANGED <<files, bounds, kind, dir, named, source, held, history>>

\* It is unlinked by name.
Unlink(p) ==
    /\ pc[p] = "unlink"
    /\ entry' = [entry EXCEPT ![dir[p]][Removed[step[p]]] = Nothing]
    /\ AfterEntry(p)
    /\ UNCHANGED <<managed, package, bounds, kind, dir, named, source, held, history>>

\* RemoveManagedNativeCopy comes last.
RemoveCopy(p) ==
    /\ pc[p] = "remove_copy"
    /\ managed' = [managed EXCEPT ![dir[p]] = Nothing]
    /\ owed' = owed \ {managed[dir[p]]}
    /\ Ends(p, "ok")
    /\ UNCHANGED <<entry, package, bounds, disturbed>>

\* A step fails and the command returns its error, or the process is killed.
Stops(p) ==
    /\ Active(p)
    /\ Ends(p, "idle")
    /\ UNCHANGED <<files, bounds, history>>

---------------------------------------------------------------------------
(* The native program's updater.                                           *)

\* It replaces the entry it was installed as, the binary that is running, which
\* may be the preserved copy, or the package.
Update(place) ==
    /\ newest < MaxVersion
    /\ place.in = "managed" => At(place) # Nothing
    /\ newest' = newest + 1
    /\ owed' = {newest + 1}
    /\ entry' = IF place.in = "entry" THEN [entry EXCEPT ![place.dir]["agy"] = newest + 1] ELSE entry
    /\ managed' = IF place.in = "managed" THEN [managed EXCEPT ![place.dir] = newest + 1] ELSE managed
    /\ package' = IF place.in = "package" THEN newest + 1 ELSE package
    /\ disturbed' = disturbed
        \cup (IF \E p \in Procs : Active(p) THEN {"late_update"} ELSE {})
        \cup (IF place.in = "managed" /\ Valid(Entry(place.dir)) THEN {"passed_over"} ELSE {})
    /\ UNCHANGED <<commands, pc, local>>

Installing(p) ==
    Choose(p) \/ NotFound(p) \/ Copy(p) \/ Preserve(p) \/ Recheck(p) \/ ClearOrig(p) \/ Publish(p)
Uninstalling(p) == Verify(p) \/ Unlink(p) \/ RemoveCopy(p)

Next ==
    \/ \E p \in Procs : Begin(p) \/ Installing(p) \/ Uninstalling(p) \/ Stops(p)
    \/ \E place \in Place : Update(place)

Spec == Init /\ [][Next]_vars

---------------------------------------------------------------------------
(* Properties.                                                             *)

\* "It never overwrites the only copy of native agy" (README): whatever is
\* installed, repaired and uninstalled, and wherever a command fails or is killed,
\* the newest version is still somewhere, unless an uninstallation has removed its
\* preserved copy.  Nothing protects an update that arrives while a command runs,
\* a copy that another command overtakes, a preserved copy that has updated itself
\* beside an older native entry, or what --native-agy passes over.
NewestKept ==
    disturbed = {} => \A v \in owed : \E place \in Place : At(place) = v

\* The shim never stands without agy-pool and a native binary for it, not even
\* halfway through an installation or an uninstallation; and the preserved copy is
\* never a shim, which would make agy-pool run itself, even if two installations
\* overlap and one copies what the other has just published.
ShimWorks ==
    /\ \A d \in Dirs : managed[d] # Own
    /\ "uninstall_overlap" \notin disturbed =>
        \A d \in Dirs : entry[d]["agy"] = Own =>
            entry[d]["agy-pool"] = Own /\ SomeValid(Search("search"))

\* What doctor calls a native integration: the shim and a preserved copy.
Healthy(d) == entry[d]["agy"] = Own /\ Valid(Managed(d)) /\ SomeValid(Search("search"))

\* A command that reports success has done all of it: an installation, or the
\* repair of a failed one or of an update that replaced the shim, is complete, and
\* an uninstallation leaves nothing that is agy-pool's own.
SuccessIsComplete ==
    [][\A p \in Procs, d \in Dirs :
        /\ Active(p) /\ pc'[p] = "ok" /\ dir[p] = d
        /\ disturbed \cap {"overlap", "late_update"} = {}
        => IF kind[p] = "install"
           THEN Healthy(d)' /\ \A n \in Names : entry'[d][n] = Own
           ELSE managed'[d] = Nothing /\ \A n \in Names : entry'[d][n] # Own]_vars

=============================================================================
