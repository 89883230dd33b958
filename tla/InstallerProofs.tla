-------------------------- MODULE InstallerProofs --------------------------
(***************************************************************************)
(* Proofs about Installer, for any number of processes, commands and       *)
(* versions: the shim always works, the newest version is kept, and a      *)
(* command that reports success is complete.  The first rests on the order *)
(* of the steps (the preserved copy and agy-pool are there before the shim *)
(* and outlive it), the other two on where Install looks first.            *)
(***************************************************************************)
EXTENDS Installer, TLAPS

\* What a command's place in the program says about it.
Control ==
    \A p \in Procs :
        /\ pc[p] \in {"choose", "copy", "preserve", "recheck", "publish"} => kind[p] = "install"
        /\ pc[p] \in {"verify", "unlink", "remove_copy"} => kind[p] = "uninstall"
        /\ pc[p] \notin {"publish", "verify", "unlink", "remove_copy"} => step[p] = 1
        /\ pc[p] = "preserve" => held[p] \in Native
        /\ Active(p) /\ named[p] = "--native-agy" => "passed_over" \in disturbed

\* What the disturbances stand for.
Alone ==
    /\ "overlap" \notin disturbed => \A p, q \in Procs : Active(p) /\ Active(q) => p = q
    /\ "uninstall_overlap" \notin disturbed =>
        \A p, q \in Procs : Active(p) /\ Active(q) /\ kind[p] = "uninstall" => p = q
    /\ "uninstall_overlap" \in disturbed => "overlap" \in disturbed

\* A file of a bin directory is replaced.
LEMMA EntryReplaced ==
    ASSUME entry \in [Dirs -> [Names -> Content]],
           NEW d \in Dirs, NEW n \in Names, NEW c \in Content,
           entry' = [entry EXCEPT ![d][n] = c]
    PROVE  /\ entry' \in [Dirs -> [Names -> Content]]
           /\ \A e \in Dirs, m \in Names :
                entry'[e][m] = IF e = d /\ m = n THEN c ELSE entry[e][m]
<1>1. entry' = [entry EXCEPT ![d] = [entry[d] EXCEPT ![n] = c]]
    OBVIOUS
<1>2. [entry[d] EXCEPT ![n] = c] \in [Names -> Content]
    OBVIOUS
<1>3. entry' \in [Dirs -> [Names -> Content]]
    BY <1>1, <1>2
<1>4. \A e \in Dirs : entry'[e] = IF e = d THEN [entry[d] EXCEPT ![n] = c] ELSE entry[e]
    BY <1>1
<1> QED
    BY <1>3, <1>4

\* The entries are installed and removed one by one.
LEMMA EntryNames ==
    /\ \A i \in 1 .. 4 : Published[i] \in Names /\ Removed[i] \in Names
    /\ \A n \in Names : \E i \in 1 .. 4 : Published[i] = n
    /\ \A n \in Names : \E i \in 1 .. 4 : Removed[i] = n
    /\ \A i \in 1 .. 4 : Published[i] = "agy" <=> i = 2
    /\ \A i \in 1 .. 4 : Published[i] = "agy-pool" <=> i = 1
    /\ \A i \in 1 .. 4 : Published[i] = "agy-orig" <=> i = 4
    /\ \A i \in 1 .. 4 : Removed[i] = "agy" <=> i = 1
    /\ \A i, j \in 1 .. 4 : Published[i] = Published[j] => i = j
    /\ \A i, j \in 1 .. 4 : Removed[i] = Removed[j] => i = j
<1>1. Published[1] = "agy-pool" /\ Published[2] = "agy" /\ Published[3] = "agy-raw" /\ Published[4] = "agy-orig"
    BY DEF Published
<1>2. Removed[1] = "agy" /\ Removed[2] = "agy-raw" /\ Removed[3] = "agy-orig" /\ Removed[4] = "agy-pool"
    BY DEF Removed
<1>3. \A i \in 1 .. 4 : i = 1 \/ i = 2 \/ i = 3 \/ i = 4
    OBVIOUS
<1> QED
    BY <1>1, <1>2, <1>3 DEF Names

\* The versions, nothing and agy-pool's own files are different things.
LEMMA Contents ==
    /\ Nothing \in Content /\ Own \in Content /\ Native \subseteq Content
    /\ Nothing \notin Native /\ Own \notin Native /\ Nothing # Own
BY InstallerAssumption DEF Content, Native

\* What a place holds is something.
LEMMA PlacesHold ==
    ASSUME TypeOK, NEW place \in Place
    PROVE  At(place) \in Content
<1>1. CASE place = Package
    BY <1>1 DEF At, Package, TypeOK, Content
<1>2. CASE place \in [in : {"entry", "managed"}, dir : Dirs]
    BY <1>2 DEF At, TypeOK, Names
<1> QED
    BY <1>1, <1>2 DEF Place, Package

\* The command that ends forgets what it has found.
LEMMA EndsTypeOK ==
    ASSUME TypeOK, NEW p \in Procs, NEW l \in Final, Ends(p, l)
    PROVE  /\ pc' \in [Procs -> PC] /\ kind' \in [Procs -> {"install", "uninstall"}]
           /\ dir' \in [Procs -> Dirs] /\ named' \in [Procs -> {"search", "--native-agy", "AGY_BIN"}]
           /\ source' \in [Procs -> Place] /\ held' \in [Procs -> Content]
           /\ step' \in [Procs -> 1 .. 4]
<1>1. l \in PC /\ "user" \in Dirs /\ Package \in Place /\ Nothing \in Content
    BY DEF Final, PC, Dirs, Package, Place, Content
<1> QED
    BY <1>1 DEF Ends, Goto, TypeOK

\* There is a next entry.
LEMMA NextEntry ==
    ASSUME TypeOK, NEW p \in Procs, step[p] < 4, step' = [step EXCEPT ![p] = step[p] + 1]
    PROVE  step' \in [Procs -> 1 .. 4]
<1>1. step \in [Procs -> 1 .. 4]
    BY DEF TypeOK
<1> QED
    BY <1>1

\* Every step of an installation keeps the types.
LEMMA InstallingTypeOK ==
    ASSUME TypeOK, NEW p \in Procs, Installing(p)
    PROVE  TypeOK'
<1>1. CASE Choose(p)
  <2>1. PICK place \in Place : source' = [source EXCEPT ![p] = place]
    BY <1>1 DEF Choose
  <2>2. source' \in [Procs -> Place]
    BY <2>1 DEF TypeOK
  <2>3. pc' \in [Procs -> PC]
    BY <1>1 DEF Choose, Goto, PC, TypeOK
  <2> QED
    BY <1>1, <2>2, <2>3 DEF Choose, files, bounds, history, TypeOK
<1>2. CASE NotFound(p)
  <2>1. "idle" \in Final /\ Ends(p, "idle") /\ UNCHANGED <<files, bounds, history>>
    BY <1>2 DEF NotFound, Final
  <2> QED
    BY <2>1, EndsTypeOK DEF files, bounds, history, TypeOK
<1>3. CASE Copy(p)
  <2>1. held' = [held EXCEPT ![p] = At(source[p])] /\ At(source[p]) \in Content
    BY <1>3, Contents DEF Copy, Valid
  <2>2. held' \in [Procs -> Content]
    BY <2>1 DEF TypeOK
  <2>3. pc' \in [Procs -> PC]
    BY <1>3 DEF Copy, Goto, PC, TypeOK
  <2> QED
    BY <1>3, <2>2, <2>3 DEF Copy, files, bounds, history, TypeOK
<1>4. CASE Preserve(p)
  <2>1. managed' = [managed EXCEPT ![dir[p]] = held[p]] /\ held[p] \in Content
    BY <1>4 DEF Preserve, TypeOK
  <2>2. managed' \in [Dirs -> Content]
    BY <2>1 DEF TypeOK
  <2>3. pc' \in [Procs -> PC]
    BY <1>4 DEF Preserve, Goto, PC, TypeOK
  <2> QED
    BY <1>4, <2>2, <2>3 DEF Preserve, bounds, local, history, TypeOK
<1>5. CASE Recheck(p)
  <2>1. pc' \in [Procs -> PC]
    BY <1>5 DEF Recheck, Goto, PC, TypeOK
  <2> QED
    BY <1>5, <2>1 DEF Recheck, files, bounds, local, history, TypeOK
<1>6. CASE ClearOrig(p)
  <2>1. entry' = [entry EXCEPT ![dir[p]]["agy-orig"] = Nothing] /\ dir[p] \in Dirs /\ "agy-orig" \in Names
    BY <1>6 DEF ClearOrig, TypeOK, Names
  <2>2. entry' \in [Dirs -> [Names -> Content]]
    BY <2>1, EntryReplaced, Contents DEF TypeOK
  <2> QED
    BY <1>6, <2>2 DEF ClearOrig, bounds, local, history, TypeOK
<1>7. CASE Publish(p)
  <2>1. entry' = [entry EXCEPT ![dir[p]][Published[step[p]]] = Own]
    BY <1>7 DEF Publish
  <2>2. dir[p] \in Dirs /\ Published[step[p]] \in Names
    BY EntryNames DEF TypeOK
  <2>3. entry' \in [Dirs -> [Names -> Content]]
    BY <2>1, <2>2, EntryReplaced, Contents DEF TypeOK
  <2>4. CASE step[p] < 4
    <3>1. step' = [step EXCEPT ![p] = step[p] + 1]
      BY <1>7, <2>4 DEF Publish
    <3>2. step' \in [Procs -> 1 .. 4]
      BY <2>4, <3>1, NextEntry
    <3> QED
      BY <1>7, <2>3, <2>4, <3>2 DEF Publish, bounds, history, TypeOK
  <2>5. CASE ~(step[p] < 4)
    <3>1. "ok" \in Final /\ Ends(p, "ok")
      BY <1>7, <2>5 DEF Publish, Final
    <3> QED
      BY <1>7, <2>3, <3>1, EndsTypeOK DEF Publish, bounds, history, TypeOK
  <2> QED
    BY <2>4, <2>5
<1> QED
    BY <1>1, <1>2, <1>3, <1>4, <1>5, <1>6, <1>7 DEF Installing

\* The next entry of an uninstallation.
LEMMA AfterEntryTypeOK ==
    ASSUME TypeOK, NEW p \in Procs, AfterEntry(p)
    PROVE  pc' \in [Procs -> PC] /\ step' \in [Procs -> 1 .. 4]
<1>1. CASE step[p] < 4
  <2>1. step' = [step EXCEPT ![p] = step[p] + 1]
    BY <1>1 DEF AfterEntry
  <2>2. step' \in [Procs -> 1 .. 4]
    BY <1>1, <2>1, NextEntry
  <2> QED
    BY <1>1, <2>2 DEF AfterEntry, Goto, PC, TypeOK
<1>2. CASE ~(step[p] < 4)
    BY <1>2 DEF AfterEntry, Goto, PC, TypeOK
<1> QED
    BY <1>1, <1>2

\* Every step of an uninstallation keeps the types.
LEMMA UninstallingTypeOK ==
    ASSUME TypeOK, NEW p \in Procs, Uninstalling(p)
    PROVE  TypeOK'
<1>1. CASE Verify(p)
  <2>1. pc' \in [Procs -> PC] /\ step' \in [Procs -> 1 .. 4]
    BY <1>1, AfterEntryTypeOK DEF Verify, Goto, PC, TypeOK
  <2> QED
    BY <1>1, <2>1 DEF Verify, files, bounds, history, TypeOK
<1>2. CASE Unlink(p)
  <2>1. pc' \in [Procs -> PC] /\ step' \in [Procs -> 1 .. 4]
    BY <1>2, AfterEntryTypeOK DEF Unlink
  <2>2. entry' = [entry EXCEPT ![dir[p]][Removed[step[p]]] = Nothing]
    BY <1>2 DEF Unlink
  <2>3. dir[p] \in Dirs /\ Removed[step[p]] \in Names
    BY EntryNames DEF TypeOK
  <2>4. entry' \in [Dirs -> [Names -> Content]]
    BY <2>2, <2>3, EntryReplaced, Contents DEF TypeOK
  <2> QED
    BY <1>2, <2>1, <2>4 DEF Unlink, bounds, history, TypeOK
<1>3. CASE RemoveCopy(p)
  <2>1. "ok" \in Final /\ Ends(p, "ok")
    BY <1>3 DEF RemoveCopy, Final
  <2>2. managed' \in [Dirs -> Content] /\ owed' \subseteq Native
    BY <1>3, Contents DEF RemoveCopy, TypeOK
  <2> QED
    BY <1>3, <2>1, <2>2, EndsTypeOK DEF RemoveCopy, bounds, TypeOK
<1> QED
    BY <1>1, <1>2, <1>3 DEF Uninstalling

\* What the updater brings is a version.
LEMMA UpdateTypeOK ==
    ASSUME TypeOK, NEW place \in Place, Update(place)
    PROVE  TypeOK' /\ newest + 1 \in Native
<1>1. newest + 1 \in Native
  <2>1. newest \in 1 .. MaxVersion /\ newest < MaxVersion
    BY DEF Update, TypeOK, Native
  <2> QED
    BY <2>1, InstallerAssumption DEF Native
<1>2. entry' \in [Dirs -> [Names -> Content]]
  <2>1. CASE place.in = "entry"
    <3>1. place.dir \in Dirs /\ "agy" \in Names /\ newest + 1 \in Content
      BY <1>1, <2>1, Contents DEF Place, Names
    <3>2. entry' = [entry EXCEPT ![place.dir]["agy"] = newest + 1]
      BY <2>1 DEF Update
    <3> QED
      BY <3>1, <3>2, EntryReplaced DEF TypeOK
  <2>2. CASE place.in # "entry"
    BY <2>2 DEF Update, TypeOK
  <2> QED
    BY <2>1, <2>2
<1>3. managed' \in [Dirs -> Content]
    BY <1>1, Contents DEF Update, TypeOK
<1>4. package' \in Native \cup {Nothing}
    BY <1>1 DEF Update, TypeOK
<1>5. owed' \subseteq Native /\ disturbed' \subseteq Disturbance /\ newest' \in Native
    BY <1>1 DEF Update, TypeOK, Disturbance
<1> QED
    BY <1>1, <1>2, <1>3, <1>4, <1>5 DEF Update, local, TypeOK

\* Beginning and ending a command keep the types.
LEMMA BeginTypeOK ==
    ASSUME TypeOK, NEW p \in Procs, Begin(p) \/ Stops(p)
    PROVE  TypeOK'
<1>1. CASE Begin(p)
  <2>1. PICK k \in {"install", "uninstall"}, d \in Dirs, n \in {"search", "--native-agy", "AGY_BIN"} :
           /\ kind' = [kind EXCEPT ![p] = k] /\ dir' = [dir EXCEPT ![p] = d]
           /\ named' = [named EXCEPT ![p] = n]
           /\ Goto(p, IF k = "install" THEN "choose" ELSE "verify")
    BY <1>1 DEF Begin
  <2>2. kind' \in [Procs -> {"install", "uninstall"}]
    BY <2>1 DEF TypeOK
  <2>3. dir' \in [Procs -> Dirs]
    BY <2>1 DEF TypeOK
  <2>4. named' \in [Procs -> {"search", "--native-agy", "AGY_BIN"}]
    BY <2>1 DEF TypeOK
  <2>5. pc' \in [Procs -> PC]
    BY <2>1 DEF Goto, PC, TypeOK
  <2>6. disturbed' \subseteq Disturbance
    BY <1>1 DEF Begin, Disturbance, TypeOK
  <2>7. commands' \in 0 .. MaxCommands
    BY <1>1, InstallerAssumption DEF Begin, TypeOK
  <2> QED
    BY <1>1, <2>2, <2>3, <2>4, <2>5, <2>6, <2>7 DEF Begin, files, TypeOK
<1>2. CASE Stops(p)
  <2>1. "idle" \in Final /\ Ends(p, "idle") /\ UNCHANGED <<files, bounds, history>>
    BY <1>2 DEF Stops, Final
  <2> QED
    BY <2>1, EndsTypeOK DEF files, bounds, history, TypeOK
<1> QED
    BY <1>1, <1>2

\* Files, places and histories have their types in every state.
THEOREM TypeCorrect == Spec => []TypeOK
<1>1. Init => TypeOK
  <2> SUFFICES ASSUME Init PROVE TypeOK
    OBVIOUS
  <2>1. 1 \in Native /\ 1 \in Content /\ Nothing \in Content
    BY InstallerAssumption, Contents DEF Native
  <2>2. entry \in [Dirs -> [Names -> Content]]
    <3>1. PICK e \in [Dirs -> {[n \in Names |-> IF n = "agy" THEN c ELSE Nothing] : c \in {1, Nothing}}] :
             entry = e
      BY DEF Init
    <3>2. \A d \in Dirs : e[d] \in [Names -> Content]
      BY <2>1, <3>1
    <3> QED
      BY <3>1, <3>2
  <2>3. Package \in Place /\ "user" \in Dirs /\ "idle" \in PC /\ 0 \in 0 .. MaxCommands
    BY InstallerAssumption DEF Package, Place, Dirs, PC
  <2>4. package \in Native \cup {Nothing} /\ owed \subseteq Native
    BY <2>1 DEF Init
  <2> QED
    BY <2>1, <2>2, <2>3, <2>4 DEF Init, TypeOK, Disturbance
<1>2. TypeOK /\ [Next]_vars => TypeOK'
  <2> SUFFICES ASSUME TypeOK, [Next]_vars PROVE TypeOK'
    OBVIOUS
  <2>1. CASE UNCHANGED vars
    BY <2>1 DEF vars, files, bounds, local, history, TypeOK
  <2> QED
    BY <2>1, BeginTypeOK, InstallingTypeOK, UninstallingTypeOK, UpdateTypeOK DEF Next
<1> QED
    BY <1>1, <1>2, PTL DEF Spec

---------------------------------------------------------------------------
(* Commands one by one.                                                    *)

\* What is left of a command that has ended.
LEMMA CommandEnds ==
    ASSUME TypeOK, NEW p \in Procs, NEW l \in Final, Ends(p, l)
    PROVE  /\ pc'[p] = l /\ kind'[p] = "install" /\ step'[p] = 1 /\ named'[p] = "search" /\ held'[p] = Nothing
           /\ \A q \in Procs : q # p =>
                /\ pc'[q] = pc[q] /\ kind'[q] = kind[q] /\ step'[q] = step[q]
                /\ dir'[q] = dir[q] /\ held'[q] = held[q] /\ named'[q] = named[q]
                /\ source'[q] = source[q]
BY DEF Ends, Goto, TypeOK

\* A command's place in the program says of it what Control says.
LEMMA ControlStep == TypeOK /\ Control /\ [Next]_vars => Control'
<1> SUFFICES ASSUME TypeOK, Control, [Next]_vars PROVE Control'
    OBVIOUS
<1>1. ASSUME NEW p \in Procs, NEW l \in Final, Ends(p, l), disturbed \subseteq disturbed' PROVE Control'
    BY <1>1, CommandEnds DEF Control, Active, Final
<1>2. ASSUME NEW p \in Procs, Begin(p) PROVE Control'
    BY <1>2 DEF Begin, Goto, Control, Active, Final, TypeOK
<1>3. ASSUME NEW p \in Procs, Installing(p) PROVE Control'
  <2>1. CASE Choose(p)
    BY <2>1 DEF Choose, Goto, Control, Active, Final, TypeOK, history
  <2>2. CASE NotFound(p)
    BY <2>2, <1>1 DEF NotFound, Final, history
  <2>3. CASE Copy(p)
    BY <2>3 DEF Copy, Valid, Goto, Control, Active, Final, TypeOK, history
  <2>4. CASE Preserve(p) \/ Recheck(p)
    BY <2>4 DEF Preserve, Recheck, Goto, Control, Active, Final, TypeOK, local, history
  <2>5. CASE ClearOrig(p)
    BY <2>5 DEF ClearOrig, Control, Active, local, history
  <2>6. CASE Publish(p) /\ step[p] < 4
    BY <2>6 DEF Publish, Control, Active, TypeOK, history
  <2>7. CASE Publish(p) /\ ~(step[p] < 4)
    BY <2>7, <1>1 DEF Publish, Final, history
  <2> QED
    BY <1>3, <2>1, <2>2, <2>3, <2>4, <2>5, <2>6, <2>7 DEF Installing
<1>4. ASSUME NEW p \in Procs, Uninstalling(p) PROVE Control'
  <2>1. CASE Verify(p)
    BY <2>1 DEF Verify, AfterEntry, Goto, Control, Active, Final, TypeOK, history
  <2>2. CASE Unlink(p)
    BY <2>2, ZenonT(30) DEF Unlink, AfterEntry, Goto, Control, Active, Final, TypeOK, history
  <2>3. CASE RemoveCopy(p)
    BY <2>3, <1>1 DEF RemoveCopy, Final
  <2> QED
    BY <1>4, <2>1, <2>2, <2>3 DEF Uninstalling
<1>5. ASSUME NEW p \in Procs, Stops(p) PROVE Control'
    BY <1>5, <1>1 DEF Stops, Final, history
<1>6. ASSUME NEW place \in Place, Update(place) PROVE Control'
    BY <1>6 DEF Update, Control, Active, local
<1>7. CASE UNCHANGED vars
    BY <1>7 DEF vars, local, history, Control, Active
<1> QED
    BY <1>2, <1>3, <1>4, <1>5, <1>6, <1>7 DEF Next

\* A command that is under way stays what it is, and no other step starts one or
\* forgets a disturbance.
LEMMA NobodyStarts ==
    ASSUME TypeOK, Control, [Next]_vars, \A p \in Procs : ~Begin(p)
    PROVE  /\ disturbed \subseteq disturbed'
           /\ "overlap" \in disturbed' => "overlap" \in disturbed
           /\ "uninstall_overlap" \in disturbed' => "uninstall_overlap" \in disturbed
           /\ \A q \in Procs : Active(q)' => Active(q) /\ kind'[q] = kind[q] /\ dir'[q] = dir[q] /\ named'[q] = named[q]
<1> DEFINE Others == \A q \in Procs : Active(q)' => Active(q) /\ kind'[q] = kind[q] /\ dir'[q] = dir[q] /\ named'[q] = named[q]
<1>1. ASSUME NEW p \in Procs, NEW l \in Final, Ends(p, l) PROVE Others
    BY <1>1, CommandEnds DEF Active
<1>2. ASSUME NEW p \in Procs, Installing(p) PROVE Others /\ disturbed' = disturbed
  <2>1. CASE Choose(p) \/ Copy(p)
    BY <2>1 DEF Choose, Copy, Goto, Active, Final, TypeOK, history
  <2>2. CASE NotFound(p)
    BY <2>2, <1>1 DEF NotFound, Final, history
  <2>3. CASE Preserve(p) \/ Recheck(p) \/ ClearOrig(p)
    BY <2>3 DEF Preserve, Recheck, ClearOrig, Goto, Active, Final, TypeOK, local, history
  <2>4. CASE Publish(p) /\ step[p] < 4
    BY <2>4 DEF Publish, Active, history
  <2>5. CASE Publish(p) /\ ~(step[p] < 4)
    BY <2>5, <1>1 DEF Publish, Final, history
  <2> QED
    BY <1>2, <2>1, <2>2, <2>3, <2>4, <2>5 DEF Installing
<1>3. ASSUME NEW p \in Procs, Uninstalling(p) PROVE Others /\ disturbed' = disturbed
  <2>1. CASE Verify(p) \/ Unlink(p)
    BY <2>1 DEF Verify, Unlink, AfterEntry, Goto, Active, Final, TypeOK, history
  <2>2. CASE RemoveCopy(p)
    BY <2>2, <1>1 DEF RemoveCopy, Final
  <2> QED
    BY <1>3, <2>1, <2>2 DEF Uninstalling
<1>4. ASSUME NEW p \in Procs, Stops(p) PROVE Others /\ disturbed' = disturbed
    BY <1>4, <1>1 DEF Stops, Final, history
<1>5. ASSUME NEW place \in Place, Update(place)
      PROVE  /\ Others /\ disturbed \subseteq disturbed'
             /\ disturbed' \subseteq disturbed \cup {"late_update", "passed_over"}
    BY <1>5 DEF Update, Active, local
<1>6. CASE UNCHANGED vars
    BY <1>6 DEF vars, local, history, Active
<1> QED
    BY <1>2, <1>3, <1>4, <1>5, <1>6 DEF Next

\* The disturbances stand for what they say.
LEMMA AloneStep == TypeOK /\ Control /\ Alone /\ [Next]_vars => Alone'
<1> SUFFICES ASSUME TypeOK, Control, Alone, [Next]_vars PROVE Alone'
    OBVIOUS
<1>1. CASE \A p \in Procs : ~Begin(p)
    BY <1>1, NobodyStarts DEF Alone
<1>2. ASSUME NEW p \in Procs, Begin(p) PROVE Alone'
    BY <1>2 DEF Begin, Goto, Alone, Active, Final, TypeOK
<1> QED
    BY <1>1, <1>2

\* What the rest of the argument needs of the commands.
LEMMA CommandsApart == Spec => [](TypeOK /\ Control /\ Alone)
<1>1. Init => Control /\ Alone
    BY DEF Init, Control, Alone, Active, Final
<1> QED
    BY <1>1, TypeCorrect, ControlStep, AloneStep, PTL DEF Spec

---------------------------------------------------------------------------
(* The shim.                                                               *)

\* While uninstallations come alone: where the shim is, agy-pool and a preserved
\* copy are; an installation that publishes has its copy in place, and agy-pool
\* before the shim; an uninstallation removes both only after the shim.
ShimInv ==
    /\ \A d \in Dirs : managed[d] # Own
    /\ "uninstall_overlap" \notin disturbed =>
        /\ \A d \in Dirs : entry[d]["agy"] = Own => entry[d]["agy-pool"] = Own /\ managed[d] \in Native
        /\ \A p \in Procs :
            /\ pc[p] = "publish" => managed[dir[p]] \in Native
            /\ pc[p] = "publish" /\ step[p] > 1 => entry[dir[p]]["agy-pool"] = Own
            /\ kind[p] = "uninstall" /\ (step[p] > 1 \/ pc[p] = "remove_copy") =>
                entry[dir[p]]["agy"] # Own

\* Commands that begin find it, and leave it when they stop.
LEMMA ShimBeginStops ==
    ASSUME TypeOK, Control, ShimInv, NEW p \in Procs, Begin(p) \/ Stops(p)
    PROVE  ShimInv'
<1>1. CASE Begin(p)
    BY <1>1 DEF Begin, Goto, Control, ShimInv, Active, Final, TypeOK, files
<1>2. CASE Stops(p)
  <2>1. Ends(p, "idle") /\ "idle" \in Final
    BY <1>2 DEF Stops, Final
  <2> QED
    BY <1>2, <2>1, CommandEnds DEF Stops, ShimInv, Final, files, history
<1> QED
    BY <1>1, <1>2

\* An installation puts the copy, agy-pool and the shim into place in this order.
LEMMA ShimInstalling ==
    ASSUME TypeOK, Control, Alone, ShimInv, NEW p \in Procs, Installing(p)
    PROVE  ShimInv'
<1> DEFINE d == dir[p]
<1> d \in Dirs
    BY DEF TypeOK
<1>1. CASE Choose(p) \/ Copy(p)
    BY <1>1 DEF Choose, Copy, Goto, ShimInv, Control, TypeOK, files, history
<1>2. CASE NotFound(p)
  <2>1. Ends(p, "idle") /\ "idle" \in Final
    BY <1>2 DEF NotFound, Final
  <2> QED
    BY <1>2, <2>1, CommandEnds DEF NotFound, ShimInv, Final, files, history
<1>3. CASE Preserve(p)
  <2>1. \A e \in Dirs : managed'[e] = IF e = d THEN held[p] ELSE managed[e]
    BY <1>3 DEF Preserve, TypeOK
  <2>2. held[p] \in Native /\ held[p] # Own
    BY <1>3, Contents DEF Preserve, Control
  <2> QED
    BY <1>3, <2>1, <2>2 DEF Preserve, Goto, ShimInv, Control, TypeOK, local, history
<1>4. CASE Recheck(p)
  <2>1. managed[d] \in Native
    BY <1>4 DEF Recheck, Valid, At, Managed
  <2> QED
    BY <1>4, <2>1 DEF Recheck, Goto, ShimInv, Control, TypeOK, files, local, history
<1>5. CASE ClearOrig(p)
  <2>1. \A e \in Dirs, m \in Names :
           entry'[e][m] = IF e = d /\ m = "agy-orig" THEN Nothing ELSE entry[e][m]
    BY <1>5, EntryReplaced, Contents DEF ClearOrig, TypeOK, Names
  <2>2. \A e \in Dirs : entry'[e]["agy"] = entry[e]["agy"] /\ entry'[e]["agy-pool"] = entry[e]["agy-pool"]
    BY <2>1 DEF Names
  <2> QED
    BY <1>5, <2>2 DEF ClearOrig, ShimInv, TypeOK, local, history
<1>6. CASE Publish(p)
  <2> DEFINE n == Published[step[p]]
  <2>1. n \in Names /\ (n = "agy" => step[p] > 1)
    BY EntryNames DEF TypeOK
  <2>2. \A e \in Dirs, m \in Names : entry'[e][m] = IF e = d /\ m = n THEN Own ELSE entry[e][m]
    BY <1>6, <2>1, EntryReplaced, Contents DEF Publish, TypeOK
  <2>3. \A e \in Dirs :
           /\ entry'[e]["agy"] = IF e = d /\ n = "agy" THEN Own ELSE entry[e]["agy"]
           /\ entry'[e]["agy-pool"] = IF e = d /\ n = "agy-pool" THEN Own ELSE entry[e]["agy-pool"]
    BY <2>2 DEF Names
  <2>4. managed' = managed /\ disturbed' = disturbed
    BY <1>6 DEF Publish, history
  <2>5. n = "agy-pool" <=> step[p] = 1
    BY EntryNames DEF TypeOK
  <2>6. kind[p] = "install" /\ Active(p)
    BY <1>6 DEF Publish, Control, Active, Final
  <2>7. "uninstall_overlap" \notin disturbed => \A q \in Procs : Active(q) => kind[q] = "install"
    BY <2>6 DEF Alone, TypeOK
  <2>8. \A q \in Procs : ~Active(q) => step[q] = 1 /\ pc[q] # "remove_copy" /\ pc[q] # "publish"
    BY DEF Control, Active, Final
  <2>9. CASE step[p] < 4
    <3>1. step' = [step EXCEPT ![p] = step[p] + 1] /\ UNCHANGED <<pc, kind, dir>> /\ pc[p] = "publish"
      BY <1>6, <2>9 DEF Publish
    <3>2. step[p] + 1 > 1 /\ (step[p] > 1 \/ step[p] = 1)
      BY DEF TypeOK
    <3> QED
      BY <2>1, <2>3, <2>4, <2>5, <2>6, <2>7, <2>8, <3>1, <3>2 DEF ShimInv, TypeOK
  <2>10. CASE ~(step[p] < 4)
    <3>1. Ends(p, "ok") /\ "ok" \in Final /\ pc[p] = "publish"
      BY <1>6, <2>10 DEF Publish, Final
    <3>2. /\ pc'[p] = "ok" /\ kind'[p] = "install"
          /\ \A q \in Procs : q # p => /\ pc'[q] = pc[q] /\ kind'[q] = kind[q]
                                       /\ step'[q] = step[q] /\ dir'[q] = dir[q]
      BY <3>1, CommandEnds
    <3>3. ASSUME "uninstall_overlap" \notin disturbed, NEW e \in Dirs, entry'[e]["agy"] = Own
          PROVE  entry'[e]["agy-pool"] = Own /\ managed'[e] \in Native
      BY <2>1, <2>3, <2>4, <3>1, <3>3 DEF ShimInv
    <3>4. ASSUME "uninstall_overlap" \notin disturbed, NEW q \in Procs, q # p
          PROVE  ~(kind[q] = "uninstall" /\ (step[q] > 1 \/ pc[q] = "remove_copy"))
      BY <2>7, <2>8, <3>4
    <3> QED
      BY <2>3, <2>4, <3>2, <3>3, <3>4 DEF ShimInv, TypeOK
  <2> QED
    BY <2>9, <2>10
<1> QED
    BY <1>1, <1>2, <1>3, <1>4, <1>5, <1>6 DEF Installing

\* An uninstallation removes the shim first.
LEMMA ShimUninstalling ==
    ASSUME TypeOK, Control, Alone, ShimInv, NEW p \in Procs, Uninstalling(p)
    PROVE  ShimInv'
<1> DEFINE d == dir[p]
           n == Removed[step[p]]
<1>1. d \in Dirs /\ n \in Names /\ (n = "agy" <=> step[p] = 1)
    BY EntryNames DEF TypeOK
<1>2. kind[p] = "uninstall" /\ Active(p)
    BY DEF Uninstalling, Verify, Unlink, RemoveCopy, Control, Active, Final
<1>3. "uninstall_overlap" \notin disturbed => \A q \in Procs : q # p => ~Active(q)
    BY <1>2 DEF Alone
<1>4. \A q \in Procs : ~Active(q) => step[q] = 1 /\ pc[q] # "remove_copy" /\ pc[q] # "publish"
    BY DEF Control, Active, Final
<1>5. step[p] = 1 \/ step[p] > 1
    BY DEF TypeOK
<1>6. CASE Verify(p)
  <2>1. entry[d][n] # Own \/ (step' = step /\ pc'[p] = "unlink")
    BY <1>6 DEF Verify, Goto, TypeOK
  <2>2. \A q \in Procs : q # p => pc'[q] = pc[q] /\ step'[q] = step[q]
    BY <1>6 DEF Verify, AfterEntry, Goto, TypeOK
  <2>3. pc'[p] # "publish" /\ UNCHANGED <<files, kind, dir, disturbed>>
    BY <1>6 DEF Verify, AfterEntry, Goto, TypeOK, history
  <2> QED
    BY <1>1, <1>5, <2>1, <2>2, <2>3 DEF ShimInv, TypeOK, files
<1>7. CASE Unlink(p)
  <2>1. \A e \in Dirs, m \in Names : entry'[e][m] = IF e = d /\ m = n THEN Nothing ELSE entry[e][m]
    BY <1>1, <1>7, EntryReplaced, Contents DEF Unlink, TypeOK
  <2>2. \A e \in Dirs :
           /\ entry'[e]["agy"] = IF e = d /\ n = "agy" THEN Nothing ELSE entry[e]["agy"]
           /\ entry'[e]["agy-pool"] = IF e = d /\ n = "agy-pool" THEN Nothing ELSE entry[e]["agy-pool"]
    BY <2>1 DEF Names
  <2>3. \A q \in Procs : q # p => pc'[q] = pc[q] /\ step'[q] = step[q]
    BY <1>7 DEF Unlink, AfterEntry, Goto, TypeOK
  <2>4. pc'[p] # "publish" /\ UNCHANGED <<managed, kind, dir, disturbed>>
    BY <1>7 DEF Unlink, AfterEntry, Goto, TypeOK, history
  <2> QED
    BY <1>1, <1>2, <1>3, <1>4, <1>5, <2>2, <2>3, <2>4, Contents DEF ShimInv, TypeOK
<1>8. CASE RemoveCopy(p)
  <2>1. \A e \in Dirs : managed'[e] = IF e = d THEN Nothing ELSE managed[e]
    BY <1>8 DEF RemoveCopy, TypeOK
  <2>2. Ends(p, "ok") /\ "ok" \in Final /\ pc[p] = "remove_copy" /\ UNCHANGED <<entry, disturbed>>
    BY <1>8 DEF RemoveCopy, Final
  <2>3. /\ pc'[p] = "ok" /\ kind'[p] = "install"
        /\ \A q \in Procs : q # p => /\ pc'[q] = pc[q] /\ kind'[q] = kind[q]
                                     /\ step'[q] = step[q] /\ dir'[q] = dir[q]
    BY <2>2, CommandEnds
  <2>4. "uninstall_overlap" \notin disturbed => entry[d]["agy"] # Own
    BY <1>1, <1>2, <2>2 DEF ShimInv
  <2>5. ASSUME "uninstall_overlap" \notin disturbed, NEW q \in Procs
        PROVE  pc'[q] # "publish" /\ ~(kind'[q] = "uninstall" /\ (step'[q] > 1 \/ pc'[q] = "remove_copy"))
    BY <1>3, <1>4, <2>3, <2>5
  <2> QED
    BY <1>1, <2>1, <2>2, <2>4, <2>5, Contents DEF ShimInv
<1> QED
    BY <1>6, <1>7, <1>8 DEF Uninstalling

\* An update is a native binary, wherever it is put.
LEMMA ShimUpdate ==
    ASSUME TypeOK, ShimInv, NEW place \in Place, Update(place)
    PROVE  ShimInv'
<1>1. newest + 1 \in Native /\ newest + 1 # Own /\ newest + 1 \in Content
    BY UpdateTypeOK, Contents
<1>2. \A d \in Dirs : managed'[d] = managed[d] \/ managed'[d] = newest + 1
    BY DEF Update, TypeOK
<1>3. \A d \in Dirs :
         /\ entry'[d]["agy"] = entry[d]["agy"] \/ entry'[d]["agy"] = newest + 1
         /\ entry'[d]["agy-pool"] = entry[d]["agy-pool"]
  <2>1. CASE place.in = "entry"
    <3>1. place.dir \in Dirs /\ "agy" \in Names /\ entry' = [entry EXCEPT ![place.dir]["agy"] = newest + 1]
      BY <2>1 DEF Place, Names, Update
    <3>2. \A d \in Dirs, m \in Names :
             entry'[d][m] = IF d = place.dir /\ m = "agy" THEN newest + 1 ELSE entry[d][m]
      BY <1>1, <3>1, EntryReplaced DEF TypeOK
    <3> QED
      BY <3>2 DEF Names
  <2>2. CASE place.in # "entry"
    BY <2>2 DEF Update
  <2> QED
    BY <2>1, <2>2
<1>4. UNCHANGED <<pc, kind, dir, step>> /\ ("uninstall_overlap" \in disturbed => "uninstall_overlap" \in disturbed')
    BY DEF Update, local
<1>5. dir \in [Procs -> Dirs]
    BY DEF TypeOK
<1> QED
    BY <1>1, <1>2, <1>3, <1>4, <1>5 DEF ShimInv

\* What the order of the steps keeps true of the shim.
LEMMA ShimInvariant == Spec => []ShimInv
<1>1. Init => ShimInv
  <2> SUFFICES ASSUME Init PROVE ShimInv
    OBVIOUS
  <2>1. 1 # Own /\ Nothing # Own
    BY InstallerAssumption
  <2>2. \A d \in Dirs : entry[d]["agy"] # Own
    <3>1. \A d \in Dirs : entry[d] \in {[n \in Names |-> IF n = "agy" THEN c ELSE Nothing] : c \in {1, Nothing}}
      BY DEF Init
    <3> QED
      BY <2>1, <3>1 DEF Names
  <2> QED
    BY <2>1, <2>2 DEF Init, ShimInv
<1>2. TypeOK /\ Control /\ Alone /\ ShimInv /\ [Next]_vars => ShimInv'
  <2> SUFFICES ASSUME TypeOK, Control, Alone, ShimInv, [Next]_vars PROVE ShimInv'
    OBVIOUS
  <2>1. CASE UNCHANGED vars
    BY <2>1 DEF vars, files, local, history, ShimInv
  <2> QED
    BY <2>1, ShimBeginStops, ShimInstalling, ShimUninstalling, ShimUpdate DEF Next
<1> QED
    BY <1>1, <1>2, CommandsApart, PTL DEF Spec

\* The shim never stands without agy-pool and a native binary for it, and no
\* preserved copy is a shim, for any number of commands at the same time.
THEOREM ShimAlwaysWorks == Spec => []ShimWorks
<1>1. ShimInv => ShimWorks
  <2>1. \A d \in Dirs : managed[d] \in Native => SomeValid(Search("search"))
    <3>1. Search("search")[1] = Managed("user") /\ Search("search")[2] = Managed("system")
          /\ 1 \in DOMAIN Search("search") /\ 2 \in DOMAIN Search("search")
      BY DEF Search
    <3> QED
      BY <3>1 DEF SomeValid, Valid, At, Managed, Dirs
  <2> QED
    BY <2>1 DEF ShimInv, ShimWorks
<1> QED
    BY <1>1, ShimInvariant, PTL

---------------------------------------------------------------------------
(* The newest version.                                                     *)

\* A version is in one of the places.
Kept(v) == (\E d \in Dirs : entry[d]["agy"] = v \/ managed[d] = v) \/ package = v

\* Nothing is newer than the newest version.
Versions ==
    /\ \A d \in Dirs : entry[d]["agy"] \in Native => entry[d]["agy"] <= newest
    /\ \A d \in Dirs : managed[d] \in Native => managed[d] <= newest
    /\ package \in Native => package <= newest
    /\ \A p \in Procs : held[p] \in Native => held[p] <= newest
    /\ owed \subseteq {newest}

\* Where no version may get lost, a native entry is as new as the preserved copy
\* beside it, an installation copies the entry if it is native and otherwise adds
\* a copy that was missing, and before it publishes its copy is as new as the
\* entry it replaces.
Ready(p) ==
    LET d == dir[p]
        native == entry[d]["agy"] \in Native
    IN /\ pc[p] = "copy" => IF native THEN source[p] = Entry(d) ELSE managed[d] \notin Native
       /\ pc[p] = "preserve" => IF native THEN held[p] = entry[d]["agy"] ELSE managed[d] \notin Native
       /\ pc[p] \in {"recheck", "publish"} => (entry[d]["agy"] \in owed => managed[d] = entry[d]["agy"])
       /\ pc[p] = "unlink" /\ step[p] = 1 => entry[d]["agy"] = Own

KeptInv ==
    /\ Versions
    /\ disturbed = {} =>
        /\ \A v \in owed : Kept(v)
        /\ \A d \in Dirs : managed[d] \in owed /\ entry[d]["agy"] \in Native => entry[d]["agy"] = managed[d]
        /\ \A p \in Procs : Ready(p)

\* An installation looks at the entry first and at the preserved copy next.
LEMMA FirstLook ==
    ASSUME TypeOK, NEW p \in Procs, named[p] # "--native-agy",
           NEW place \in Place, IsFirst(place, Candidates(p))
    PROVE  /\ At(place) \in Native
           /\ entry[dir[p]]["agy"] \in Native => place = Entry(dir[p]) /\ place # Managed(dir[p])
           /\ entry[dir[p]]["agy"] \notin Native /\ place # Managed(dir[p]) => managed[dir[p]] \notin Native
<1> DEFINE d == dir[p]
           c == Candidates(p)
<1>1. c[1] = Entry(d) /\ c[2] = Managed(d) /\ DOMAIN c \subseteq Nat \ {0}
  <2>1. c = <<Entry(d), Managed(d)>> \o Search(named[p])
    BY DEF Candidates
  <2>2. Search(named[p]) \in Seq(Place)
    <3>1. Package \in Place /\ \A e \in Dirs : Managed(e) \in Place /\ Entry(e) \in Place
      BY DEF Place, Package, Entry, Managed
    <3>2. <<Package>> \in Seq(Place)
      BY <3>1
    <3>3. <<Managed("user"), Managed("system"), Entry("system"), Package, Entry("user")>> \in Seq(Place)
      BY <3>1 DEF Dirs
    <3> QED
      BY <3>2, <3>3 DEF Search
  <2>3. <<Entry(d), Managed(d)>> \in Seq(Place) /\ Len(<<Entry(d), Managed(d)>>) = 2
    BY DEF Place, Entry, Managed, TypeOK
  <2> QED
    BY <2>1, <2>2, <2>3
<1>2. Valid(Entry(d)) <=> entry[d]["agy"] \in Native
    BY DEF Valid, At, Entry
<1>3. Valid(Managed(d)) <=> managed[d] \in Native
    BY DEF Valid, At, Managed
<1>4. PICK i \in DOMAIN c : c[i] = place /\ Valid(place) /\ \A j \in 1 .. i - 1 : ~Valid(c[j])
    BY DEF IsFirst
<1>5. i \in Nat \ {0}
    BY <1>1
<1>6. Valid(Entry(d)) => i = 1
    BY <1>1, <1>4, <1>5
<1>7. ~Valid(Entry(d)) /\ Valid(Managed(d)) => i = 2
  <2>1. ~Valid(Entry(d)) => i # 1
    BY <1>1, <1>4
  <2> QED
    BY <1>1, <1>4, <1>5, <2>1
<1>8. Entry(d) # Managed(d)
    BY DEF Entry, Managed
<1> QED
    BY <1>1, <1>2, <1>3, <1>4, <1>6, <1>7, <1>8 DEF Valid

\* The files that matter to the newest version are as they were.
LEMMA VersionsUnchanged ==
    ASSUME TypeOK, Versions, UNCHANGED <<files, newest>>, owed' = owed,
           \A p \in Procs : held'[p] = held[p] \/ held'[p] = Nothing
    PROVE  Versions'
BY Contents DEF Versions, files

\* A command that ends or changes nothing keeps what there is.
LEMMA KeptIdle ==
    ASSUME TypeOK, Control, KeptInv, NEW p \in Procs,
           NotFound(p) \/ Stops(p) \/ Begin(p)
    PROVE  KeptInv'
<1>1. CASE NotFound(p) \/ Stops(p)
  <2>1. Ends(p, "idle") /\ "idle" \in Final /\ UNCHANGED <<files, bounds, history>>
    BY <1>1 DEF NotFound, Stops, Final
  <2>2. held' = [held EXCEPT ![p] = Nothing]
    BY <2>1 DEF Ends
  <2>3. Versions'
    BY <2>1, <2>2, VersionsUnchanged DEF KeptInv, bounds, history, TypeOK
  <2>4. pc'[p] = "idle" /\ \A q \in Procs : q # p =>
            pc'[q] = pc[q] /\ step'[q] = step[q] /\ dir'[q] = dir[q] /\ held'[q] = held[q] /\ source'[q] = source[q]
    BY <2>1, CommandEnds
  <2>5. \A q \in Procs : Ready(q) => Ready(q)'
    BY <2>1, <2>4 DEF Ready, files, history, Final
  <2> QED
    BY <2>1, <2>3, <2>5 DEF KeptInv, Kept, files, history
<1>2. CASE Begin(p)
  <2>1. UNCHANGED <<files, newest, held, source, step, owed>> /\ disturbed \subseteq disturbed'
    BY <1>2 DEF Begin
  <2>2. Versions'
    BY <2>1, VersionsUnchanged DEF KeptInv
  <2>3. pc'[p] \in {"choose", "verify"} /\ \A q \in Procs : q # p => pc'[q] = pc[q] /\ dir'[q] = dir[q]
    BY <1>2 DEF Begin, Goto, TypeOK
  <2>4. \A q \in Procs : Ready(q) => Ready(q)'
    BY <2>1, <2>3 DEF Ready, files
  <2> QED
    BY <2>1, <2>2, <2>4 DEF KeptInv, Kept, files
<1> QED
    BY <1>1, <1>2

\* Undisturbed, nothing is asked of the other commands: there are none.
LEMMA OthersReady ==
    ASSUME Alone, NEW p \in Procs, Active(p), disturbed = {},
           \A q \in Procs : q # p => pc'[q] = pc[q]
    PROVE  \A q \in Procs : q # p => Ready(q)'
BY DEF Alone, Active, Final, Ready

\* No place holds anything newer than the newest version.
LEMMA PlaceVersions ==
    ASSUME TypeOK, Versions, NEW place \in Place, At(place) \in Native
    PROVE  At(place) <= newest
<1>1. CASE place = Package
    BY <1>1 DEF At, Package, Versions
<1>2. CASE place \in [in : {"entry", "managed"}, dir : Dirs]
    BY <1>2 DEF At, Versions
<1> QED
    BY <1>1, <1>2 DEF Place, Package

\* The preserved copy replaced what the entry holds as well.
LEMMA KeptPreserve ==
    ASSUME TypeOK, Control, Alone, KeptInv, NEW p \in Procs, Preserve(p)
    PROVE  KeptInv'
<1> DEFINE d == dir[p]
<1>1. d \in Dirs /\ pc[p] = "preserve" /\ Active(p) /\ held[p] \in Native /\ owed \subseteq Native
    BY DEF Preserve, Active, Final, Control, TypeOK
<1>2. \A e \in Dirs : managed'[e] = IF e = d THEN held[p] ELSE managed[e]
    BY DEF Preserve, TypeOK
<1>3. UNCHANGED <<entry, package, newest, held, step, dir, source, owed, disturbed>>
    BY DEF Preserve, bounds, local, history
<1>4. pc'[p] = "recheck" /\ \A q \in Procs : q # p => pc'[q] = pc[q]
    BY DEF Preserve, Goto, TypeOK
<1>5. Versions'
    BY <1>1, <1>2, <1>3 DEF KeptInv, Versions
<1>6. ASSUME disturbed = {}
      PROVE  /\ \A v \in owed : Kept(v)'
             /\ \A e \in Dirs : managed'[e] \in owed /\ entry[e]["agy"] \in Native => entry[e]["agy"] = managed'[e]
             /\ \A q \in Procs : Ready(q)'
  <2>1. IF entry[d]["agy"] \in Native THEN held[p] = entry[d]["agy"] ELSE managed[d] \notin Native
    BY <1>1, <1>6 DEF KeptInv, Ready
  <2>2. ASSUME NEW v \in owed PROVE Kept(v)'
    <3>1. Kept(v)
      BY <1>6 DEF KeptInv
    <3>2. v = managed[d] => v = entry[d]["agy"]
      BY <1>1, <1>6, <2>1 DEF KeptInv
    <3> QED
      BY <1>1, <1>2, <1>3, <3>1, <3>2 DEF Kept
  <2>3. Ready(p)'
    BY <1>1, <1>2, <1>3, <1>4, <2>1 DEF Ready
  <2> QED
    BY <1>1, <1>2, <1>4, <1>6, <2>1, <2>2, <2>3, OthersReady DEF KeptInv
<1> QED
    BY <1>3, <1>5, <1>6 DEF KeptInv

\* Publishing replaces only what has been preserved.
LEMMA KeptPublish ==
    ASSUME TypeOK, Control, Alone, KeptInv, NEW p \in Procs, Publish(p)
    PROVE  KeptInv'
<1> DEFINE d == dir[p]
           n == Published[step[p]]
<1>1. d \in Dirs /\ n \in Names /\ pc[p] = "publish" /\ Active(p) /\ owed \subseteq Native /\ Own \notin Native
    BY EntryNames, Contents DEF Publish, Active, Final, TypeOK
<1>2. \A e \in Dirs : entry'[e]["agy"] = IF e = d /\ n = "agy" THEN Own ELSE entry[e]["agy"]
  <2>1. \A e \in Dirs, m \in Names : entry'[e][m] = IF e = d /\ m = n THEN Own ELSE entry[e][m]
    BY <1>1, EntryReplaced, Contents DEF Publish, TypeOK
  <2> QED
    BY <2>1 DEF Names
<1>3. UNCHANGED <<managed, package, newest, owed, disturbed>>
    BY DEF Publish, bounds, history
<1>4. /\ \A q \in Procs : q # p => pc'[q] = pc[q] /\ held'[q] = held[q]
      /\ \/ pc'[p] = "ok" /\ held'[p] = Nothing
         \/ pc'[p] = "publish" /\ dir'[p] = d /\ held'[p] = held[p]
  <2>1. CASE step[p] < 4
    BY <1>1, <2>1 DEF Publish
  <2>2. CASE ~(step[p] < 4)
    <3>1. Ends(p, "ok") /\ "ok" \in Final
      BY <2>2 DEF Publish, Final
    <3> QED
      BY <3>1, CommandEnds
  <2> QED
    BY <2>1, <2>2
<1>5. Versions'
    BY <1>1, <1>2, <1>3, <1>4, Contents DEF KeptInv, Versions
<1>6. ASSUME disturbed = {}
      PROVE  /\ \A v \in owed : Kept(v)'
             /\ \A e \in Dirs : managed'[e] \in owed /\ entry'[e]["agy"] \in Native => entry'[e]["agy"] = managed'[e]
             /\ \A q \in Procs : Ready(q)'
  <2>1. entry[d]["agy"] \in owed => managed[d] = entry[d]["agy"]
    BY <1>1, <1>6 DEF KeptInv, Ready
  <2>2. \A v \in owed : Kept(v)'
    BY <1>1, <1>2, <1>3, <1>6, <2>1 DEF KeptInv, Kept
  <2>3. \A e \in Dirs : managed'[e] \in owed /\ entry'[e]["agy"] \in Native => entry'[e]["agy"] = managed'[e]
    BY <1>1, <1>2, <1>3, <1>6 DEF KeptInv
  <2>4. Ready(p)'
    BY <1>1, <1>2, <1>3, <1>4, <2>1 DEF Ready
  <2> QED
    BY <1>1, <1>4, <1>6, <2>2, <2>3, <2>4, OthersReady
<1> QED
    BY <1>3, <1>5, <1>6 DEF KeptInv

\* No step of an installation loses the newest version.
LEMMA KeptInstalling ==
    ASSUME TypeOK, Control, Alone, KeptInv, NEW p \in Procs, Installing(p)
    PROVE  KeptInv'
<1> DEFINE d == dir[p]
<1>1. CASE Choose(p)
  <2>1. PICK place \in Place :
           /\ IsFirst(place, Candidates(p)) /\ source' = [source EXCEPT ![p] = place]
           /\ Goto(p, IF place = Managed(dir[p]) THEN "recheck" ELSE "copy")
    BY <1>1 DEF Choose
  <2>2. UNCHANGED <<files, newest, held, step, dir, owed, disturbed>> /\ Active(p)
    BY <1>1 DEF Choose, bounds, history, Active, Final
  <2>3. Versions'
    BY <2>2, VersionsUnchanged DEF KeptInv
  <2>4. source'[p] = place /\ pc'[p] = (IF place = Managed(d) THEN "recheck" ELSE "copy")
        /\ \A q \in Procs : q # p => pc'[q] = pc[q]
    BY <2>1 DEF Goto, TypeOK
  <2>5. disturbed = {} => Ready(p)'
    <3>1. disturbed = {} => named[p] # "--native-agy"
      BY <2>2 DEF Control
    <3>2. owed \subseteq Native
      BY DEF TypeOK
    <3>3. SUFFICES ASSUME disturbed = {} PROVE Ready(p)'
      OBVIOUS
    <3>4. /\ entry[d]["agy"] \in Native => place = Entry(d) /\ place # Managed(d)
          /\ entry[d]["agy"] \notin Native /\ place # Managed(d) => managed[d] \notin Native
      BY <2>1, <3>1, <3>3, FirstLook
    <3> QED
      BY <2>2, <2>4, <3>2, <3>4 DEF Ready, files
  <2> QED
    BY <2>2, <2>3, <2>4, <2>5, OthersReady DEF KeptInv, Kept, files
<1>2. CASE Copy(p)
  <2>1. UNCHANGED <<files, newest, source, step, dir, owed, disturbed>> /\ Active(p) /\ pc[p] = "copy"
    BY <1>2 DEF Copy, bounds, history, Active, Final
  <2>2. At(source[p]) \in Native /\ source[p] \in Place
    BY <1>2 DEF Copy, Valid, TypeOK
  <2>3. \A q \in Procs : /\ held'[q] = IF q = p THEN At(source[p]) ELSE held[q]
                         /\ pc'[q] = IF q = p THEN "preserve" ELSE pc[q]
    BY <1>2 DEF Copy, Goto, TypeOK
  <2>4. Versions'
    BY <2>1, <2>2, <2>3, PlaceVersions DEF KeptInv, Versions, files
  <2>5. disturbed = {} => Ready(p)'
    <3>1. At(Entry(d)) = entry[d]["agy"]
      BY DEF At, Entry
    <3> QED
      BY <2>1, <2>3, <3>1 DEF KeptInv, Ready, files
  <2> QED
    BY <2>1, <2>3, <2>4, <2>5, OthersReady DEF KeptInv, Kept, files
<1>3. CASE Recheck(p)
  <2>1. UNCHANGED <<files, newest, held, step, dir, owed, disturbed>> /\ Active(p) /\ pc[p] = "recheck"
    BY <1>3 DEF Recheck, bounds, local, history, Active, Final
  <2>2. \A q \in Procs : pc'[q] = IF q = p THEN "publish" ELSE pc[q]
    BY <1>3 DEF Recheck, Goto, TypeOK
  <2>3. Versions'
    BY <2>1, VersionsUnchanged DEF KeptInv
  <2>4. disturbed = {} => Ready(p)'
    BY <2>1, <2>2 DEF KeptInv, Ready, files
  <2> QED
    BY <2>1, <2>2, <2>3, <2>4, OthersReady DEF KeptInv, Kept, files
<1>4. CASE ClearOrig(p)
  <2>1. \A e \in Dirs : entry'[e]["agy"] = entry[e]["agy"]
    <3>1. \A e \in Dirs, m \in Names :
             entry'[e][m] = IF e = d /\ m = "agy-orig" THEN Nothing ELSE entry[e][m]
      BY <1>4, EntryReplaced, Contents DEF ClearOrig, TypeOK, Names
    <3> QED
      BY <3>1 DEF Names
  <2>2. UNCHANGED <<managed, package, newest, pc, held, step, dir, source, owed, disturbed>>
    BY <1>4 DEF ClearOrig, bounds, local, history
  <2>3. \A q \in Procs : dir[q] \in Dirs
    BY DEF TypeOK
  <2> QED
    BY <2>1, <2>2, <2>3 DEF KeptInv, Versions, Kept, Ready
<1> QED
    BY <1>1, <1>2, <1>3, <1>4, KeptIdle, KeptPreserve, KeptPublish DEF Installing

\* An uninstallation removes what is agy-pool's own, and its copy last of all.
LEMMA KeptUninstalling ==
    ASSUME TypeOK, Control, Alone, KeptInv, NEW p \in Procs, Uninstalling(p)
    PROVE  KeptInv'
<1> DEFINE d == dir[p]
           n == Removed[step[p]]
<1>1. d \in Dirs /\ n \in Names /\ (n = "agy" <=> step[p] = 1) /\ owed \subseteq Native
    BY EntryNames DEF TypeOK
<1>2. Active(p)
    BY DEF Uninstalling, Verify, Unlink, RemoveCopy, Active, Final
<1>3. CASE Verify(p)
  <2>1. UNCHANGED <<files, newest, held, dir, owed, disturbed>>
    BY <1>3 DEF Verify, bounds, history
  <2>2. Versions'
    BY <2>1, VersionsUnchanged DEF KeptInv
  <2>3. /\ pc'[p] \in {"verify", "remove_copy"} \/ (pc'[p] = "unlink" /\ entry[d][n] = Own /\ step' = step)
        /\ \A q \in Procs : q # p => pc'[q] = pc[q]
    BY <1>3 DEF Verify, AfterEntry, Goto, TypeOK
  <2>4. Ready(p)'
    BY <1>1, <2>1, <2>3 DEF Ready, files
  <2> QED
    BY <1>2, <2>1, <2>2, <2>3, <2>4, OthersReady DEF KeptInv, Kept, files
<1>4. CASE Unlink(p)
  <2>1. UNCHANGED <<managed, package, newest, held, dir, owed, disturbed>> /\ pc[p] = "unlink"
    BY <1>4 DEF Unlink, bounds, history
  <2>2. \A e \in Dirs : entry'[e]["agy"] = IF e = d /\ n = "agy" THEN Nothing ELSE entry[e]["agy"]
    <3>1. \A e \in Dirs, m \in Names : entry'[e][m] = IF e = d /\ m = n THEN Nothing ELSE entry[e][m]
      BY <1>1, <1>4, EntryReplaced, Contents DEF Unlink, TypeOK
    <3> QED
      BY <3>1 DEF Names
  <2>3. Versions'
    BY <2>1, <2>2, Contents DEF KeptInv, Versions
  <2>4. pc'[p] \in {"verify", "remove_copy"} /\ \A q \in Procs : q # p => pc'[q] = pc[q]
    BY <1>4 DEF Unlink, AfterEntry, Goto, TypeOK
  <2>5. disturbed = {} => (n = "agy" => entry[d]["agy"] = Own)
    BY <1>1, <2>1 DEF KeptInv, Ready
  <2>6. disturbed = {} => \A v \in owed : Kept(v)'
    BY <1>1, <2>1, <2>2, <2>5, Contents DEF KeptInv, Kept
  <2>7. Ready(p)'
    BY <2>4 DEF Ready
  <2> QED
    BY <1>1, <1>2, <2>1, <2>2, <2>3, <2>4, <2>6, <2>7, Contents, OthersReady DEF KeptInv
<1>5. CASE RemoveCopy(p)
  <2>1. UNCHANGED <<entry, package, newest, disturbed>> /\ owed' = owed \ {managed[d]}
        /\ Ends(p, "ok") /\ "ok" \in Final
    BY <1>5 DEF RemoveCopy, bounds, Final
  <2>2. \A e \in Dirs : managed'[e] = IF e = d THEN Nothing ELSE managed[e]
    BY <1>5 DEF RemoveCopy, TypeOK
  <2>3. pc'[p] = "ok" /\ held'[p] = Nothing /\ \A q \in Procs : q # p => pc'[q] = pc[q] /\ held'[q] = held[q]
    BY <2>1, CommandEnds
  <2>4. Versions'
    BY <2>1, <2>2, <2>3, Contents DEF KeptInv, Versions
  <2>5. disturbed = {} => \A v \in owed' : Kept(v)'
    BY <1>1, <2>1, <2>2 DEF KeptInv, Kept
  <2>6. Ready(p)'
    BY <2>3 DEF Ready
  <2> QED
    BY <1>1, <1>2, <2>1, <2>2, <2>3, <2>4, <2>5, <2>6, Contents, OthersReady DEF KeptInv
<1> QED
    BY <1>3, <1>4, <1>5 DEF Uninstalling

\* The newest version of all is where the updater has put it.
LEMMA KeptUpdate ==
    ASSUME TypeOK, Control, Alone, KeptInv, NEW place \in Place, Update(place)
    PROVE  KeptInv'
<1> DEFINE new == newest + 1
<1>1. new \in Native /\ new \in Content /\ newest \in Nat /\ Native \subseteq Nat
  <2>1. newest + 1 \in Native
    BY UpdateTypeOK
  <2>2. Native \subseteq Nat
    BY DEF Native
  <2> QED
    BY <2>1, <2>2, Contents DEF TypeOK
<1>2. newest' = new /\ owed' = {new} /\ UNCHANGED <<pc, local>>
    BY DEF Update
<1>3. \A d \in Dirs : entry'[d]["agy"] = IF place = Entry(d) THEN new ELSE entry[d]["agy"]
  <2>1. CASE place.in = "entry"
    <3>1. place.dir \in Dirs /\ "agy" \in Names /\ entry' = [entry EXCEPT ![place.dir]["agy"] = new]
          /\ \A d \in Dirs : place = Entry(d) <=> d = place.dir
      BY <2>1 DEF Place, Names, Update, Entry
    <3>2. \A d \in Dirs, m \in Names :
             entry'[d][m] = IF d = place.dir /\ m = "agy" THEN new ELSE entry[d][m]
      BY <1>1, <3>1, EntryReplaced DEF TypeOK
    <3> QED
      BY <3>1, <3>2 DEF Names
  <2>2. CASE place.in # "entry"
    BY <2>2 DEF Update, Entry
  <2> QED
    BY <2>1, <2>2
<1>4. \A d \in Dirs : managed'[d] = IF place = Managed(d) THEN new ELSE managed[d]
  <2>1. CASE place.in = "managed"
    <3>1. place.dir \in Dirs /\ managed' = [managed EXCEPT ![place.dir] = new]
          /\ \A d \in Dirs : place = Managed(d) <=> d = place.dir
      BY <2>1 DEF Place, Update, Managed
    <3> QED
      BY <3>1 DEF TypeOK
  <2>2. CASE place.in # "managed"
    BY <2>2 DEF Update, Managed
  <2> QED
    BY <2>1, <2>2
<1>5. package' = IF place = Package THEN new ELSE package
    BY DEF Update, Place, Package
<1>6. Versions'
  <2>1. \A x \in Native : x <= newest => x <= new
    BY <1>1
  <2>2. new <= new /\ newest' = new /\ held' = held
    BY <1>1, <1>2 DEF local
  <2>3. \A d \in Dirs : entry'[d]["agy"] \in Native => entry'[d]["agy"] <= new
    BY <1>3, <2>1, <2>2 DEF KeptInv, Versions
  <2>4. \A d \in Dirs : managed'[d] \in Native => managed'[d] <= new
    BY <1>4, <2>1, <2>2 DEF KeptInv, Versions
  <2>5. package' \in Native => package' <= new
    BY <1>5, <2>1, <2>2 DEF KeptInv, Versions
  <2>6. \A q \in Procs : held'[q] \in Native => held'[q] <= new
    BY <2>1, <2>2 DEF KeptInv, Versions
  <2> QED
    BY <1>2, <2>2, <2>3, <2>4, <2>5, <2>6 DEF Versions
<1>7. ASSUME NEW v \in owed' PROVE Kept(v)'
  <2>1. place = Package \/ \E d \in Dirs : place = Entry(d) \/ place = Managed(d)
    BY DEF Place, Entry, Managed, Package
  <2>2. v = new
    BY <1>2, <1>7
  <2> QED
    BY <1>3, <1>4, <1>5, <2>1, <2>2 DEF Kept
<1>8. ASSUME disturbed' = {}, NEW d \in Dirs, managed'[d] \in owed', entry'[d]["agy"] \in Native
      PROVE  entry'[d]["agy"] = managed'[d]
  <2>1. ~(new <= newest)
    BY <1>1
  <2>2. place = Managed(d)
    BY <1>1, <1>2, <1>4, <1>8, <2>1 DEF KeptInv, Versions
  <2>3. ~Valid(Entry(d))
    BY <1>8, <2>2 DEF Update, Managed
  <2>4. entry'[d]["agy"] = entry[d]["agy"]
    BY <1>3, <2>2 DEF Entry, Managed
  <2> QED
    BY <1>8, <2>3, <2>4 DEF Valid, At, Entry
<1>9. disturbed' = {} => \A q \in Procs : Ready(q)'
    BY <1>2 DEF Update, Ready, Active, Final
<1> QED
    BY <1>2, <1>6, <1>7, <1>8, <1>9 DEF KeptInv

\* "It never overwrites the only copy of native agy": the newest version is kept,
\* for any number of versions and commands.
THEOREM NewestIsKept == Spec => []NewestKept
<1>1. Init => KeptInv
  <2> SUFFICES ASSUME Init PROVE KeptInv
    OBVIOUS
  <2>1. \A d \in Dirs : entry[d]["agy"] \in {1, Nothing}
    <3>1. \A d \in Dirs : entry[d] \in {[n \in Names |-> IF n = "agy" THEN c ELSE Nothing] : c \in {1, Nothing}}
      BY DEF Init
    <3> QED
      BY <3>1 DEF Names
  <2>2. Versions
    BY <2>1, Contents DEF Init, Versions
  <2>3. \A v \in owed : Kept(v)
    BY DEF Init, Kept
  <2>4. \A d \in Dirs : managed[d] \notin owed
    BY InstallerAssumption DEF Init
  <2>5. \A p \in Procs : Ready(p)
    BY DEF Init, Ready
  <2> QED
    BY <2>2, <2>3, <2>4, <2>5 DEF KeptInv
<1>2. TypeOK /\ Control /\ Alone /\ KeptInv /\ [Next]_vars => KeptInv'
  <2> SUFFICES ASSUME TypeOK, Control, Alone, KeptInv, [Next]_vars PROVE KeptInv'
    OBVIOUS
  <2>1. CASE UNCHANGED vars
    BY <2>1 DEF vars, files, bounds, local, history, KeptInv, Versions, Kept, Ready
  <2> QED
    BY <2>1, KeptIdle, KeptInstalling, KeptUninstalling, KeptUpdate DEF Next
<1>3. KeptInv => NewestKept
  <2>1. ASSUME NEW v, Kept(v) PROVE \E place \in Place : At(place) = v
    <3>1. \A d \in Dirs : /\ Entry(d) \in Place /\ At(Entry(d)) = entry[d]["agy"]
                          /\ Managed(d) \in Place /\ At(Managed(d)) = managed[d]
      BY DEF Place, Entry, Managed, At
    <3>2. Package \in Place /\ At(Package) = package
      BY DEF Place, Package, At
    <3> QED
      BY <2>1, <3>1, <3>2 DEF Kept
  <2> QED
    BY <2>1 DEF KeptInv, NewestKept
<1> QED
    BY <1>1, <1>2, <1>3, CommandsApart, PTL DEF Spec

---------------------------------------------------------------------------
(* Success.                                                                *)

\* While commands come alone, the entries a command has been through are done.
Done(p) ==
    \A i \in 1 .. 4 :
        /\ pc[p] = "publish" /\ i < step[p] => entry[dir[p]][Published[i]] = Own
        /\ kind[p] = "uninstall" /\ (i < step[p] \/ pc[p] = "remove_copy") =>
            entry[dir[p]][Removed[i]] # Own

Undisturbed == disturbed \cap {"overlap", "late_update"} = {}

DoneInv == Undisturbed => \A p \in Procs : Done(p)

\* An entry that is published or removed stays so while the command works on.
LEMMA DoneStep ==
    ASSUME TypeOK, TypeOK', Control, Control', Alone, DoneInv, [Next]_vars
    PROVE  DoneInv'
<1>0. ASSUME NEW p \in Procs, ~Active(p)' PROVE Done(p)'
  <2>1. step'[p] = 1 /\ pc'[p] \in Final
    BY <1>0 DEF Control, Active, Final
  <2> QED
    BY <2>1 DEF Done, Final
<1> SUFFICES ASSUME Undisturbed', NEW p \in Procs, Active(p)' PROVE Done(p)'
    BY <1>0 DEF DoneInv
<1> DEFINE d == dir[p]
<1>1. CASE \E q \in Procs : Begin(q)
  <2>1. PICK q \in Procs : Begin(q)
    BY <1>1
  <2>2. q = p
    <3>1. (\E a \in Procs : Active(a)) => "overlap" \in disturbed'
      BY <2>1 DEF Begin
    <3>2. q # p => pc'[p] = pc[p]
      BY <2>1 DEF Begin, Goto, TypeOK
    <3> QED
      BY <3>1, <3>2 DEF Active, Undisturbed
  <2>3. pc'[p] \in {"choose", "verify"} /\ step' = step /\ ~Active(p)
    BY <2>1, <2>2 DEF Begin, Goto, TypeOK
  <2>4. step[p] = 1
    BY <2>3 DEF Active, Final, Control
  <2> QED
    BY <2>3, <2>4 DEF Done
<1>2. CASE \A q \in Procs : ~Begin(q)
  <2>1. Active(p) /\ kind'[p] = kind[p] /\ dir'[p] = d /\ Undisturbed
    BY <1>2, NobodyStarts DEF Undisturbed
  <2>2. Done(p) /\ \A q \in Procs : Active(q) => q = p
    BY <2>1 DEF DoneInv, Alone, Undisturbed
  <2>3. CASE Installing(p)
    <3>1. d \in Dirs /\ step[p] \in 1 .. 4 /\ Published[step[p]] \in Names
          /\ \A i, j \in 1 .. 4 : Published[i] = Published[j] => i = j
      BY EntryNames DEF TypeOK
    <3>2. kind'[p] = "install"
      BY <2>1, <2>3 DEF Installing, Choose, NotFound, Copy, Preserve, Recheck, ClearOrig, Publish, Control
    <3>3. CASE ClearOrig(p)
      <4>1. \A m \in Names : entry'[d][m] = IF m = "agy-orig" THEN Nothing ELSE entry[d][m]
        BY <3>1, <3>3, EntryReplaced, Contents DEF ClearOrig, TypeOK, Names
      <4>2. step' = step /\ pc' = pc /\ pc[p] = "publish" /\ step[p] = 4
        BY <3>3, EntryNames DEF ClearOrig, local, TypeOK
      <4>3. \A i \in 1 .. 4 : i < 4 => Published[i] # "agy-orig" /\ Published[i] \in Names
        BY EntryNames
      <4> QED
        BY <2>1, <2>2, <3>2, <4>1, <4>2, <4>3 DEF Done
    <3>4. CASE Publish(p)
      <4>1. step[p] < 4 /\ step' = [step EXCEPT ![p] = step[p] + 1] /\ pc[p] = "publish"
        <5>1. ~(step[p] < 4) => ~Active(p)'
          <6>1. ~(step[p] < 4) => Ends(p, "ok") /\ "ok" \in Final
            BY <3>4 DEF Publish, Final
          <6> QED
            BY <6>1, CommandEnds DEF Active
        <5> QED
          BY <3>4, <5>1 DEF Publish
      <4>2. step'[p] = step[p] + 1
        BY <4>1 DEF TypeOK
      <4>3. \A m \in Names : entry'[d][m] = IF m = Published[step[p]] THEN Own ELSE entry[d][m]
        BY <3>1, <3>4, EntryReplaced, Contents DEF Publish, TypeOK
      <4>4. \A i \in 1 .. 4 : i < step'[p] => i < step[p] \/ i = step[p]
        BY <3>1, <4>2
      <4>5. \A i \in 1 .. 4 : Published[i] \in Names
        BY EntryNames
      <4> QED
        BY <2>1, <2>2, <3>1, <3>2, <4>1, <4>3, <4>4, <4>5 DEF Done
    <3>5. CASE ~ClearOrig(p) /\ ~Publish(p)
      <4>1. ~NotFound(p)
        <5>1. NotFound(p) => Ends(p, "idle") /\ "idle" \in Final
          BY DEF NotFound, Final
        <5> QED
          BY <5>1, CommandEnds DEF Active
      <4>2. step' = step /\ step[p] = 1
        BY <2>3, <3>5, <4>1 DEF Installing, Choose, Copy, Preserve, Recheck, Control, local
      <4> QED
        BY <3>2, <4>2 DEF Done
    <3> QED
      BY <3>3, <3>4, <3>5
  <2>4. CASE Uninstalling(p)
    <3>1. d \in Dirs /\ step[p] \in 1 .. 4 /\ \A i \in 1 .. 4 : Removed[i] \in Names
      BY EntryNames DEF TypeOK
    <3>2. ~RemoveCopy(p)
      <4>1. RemoveCopy(p) => Ends(p, "ok") /\ "ok" \in Final
        BY DEF RemoveCopy, Final
      <4> QED
        BY <4>1, CommandEnds DEF Active
    <3>3. Verify(p) \/ Unlink(p)
      BY <2>4, <3>2 DEF Uninstalling
    <3>4. pc[p] \in {"verify", "unlink"}
      BY <3>3 DEF Verify, Unlink
    <3>5. /\ pc'[p] # "publish"
          /\ \/ step'[p] = step[p] /\ pc'[p] = "unlink"
             \/ /\ AfterEntry(p)
                /\ step[p] < 4 => step'[p] = step[p] + 1 /\ pc'[p] = "verify"
                /\ ~(step[p] < 4) => step'[p] = step[p] /\ pc'[p] = "remove_copy"
      BY <3>3 DEF Verify, Unlink, AfterEntry, Goto, TypeOK
    <3>6. \A i \in 1 .. 4 : i < step'[p] \/ pc'[p] = "remove_copy" =>
             i < step[p] \/ (i = step[p] /\ AfterEntry(p))
      BY <3>1, <3>5
    <3>7. /\ \A m \in Names : entry'[d][m] = entry[d][m] \/ entry'[d][m] = Nothing
          /\ AfterEntry(p) => entry'[d][Removed[step[p]]] # Own
      <4>1. CASE Verify(p)
        BY <3>1, <4>1 DEF Verify, AfterEntry, Goto, files, TypeOK
      <4>2. CASE Unlink(p)
        <5>1. \A m \in Names : entry'[d][m] = IF m = Removed[step[p]] THEN Nothing ELSE entry[d][m]
          BY <3>1, <4>2, EntryReplaced, Contents DEF Unlink, TypeOK
        <5> QED
          BY <3>1, <5>1, Contents
      <4> QED
        BY <3>3, <4>1, <4>2
    <3>8. ASSUME NEW i \in 1 .. 4, kind[p] = "uninstall", i < step'[p] \/ pc'[p] = "remove_copy"
          PROVE  entry'[d][Removed[i]] # Own
      <4>1. CASE i < step[p]
        BY <2>2, <3>1, <3>7, <3>8, <4>1, Contents DEF Done
      <4>2. CASE i = step[p] /\ AfterEntry(p)
        BY <3>7, <4>2
      <4> QED
        BY <3>6, <3>8, <4>1, <4>2
    <3> QED
      BY <2>1, <3>5, <3>8 DEF Done
  <2>5. CASE Stops(p)
    <3>1. Ends(p, "idle") /\ "idle" \in Final
      BY <2>5 DEF Stops, Final
    <3> QED
      BY <3>1, CommandEnds DEF Active
  <2>6. CASE \E place \in Place : Update(place)
    BY <2>1, <2>6 DEF Update, Undisturbed
  <2>7. CASE UNCHANGED vars
    BY <2>2, <2>7 DEF vars, files, local, Done
  <2>8. \A q \in Procs : Installing(q) \/ Uninstalling(q) \/ Stops(q) => Active(q)
    BY DEF Installing, Choose, NotFound, Copy, Preserve, Recheck, ClearOrig, Publish,
       Uninstalling, Verify, Unlink, RemoveCopy, Stops, Active, Final
  <2> QED
    BY <1>2, <2>2, <2>3, <2>4, <2>5, <2>6, <2>7, <2>8 DEF Next
<1> QED
    BY <1>1, <1>2

\* A command that ends with success has been through all its entries.
LEMMA SuccessStep ==
    ASSUME TypeOK, Control, Alone, ShimInv, DoneInv, [Next]_vars,
           NEW p \in Procs, NEW d \in Dirs, Active(p), pc'[p] = "ok", dir[p] = d, Undisturbed
    PROVE  IF kind[p] = "install"
           THEN Healthy(d)' /\ \A n \in Names : entry'[d][n] = Own
           ELSE managed'[d] = Nothing /\ \A n \in Names : entry'[d][n] # Own
<1>1. Done(p) /\ "uninstall_overlap" \notin disturbed
    BY DEF DoneInv, Undisturbed, Alone, TypeOK
<1>2. (Publish(p) /\ ~(step[p] < 4)) \/ RemoveCopy(p)
  <2>1. ASSUME NEW q \in Procs, Begin(q) PROVE FALSE
    BY <2>1 DEF Begin, Goto, Active, Final, TypeOK
  <2>2. ASSUME NEW q \in Procs, Installing(q) \/ Uninstalling(q) \/ Stops(q) PROVE q = p
    BY <2>2 DEF Undisturbed, Alone, Installing, Choose, NotFound, Copy, Preserve, Recheck, ClearOrig,
       Publish, Uninstalling, Verify, Unlink, RemoveCopy, Stops, Active, Final
  <2>3. ~NotFound(p) /\ ~Stops(p)
    <3>1. NotFound(p) \/ Stops(p) => Ends(p, "idle") /\ "idle" \in Final
      BY DEF NotFound, Stops, Final
    <3> QED
      BY <3>1, CommandEnds
  <2>4. ~(Choose(p) \/ Copy(p) \/ Preserve(p) \/ Recheck(p) \/ ClearOrig(p) \/ Verify(p) \/ Unlink(p))
    BY DEF Choose, Copy, Preserve, Recheck, ClearOrig, Verify, Unlink, AfterEntry, Goto, TypeOK, local, Active, Final
  <2>5. ~(Publish(p) /\ step[p] < 4)
    BY DEF Publish, Active, Final
  <2>6. ~\E place \in Place : Update(place)
    BY DEF Update, Active, Final
  <2>7. ~UNCHANGED vars
    BY DEF vars, Active, Final
  <2> QED
    BY <2>1, <2>2, <2>3, <2>4, <2>5, <2>6, <2>7 DEF Next, Installing, Uninstalling
<1>3. CASE Publish(p) /\ ~(step[p] < 4)
  <2>1. step[p] = 4 /\ pc[p] = "publish" /\ managed' = managed /\ kind[p] = "install"
    BY <1>3, SMTT(30) DEF Publish, TypeOK, Control
  <2>2. Published[4] \in Names /\ \A n \in Names : \E i \in 1 .. 4 : Published[i] = n
    BY EntryNames
  <2>3. \A m \in Names : entry'[d][m] = IF m = Published[4] THEN Own ELSE entry[d][m]
    BY <1>1, <1>3, <2>1, <2>2, EntryReplaced, Contents DEF Publish, TypeOK
  <2>4. \A n \in Names : entry'[d][n] = Own
    <3>1. \A i \in 1 .. 4 : i < 4 => entry[d][Published[i]] = Own
      BY <1>1, <2>1 DEF Done
    <3>2. \A i \in 1 .. 4 : i < 4 \/ i = 4
      OBVIOUS
    <3> QED
      BY <2>2, <2>3, <3>1, <3>2
  <2>5. managed[d] \in Native
    BY <1>1, <2>1 DEF ShimInv
  <2>6. Healthy(d)'
    <3>1. Valid(Managed(d))'
      BY <2>1, <2>5 DEF Valid, At, Managed
    <3>2. Search("search")[1] = Managed("user") /\ Search("search")[2] = Managed("system")
          /\ 1 \in DOMAIN Search("search") /\ 2 \in DOMAIN Search("search")
      BY DEF Search
    <3>3. SomeValid(Search("search"))'
      BY <1>1, <2>1, <2>5, <3>2 DEF SomeValid, Valid, At, Managed, Dirs
    <3> QED
      BY <2>4, <3>1, <3>3 DEF Healthy, Names
  <2> QED
    BY <2>1, <2>4, <2>6
<1>4. CASE RemoveCopy(p)
  <2>1. pc[p] = "remove_copy" /\ kind[p] = "uninstall" /\ entry' = entry /\ managed'[d] = Nothing
    BY <1>1, <1>4 DEF RemoveCopy, Control, TypeOK
  <2>2. \A n \in Names : entry[d][n] # Own
    BY <1>1, <2>1, EntryNames DEF Done
  <2> QED
    BY <2>1, <2>2
<1> QED
    BY <1>2, <1>3, <1>4

\* A command that reports success has done all of it, for any number of commands
\* one after the other.
THEOREM SuccessMeansComplete == Spec => SuccessIsComplete
<1> DEFINE Inv == TypeOK /\ Control /\ Alone /\ ShimInv /\ DoneInv
<1>1. Init => DoneInv
    BY DEF Init, DoneInv, Done
<1>2. Inv /\ TypeOK' /\ Control' /\ [Next]_vars => DoneInv'
    BY DoneStep
<1>3. Inv /\ [Next]_vars =>
        [\A p \in Procs, d \in Dirs :
            /\ Active(p) /\ pc'[p] = "ok" /\ dir[p] = d
            /\ disturbed \cap {"overlap", "late_update"} = {}
            => IF kind[p] = "install"
               THEN Healthy(d)' /\ \A n \in Names : entry'[d][n] = Own
               ELSE managed'[d] = Nothing /\ \A n \in Names : entry'[d][n] # Own]_vars
    BY SuccessStep DEF Undisturbed
<1> QED
    BY <1>1, <1>2, <1>3, CommandsApart, ShimInvariant, PTL DEF Spec, SuccessIsComplete
=============================================================================
