------------------------------- MODULE Restore -------------------------------
(***************************************************************************)
(* agy-db restore and verify-archive, and the registry both write.  A      *)
(* restore stages what a verified archive holds inside the destination     *)
(* directories and renames it into place, database first and brain second, *)
(* each without replacing anything; then it verifies what it placed and    *)
(* records how it ended.  Others may damage or move the archive, put files *)
(* at the destinations, or replace a destination directory meanwhile.      *)
(***************************************************************************)
EXTENDS Archive

CONSTANTS Restorers, Verifiers, Roots,  \* the directories a root path may name in turn
          Foreign                       \* what something else has put at a destination

Clients == Restorers \cup Verifiers
Version == 2

ASSUME RestoreAssumption ==
    /\ 1 \in Roots /\ Roots \subseteq Nat
    /\ Nothing \notin Clients /\ Foreign \notin Clients

VARIABLES registry,  \* version, archives registered, restore events
          conv,      \* per conversation directory: the database and whether a file lies beside it
          brains,    \* per brain directory: the brain
          at,        \* the directories the two root paths name
          client,    \* the progress of each restore or verification
          disturb    \* what others may still do

restoreVars == <<registry, conv, brains, at, client, disturb>>

Empty == [by |-> Nothing, is |-> Absent]
Waiting == [pc |-> "idle", path |-> Nothing, version |-> 0, valid |-> FALSE, verified |-> Nothing, stage |-> None,
            roots |-> [conv |-> 1, brain |-> 1], published |-> {}, status |-> "none", files |-> "none"]
RestoreInit(version, disturbances, some) ==
    /\ registry = [version |-> version, rows |-> [i \in {} |-> Nothing], events |-> {}]
    /\ conv = [r \in Roots |-> [file |-> Empty, beside |-> FALSE]]
    /\ brains = [r \in Roots |-> Empty]
    /\ at = [conv |-> 1, brain |-> 1]
    /\ client = some
    /\ disturb = disturbances

Step(c, next) == client' = [client EXCEPT ![c] = next]
Intact(path) == archives[path] # Absent /\ archives[path].damage = "none"
HasBrain(bundle) == bundle.parts.brain # Absent
\* Those who do not touch what is registered, placed or archived.
Quiet == UNCHANGED <<archives, registry, conv, brains, at, disturb>>
End(c, status) == Step(c, [client[c] EXCEPT !.pc = "ended", !.status = status])
\* Once the registry is written to, every way to end is recorded as an event.
Finish(c, status) == Step(c, [client[c] EXCEPT !.pc = "event", !.status = status])

-----------------------------------------------------------------------------
(* The registry. *)

Begin(c, path) ==
    /\ client[c].pc = "idle"
    /\ Step(c, [client[c] EXCEPT !.pc = IF c \in Restorers THEN "open" ELSE "verify", !.path = path])
    /\ Quiet

\* A new registry, or one of the first version, is brought to the present one
\* in one transaction, which fails when another process has been faster.
OpenRegistry(c) == /\ client[c].pc = "open"
                   /\ IF registry.version \in 0 .. Version
                      THEN Step(c, [client[c] EXCEPT !.pc = "migrate", !.version = registry.version])
                      ELSE End(c, "registry_unavailable")
                   /\ Quiet
Opened(c) == [client[c] EXCEPT !.pc = IF c \in Restorers THEN "verify" ELSE "register"]
InitializeRegistry(c) ==
    /\ client[c].pc = "migrate"
    /\ CASE client[c].version = Version -> Step(c, Opened(c)) /\ UNCHANGED registry
         [] client[c].version = registry.version -> Step(c, Opened(c)) /\ registry' = [registry EXCEPT !.version = Version]
         [] OTHER -> End(c, "registry_unavailable") /\ UNCHANGED registry
    /\ UNCHANGED <<archives, conv, brains, at, disturb>>

\* A row per identifier, which keeps its content and takes the newest path; a
\* path that another identifier holds is refused.
Content(bundle) == <<bundle.id, bundle.parts>>
Taken(path, id) == \E other \in DOMAIN registry.rows : other # id /\ registry.rows[other].path = path
Registers(c) == LET b == client[c].verified
                IN /\ ~Taken(client[c].path, b.id)
                   /\ b.id \in DOMAIN registry.rows => registry.rows[b.id].content = Content(b)
Register(c) ==
    LET b == client[c].verified
        row == [path |-> client[c].path, content |-> Content(b), state |-> "valid"]
    IN /\ client[c].pc = "register"
       /\ IF ~client[c].valid
          THEN Step(c, [client[c] EXCEPT !.pc = "mark"]) /\ UNCHANGED registry
          ELSE IF Registers(c)
          THEN /\ registry' = [registry EXCEPT !.rows = [i \in DOMAIN @ \cup {b.id} |-> IF i = b.id THEN row ELSE @[i]]]
               /\ Step(c, [client[c] EXCEPT !.pc = "mark"])
          ELSE End(c, "registry_failed") /\ UNCHANGED registry
       /\ UNCHANGED <<archives, conv, brains, at, disturb>>
\* Whatever is registered at this path has the state just found.
Mark(c) ==
    LET state == IF client[c].valid THEN "valid" ELSE "invalid"
    IN /\ client[c].pc = "mark"
       /\ registry' = [registry EXCEPT !.rows = [i \in DOMAIN @ |-> IF @[i].path = client[c].path
                                                                    THEN [@[i] EXCEPT !.state = state] ELSE @[i]]]
       /\ IF c \in Restorers THEN Step(c, [client[c] EXCEPT !.pc = "roots"])
                             ELSE End(c, IF client[c].valid THEN "valid" ELSE "invalid")
       /\ UNCHANGED <<archives, conv, brains, at, disturb>>
RegistryFails(c) == /\ client[c].pc \in {"open", "migrate", "register", "mark"}
                    /\ End(c, "registry_failed")
                    /\ Quiet

VerifyArchive(c) ==
    /\ client[c].pc = "verify"
    /\ IF Intact(client[c].path)
       THEN Step(c, [client[c] EXCEPT !.pc = IF c \in Restorers THEN "register" ELSE "open",
                                      !.valid = TRUE, !.verified = archives[client[c].path]])
       ELSE IF c \in Restorers THEN End(c, "invalid_archive") ELSE Step(c, [client[c] EXCEPT !.pc = "open"])
    /\ Quiet

-----------------------------------------------------------------------------
(* The restore. *)

OpenRoots(c) == /\ client[c].pc = "roots"
                /\ \/ Step(c, [client[c] EXCEPT !.pc = "absent", !.roots = at])
                   \/ Finish(c, "unsafe_destination")
                /\ Quiet
MyConv(c) == client[c].roots.conv
MyBrain(c) == client[c].roots.brain
Vacant(c) == /\ conv[MyConv(c)].file = Empty /\ ~conv[MyConv(c)].beside
             /\ brains[MyBrain(c)] = Empty
CheckTargets(c) == /\ client[c].pc = "absent"
                   /\ IF Vacant(c) THEN Step(c, [client[c] EXCEPT !.pc = "reverify"]) ELSE Finish(c, "conflict")
                   /\ Quiet
\* The archive is verified once more, through a handle that stays open.
Reverify(c) ==
    LET now == archives[client[c].path]
        was == client[c].verified
    IN /\ client[c].pc = "reverify"
       /\ IF Intact(client[c].path) /\ now.id = was.id /\ now.parts.db = was.parts.db
          THEN Step(c, [client[c] EXCEPT !.pc = "stage db", !.verified = now])
          ELSE Finish(c, "invalid_archive")
       /\ Quiet
\* A copy has the digest of the manifest or fails.
Copied(c, part) == LET now == archives[client[c].path]
                   IN /\ now # Absent /\ now.id = client[c].verified.id
                      /\ now.damage \notin {part, "all"}
Stageable(c) == client[c].verified.parts
StageDb(c) == /\ client[c].pc = "stage db"
              /\ IF Copied(c, "db")
                 THEN Step(c, [client[c] EXCEPT !.pc = IF HasBrain(client[c].verified) THEN "stage brain" ELSE "publish db",
                                                !.stage.db = Stageable(c).db])
                 ELSE Finish(c, "staging_failed")
              /\ Quiet
StageBrain(c) == /\ client[c].pc = "stage brain"
                 /\ IF Copied(c, "brain")
                    THEN Step(c, [client[c] EXCEPT !.pc = "publish db", !.stage.brain = Stageable(c).brain])
                    ELSE Finish(c, "staging_failed")
                 /\ Quiet
StageFails(c) == /\ client[c].pc \in {"stage db", "stage brain", "publish db"}
                 /\ \E status \in {"staging_failed", "verification_failed"} : Finish(c, status)
                 /\ Quiet

RootsUnchanged(c) == client[c].roots = at
CheckRoots(c, pc, next, status) == /\ client[c].pc = pc
                                   /\ IF RootsUnchanged(c) THEN Step(c, [client[c] EXCEPT !.pc = next]) ELSE Finish(c, status)
                                   /\ Quiet
CheckRootsBefore(c) == CheckRoots(c, "publish db", "rename db", "unsafe_destination")
CheckRootsBetween(c) == CheckRoots(c, "publish brain", "rename brain", "partial_publish")
CheckRootsAfter(c) == CheckRoots(c, "last check", "restored", "partial_publish")
Restored(c) == client[c].pc = "restored" /\ Finish(c, "restored") /\ Quiet

\* Mutant: a plain rename.
ReplaceDb(c) ==
    /\ client[c].pc = "rename db"
    /\ conv' = [conv EXCEPT ![MyConv(c)].file = [by |-> c, is |-> client[c].stage.db]]
    /\ Step(c, [client[c] EXCEPT !.pc = "verify db", !.published = @ \cup {"db"}])
    /\ UNCHANGED <<archives, registry, brains, at, disturb>>

\* Mutant: a database that is there already is taken for one's own.
AdoptDb(c) ==
    /\ client[c].pc = "rename db"
    /\ IF conv[MyConv(c)].file # Empty
       THEN Step(c, [client[c] EXCEPT !.pc = "verify db"]) /\ UNCHANGED conv
       ELSE /\ conv' = [conv EXCEPT ![MyConv(c)].file = [by |-> c, is |-> client[c].stage.db]]
            /\ Step(c, [client[c] EXCEPT !.pc = "verify db", !.published = @ \cup {"db"}])
    /\ UNCHANGED <<archives, registry, brains, at, disturb>>

\* Renames replace nothing.
PublishDb(c) ==
    /\ client[c].pc = "rename db"
    /\ IF conv[MyConv(c)].file # Empty
       THEN Finish(c, "conflict") /\ UNCHANGED conv
       ELSE /\ conv' = [conv EXCEPT ![MyConv(c)].file = [by |-> c, is |-> client[c].stage.db]]
            /\ Step(c, [client[c] EXCEPT !.pc = "verify db", !.published = @ \cup {"db"}])
    /\ UNCHANGED <<archives, registry, brains, at, disturb>>
VerifyDb(c) ==
    LET d == conv[MyConv(c)]
    IN /\ client[c].pc = "verify db"
       /\ IF d.file.is = client[c].verified.parts.db /\ ~d.beside
          THEN Step(c, [client[c] EXCEPT !.pc = IF HasBrain(client[c].verified) THEN "publish brain" ELSE "last check"])
          ELSE Finish(c, "partial_publish")
       /\ Quiet
PublishBrain(c) ==
    /\ client[c].pc = "rename brain"
    /\ IF brains[MyBrain(c)] # Empty
       THEN Finish(c, "partial_publish") /\ UNCHANGED brains
       ELSE /\ brains' = [brains EXCEPT ![MyBrain(c)] = [by |-> c, is |-> client[c].stage.brain]]
            /\ Step(c, [client[c] EXCEPT !.pc = "verify brain", !.published = @ \cup {"brain"}])
    /\ UNCHANGED <<archives, registry, conv, at, disturb>>
VerifyBrain(c) ==
    /\ client[c].pc = "verify brain"
    /\ IF brains[MyBrain(c)].is = client[c].verified.parts.brain
       THEN Step(c, [client[c] EXCEPT !.pc = "last check"])
       ELSE Finish(c, "partial_publish")
    /\ Quiet

\* Mutant: only a success is recorded with what it placed.
EventOfSuccess(c) == [by |-> c, status |-> client[c].status,
                      published |-> IF client[c].status = "restored" THEN client[c].published ELSE {}]

\* The event, without which a restore that placed something says so.
Event(c) == [by |-> c, status |-> client[c].status, published |-> client[c].published]
RecordRestoreEvent(c) ==
    /\ client[c].pc = "event"
    /\ \/ /\ registry' = [registry EXCEPT !.events = @ \cup {Event(c)}]
          /\ End(c, client[c].status)
       \/ /\ IF client[c].published # {} \/ client[c].status = "restored"
             THEN Step(c, [client[c] EXCEPT !.pc = "ended", !.files = client[c].status, !.status = "registry_failed"])
             ELSE End(c, client[c].status)
          /\ UNCHANGED registry
    /\ UNCHANGED <<archives, conv, brains, at, disturb>>

Kill(c) == /\ client[c].pc \notin {"idle", "ended", "killed"} /\ "kill" \in disturb
           /\ Step(c, [client[c] EXCEPT !.pc = "killed"])
           /\ UNCHANGED <<archives, registry, conv, brains, at, disturb>>

RestoreStep == \E c \in Clients :
                  \/ \E path \in Paths : Begin(c, path)
                  \/ OpenRegistry(c) \/ InitializeRegistry(c) \/ Register(c) \/ Mark(c) \/ RegistryFails(c)
                  \/ VerifyArchive(c) \/ OpenRoots(c) \/ CheckTargets(c) \/ Reverify(c)
                  \/ StageDb(c) \/ StageBrain(c) \/ StageFails(c)
                  \/ CheckRootsBefore(c) \/ CheckRootsBetween(c) \/ CheckRootsAfter(c) \/ Restored(c)
                  \/ PublishDb(c) \/ VerifyDb(c) \/ PublishBrain(c) \/ VerifyBrain(c)
                  \/ RecordRestoreEvent(c) \/ Kill(c)

-----------------------------------------------------------------------------
(* Others, each at most once. *)

Once(what) == what \in disturb /\ disturb' = disturb \ {what}
Damage(path, part) == /\ Once("damage") /\ archives[path] # Absent
                      /\ archives' = [archives EXCEPT ![path].damage = part]
                      /\ UNCHANGED <<registry, conv, brains, at, client>>
CopyArchive(path, to) == /\ Once("copy") /\ archives[path] # Absent /\ archives[to] = Absent
                         /\ archives' = [archives EXCEPT ![to] = archives[path]]
                         /\ UNCHANGED <<registry, conv, brains, at, client>>
RemoveArchive(path) == /\ Once("remove") /\ archives[path] # Absent
                       /\ archives' = [archives EXCEPT ![path] = Absent]
                       /\ UNCHANGED <<registry, conv, brains, at, client>>
CreateConversation(r) == /\ Once("conversation") /\ conv[r].file = Empty
                         /\ conv' = [conv EXCEPT ![r].file = [by |-> Foreign, is |-> Foreign]]
                         /\ UNCHANGED <<archives, registry, brains, at, client>>
\* The native program opens what has been placed.
OpenConversation(r) == /\ Once("open") /\ conv[r].file # Empty
                       /\ conv' = [conv EXCEPT ![r].beside = TRUE]
                       /\ UNCHANGED <<archives, registry, brains, at, client>>
CreateBrain(r) == /\ Once("brain") /\ brains[r] = Empty
                  /\ brains' = [brains EXCEPT ![r] = [by |-> Foreign, is |-> Foreign]]
                  /\ UNCHANGED <<archives, registry, conv, at, client>>
ReplaceRoot(which) == /\ Once("root") /\ at[which] + 1 \in Roots
                      /\ at' = [at EXCEPT ![which] = @ + 1]
                      /\ UNCHANGED <<archives, registry, conv, brains, client>>
Others == \/ \E path \in Paths : \/ RemoveArchive(path)
                                 \/ \E part \in {"db", "brain", "all"} : Damage(path, part)
                                 \/ \E to \in Paths : CopyArchive(path, to)
          \/ \E r \in Roots : CreateConversation(r) \/ OpenConversation(r) \/ CreateBrain(r)
          \/ \E which \in {"conv", "brain"} : ReplaceRoot(which)
=============================================================================
