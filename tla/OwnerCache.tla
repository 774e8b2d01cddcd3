----------------------------- MODULE OwnerCache -----------------------------
(***************************************************************************)
(* The language server's cache of extended configs, internal/project/      *)
(* ownercache.go, with the snapshots that own its entries.                 *)
(*                                                                         *)
(* A snapshot is built by one goroutine, which parses configs that are new *)
(* or are to be reloaded (configfileregistrybuilder.go: LoadAndAcquire, on *)
(* a stack of locked entries), and then becomes an owner of every file     *)
(* that the configs of its registry extend (Snapshot.Clone: AddOwner).     *)
(* Not all it has parsed are in the registry in the end.  It is disposed   *)
(* of by another goroutine (Snapshot.dispose: Release).  Any number of     *)
(* snapshots are built and disposed of at a time.                          *)
(*                                                                         *)
(* The content of a file is abstracted to a version, the result of parsing *)
(* to the set of file versions that went into it.                          *)
(***************************************************************************)
EXTENDS Naturals, FiniteSets, Sequences, SequencesExt

CONSTANTS
    Snapshots,
    First,         \* the snapshot of a new session
    Configs,       \* project configs
    Files,         \* configs that are extended
    Extends,       \* config or file |-> the files it extends, in order
    Alphabetical,  \* file |-> its place in the order of the names
    Versions,      \* contents of a file
    Objs,          \* identities of entries
    Sessions,      \* the sessions considered: their configs, contents and number of snapshots
    Nil

ASSUME NodesAssumption ==
    /\ First \in Snapshots
    /\ Configs \intersect Files = {}
    /\ Extends \in [Configs \union Files -> Seq(Files)]
    /\ \A F \in SUBSET Files \ {{}} : \E f \in F : \A g \in F : Alphabetical[f] <= Alphabetical[g]
    /\ Nil \notin Snapshots \union Objs
    /\ \A z \in Sessions : z.configs \subseteq Configs /\ z.contents \subseteq [Files -> Versions]

VARIABLES
    session,     \* one of Sessions
    entry,       \* file |-> its entry in the map, or Nil
    owners,      \* entry |-> its set of owners
    mu,          \* entry |-> the snapshot whose goroutine has it locked, or Nil
    value,       \* entry |-> the file versions that its parsed value was made from
    hash,        \* entry |-> the file versions that its hash was computed from
    struck,      \* history: files of which Release has deleted another entry than it had found
    phase,       \* snapshot |-> where it is in its life
    parent,      \* snapshot |-> the one it is cloned from
    disk,        \* snapshot |-> the contents of the files as it sees them
    registry,    \* snapshot |-> its configs
    pendingReload, \* snapshot |-> those of them that are to be parsed when they are needed
    parsed,      \* snapshot |-> config |-> the file versions it was made from
    todo,        \* snapshot |-> the configs it has still to parse
    stack,       \* snapshot |-> frames of the parser, outermost first
    work,        \* snapshot |-> the configs whose files it has still to own, or to release,
                 \*             and the files that are left of the one in hand
    found        \* snapshot |-> the entry it has found and waits to lock, or Nil

cacheVars == <<entry, owners, mu, value, hash, struck>>
snapVars == <<session, parent, disk, registry, pendingReload>>
vars == <<cacheVars, snapVars, phase, parsed, todo, stack, work, found>>

Nodes == Configs \union Files

Direct(n) == ToSet(Extends[n])

\* A config's ExtendedSourceFiles: all it extends, directly or not.
ExtendedSourceFiles(n) ==
    {f \in Files : \A F \in SUBSET Files :
        Direct(n) \subseteq F /\ (\A g \in F : Direct(g) \subseteq F) => f \in F}

\* A file that extends itself bypasses the cache (tsconfigparsing.go:1032): ExtendedConfigs.
ASSUME AcyclicAssumption == \A f \in Files : f \notin ExtendedSourceFiles(f)

\* The versions that s sees of n and of all it extends.
Seen(s, n) ==
    {<<f, disk[s][f]>> : f \in ExtendedSourceFiles(n) \union ({n} \ Configs)}

\* A loop over the configs R (a Go map), and over the files of each, sorted.
Loop(R) == [configs |-> R, files |-> {}]
NextOf(s) == CHOOSE f \in work[s].files :
                 \A g \in work[s].files : Alphabetical[f] <= Alphabetical[g]
Finished(s) ==
    [work EXCEPT ![s] = [configs |-> @.configs, files |-> @.files \ {NextOf(s)}]]
AtEnd(s) == work[s] = Loop({})

\*   "none", "parsing", "owning", "live", "releasing", "gone"
Phases == {"none", "parsing", "owning", "live", "releasing", "gone"}

Init ==
    /\ entry = [f \in Files |-> Nil]
    /\ owners = [e \in Objs |-> {}]
    /\ mu = [e \in Objs |-> Nil]
    /\ value = [e \in Objs |-> {}]
    /\ hash = [e \in Objs |-> {}]
    /\ struck = {}
    /\ phase = [s \in Snapshots |-> IF s = First THEN "live" ELSE "none"]
    /\ parent = [s \in Snapshots |-> Nil]
    /\ session \in Sessions
    /\ \E d \in session.contents : disk = [s \in Snapshots |-> d]
    /\ registry = [s \in Snapshots |-> {}]
    /\ pendingReload = [s \in Snapshots |-> {}]
    /\ parsed = [s \in Snapshots |-> [c \in Configs |-> {}]]
    /\ todo = [s \in Snapshots |-> {}]
    /\ stack = [s \in Snapshots |-> <<>>]
    /\ work = [s \in Snapshots |-> Loop({})]
    /\ found = [s \in Snapshots |-> Nil]

Fresh(e) ==
    /\ \A f \in Files : entry[f] # e
    /\ \A s \in Snapshots : found[s] # e
    /\ \A s \in Snapshots : \A i \in DOMAIN stack[s] : stack[s][i].obj # e

------------------------------------------------------------------------------
(* Building a snapshot *)

\* Clone: the new snapshot sees contents d.  The configs P are parsed for it, those that are
\* not the parent's among them; R are in its registry when Cleanup has removed what no
\* project and no open file retains.  A config of R that has changed and was not needed
\* keeps the parent's command line and is parsed later.
Clone(s, p, d, R, P) ==
    /\ phase[s] = "none" /\ phase[p] = "live"
    /\ Cardinality({t \in Snapshots : phase[t] # "none"}) < session.snapshots
    /\ R \subseteq P \union registry[p]
    /\ phase' = [phase EXCEPT ![s] = "parsing"]
    /\ parent' = [parent EXCEPT ![s] = p]
    /\ disk' = [disk EXCEPT ![s] = d]
    /\ registry' = [registry EXCEPT ![s] = R]
    /\ pendingReload' = [pendingReload EXCEPT ![s] =
          {c \in R \ P : \/ c \in pendingReload[p]
                         \/ \E f \in ExtendedSourceFiles(c) : d[f] # disk[p][f]}]
    /\ todo' = [todo EXCEPT ![s] = P]
    /\ parsed' = [parsed EXCEPT ![s] =
          [c \in Configs |-> IF c \in R \ P THEN parsed[p][c] ELSE {}]]
    /\ UNCHANGED <<cacheVars, session, stack, work, found>>

\* A frame of the parser: the config or file, its entry, the files applied so far
\* and the versions read.
Frame(s, n, e) ==
    [node |-> n, obj |-> e, applied |-> 0,
     read |-> IF n \in Configs THEN {} ELSE {<<n, disk[s][n]>>}]

Top(s) == stack[s][Len(stack[s])]
Parsing(s) == phase[s] = "parsing" /\ found[s] = Nil /\ stack[s] # <<>>
NextFile(s) == Extends[Top(s).node][Top(s).applied + 1]
HasNext(s) == Top(s).applied < Len(Extends[Top(s).node])

Applied(frames, read) ==
    LET t == frames[Len(frames)]
    IN  [frames EXCEPT ![Len(frames)] =
            [node |-> t.node, obj |-> t.obj, applied |-> t.applied + 1,
             read |-> t.read \union read]]

ParseConfig(s, c) ==
    /\ phase[s] = "parsing" /\ stack[s] = <<>>
    /\ c \in todo[s]
    /\ stack' = [stack EXCEPT ![s] = <<Frame(s, c, Nil)>>]
    /\ UNCHANGED <<cacheVars, snapVars, phase, parsed, todo, work, found>>

\* LoadAndAcquire stores a new entry, locked and without an owner, and parses.
LoadNew(s) ==
    /\ Parsing(s) /\ HasNext(s)
    /\ entry[NextFile(s)] = Nil
    /\ \E e \in Objs :
         /\ Fresh(e)
         /\ entry' = [entry EXCEPT ![NextFile(s)] = e]
         /\ owners' = [owners EXCEPT ![e] = {}]
         /\ mu' = [mu EXCEPT ![e] = s]
         /\ value' = [value EXCEPT ![e] = {}]
         /\ hash' = [hash EXCEPT ![e] = {}]
         /\ stack' = [stack EXCEPT ![s] = Append(@, Frame(s, NextFile(s), e))]
    /\ UNCHANGED <<struck, snapVars, phase, parsed, todo, work, found>>

LoadExisting(s) ==
    /\ Parsing(s) /\ HasNext(s)
    /\ entry[NextFile(s)] # Nil
    /\ found' = [found EXCEPT ![s] = entry[NextFile(s)]]
    /\ UNCHANGED <<cacheVars, snapVars, phase, parsed, todo, stack, work>>

CanLock(s) == found[s] # Nil /\ mu[found[s]] = Nil

\* The entry was deleted while waiting for its mutex: start again.
LockDead(s) ==
    /\ phase[s] = "parsing" /\ CanLock(s)
    /\ owners[found[s]] = {}
    /\ found' = [found EXCEPT ![s] = Nil]
    /\ UNCHANGED <<cacheVars, snapVars, phase, parsed, todo, stack, work>>

\* Mutant of isExpired: compares the content of the file itself only.
isExpiredItself(s, e) == <<NextFile(s), disk[s][NextFile(s)]>> \notin hash[e]

\* The content of the file, or of a file it extends, has changed.
isExpired(s, e) == hash[e] # Seen(s, NextFile(s))

LockLive(s) ==
    /\ phase[s] = "parsing" /\ CanLock(s)
    /\ owners[found[s]] # {}
    /\ ~isExpired(s, found[s])
    /\ owners' = [owners EXCEPT ![found[s]] = @ \union {s}]
    /\ stack' = [stack EXCEPT ![s] = Applied(@, value[found[s]])]
    /\ found' = [found EXCEPT ![s] = Nil]
    /\ UNCHANGED <<entry, mu, value, hash, struck, snapVars, phase, parsed, todo, work>>

LockExpired(s) ==
    /\ phase[s] = "parsing" /\ CanLock(s)
    /\ owners[found[s]] # {}
    /\ isExpired(s, found[s])
    /\ mu' = [mu EXCEPT ![found[s]] = s]
    /\ stack' = [stack EXCEPT ![s] = Append(@, Frame(s, NextFile(s), found[s]))]
    /\ found' = [found EXCEPT ![s] = Nil]
    /\ UNCHANGED <<entry, owners, value, hash, struck, snapVars, phase, parsed, todo, work>>

\* The file is parsed: LoadAndAcquire stores the value, adds the owner and unlocks.
ParsedFile(s) ==
    /\ Parsing(s) /\ ~HasNext(s) /\ Len(stack[s]) > 1
    /\ LET t == Top(s) IN
         /\ value' = [value EXCEPT ![t.obj] = t.read]
         /\ hash' = [hash EXCEPT ![t.obj] = Seen(s, t.node)]
         /\ owners' = [owners EXCEPT ![t.obj] = @ \union {s}]
         /\ mu' = [mu EXCEPT ![t.obj] = Nil]
         /\ stack' = [stack EXCEPT ![s] = Applied(Front(@), t.read)]
    /\ UNCHANGED <<entry, struck, snapVars, phase, parsed, todo, work, found>>

ParsedConfig(s) ==
    /\ Parsing(s) /\ ~HasNext(s) /\ Len(stack[s]) = 1
    /\ parsed' = IF Top(s).node \in registry[s]
                 THEN [parsed EXCEPT ![s][Top(s).node] = Top(s).read] ELSE parsed
    /\ todo' = [todo EXCEPT ![s] = @ \ {Top(s).node}]
    /\ stack' = [stack EXCEPT ![s] = <<>>]
    /\ UNCHANGED <<cacheVars, snapVars, phase, work, found>>

Finalize(s) ==
    /\ phase[s] = "parsing" /\ stack[s] = <<>> /\ todo[s] = {}
    /\ phase' = [phase EXCEPT ![s] = "owning"]
    /\ work' = [work EXCEPT ![s] = Loop(registry[s])]
    /\ UNCHANGED <<cacheVars, snapVars, parsed, todo, stack, found>>

\* The next config of the loop of Clone or dispose.
NextConfig(s, c) ==
    /\ phase[s] \in {"owning", "releasing"} /\ work[s].files = {}
    /\ c \in work[s].configs
    /\ work' = [work EXCEPT ![s] = [configs |-> @.configs \ {c}, files |-> ExtendedSourceFiles(c)]]
    /\ UNCHANGED <<cacheVars, snapVars, phase, parsed, todo, stack, found>>

AddOwnerLoad(s) ==
    /\ phase[s] = "owning" /\ found[s] = Nil
    /\ work[s].files # {}
    /\ entry[NextOf(s)] # Nil
    /\ found' = [found EXCEPT ![s] = entry[NextOf(s)]]
    /\ UNCHANGED <<cacheVars, snapVars, phase, parsed, todo, stack, work>>

AddOwner(s) ==
    /\ phase[s] = "owning" /\ CanLock(s)
    /\ owners[found[s]] # {}
    /\ owners' = [owners EXCEPT ![found[s]] = @ \union {s}]
    /\ work' = Finished(s)
    /\ found' = [found EXCEPT ![s] = Nil]
    /\ UNCHANGED <<entry, mu, value, hash, struck, snapVars, phase, parsed, todo, stack>>

\* AddOwner would panic: "entry not found", "entry has no owners".
AddOwnerPanics(s) ==
    /\ phase[s] = "owning"
    /\ \/ found[s] = Nil /\ work[s].files # {} /\ entry[NextOf(s)] = Nil
       \/ CanLock(s) /\ owners[found[s]] = {}

\* Clone returns, and the caller gives the parent's reference back.
Cloned(s) ==
    /\ phase[s] = "owning" /\ AtEnd(s)
    /\ phase' = [phase EXCEPT ![s] = "live"]
    /\ UNCHANGED <<cacheVars, snapVars, parsed, todo, stack, work, found>>

------------------------------------------------------------------------------
(* Disposing of a snapshot *)

BeingCloned(s) == \E t \in Snapshots : parent[t] = s /\ phase[t] \in {"parsing", "owning"}

\* The last reference is gone; the session always has one to some snapshot.
Dispose(s) ==
    /\ phase[s] = "live" /\ ~BeingCloned(s)
    /\ \E t \in Snapshots \ {s} : phase[t] = "live"
    /\ phase' = [phase EXCEPT ![s] = "releasing"]
    /\ work' = [work EXCEPT ![s] = Loop(registry[s])]
    /\ UNCHANGED <<cacheVars, snapVars, parsed, todo, stack, found>>

ReleaseLoad(s) ==
    /\ phase[s] = "releasing" /\ found[s] = Nil
    /\ work[s].files # {}
    /\ LET e == entry[NextOf(s)] IN
         /\ found' = [found EXCEPT ![s] = e]
         /\ work' = IF e = Nil THEN Finished(s) ELSE work
    /\ UNCHANGED <<cacheVars, snapVars, phase, parsed, todo, stack>>

\* The entry in the map is deleted, by key, even if it is not the one that was found.
DeleteKey(s) ==
    /\ entry' = [entry EXCEPT ![NextOf(s)] = Nil]
    /\ struck' = IF entry[NextOf(s)] \in {found[s], Nil} THEN struck ELSE struck \union {NextOf(s)}

\* Mutant of Release: deletes the entry of the other owners too.
ReleaseForAll(s) ==
    /\ phase[s] = "releasing" /\ CanLock(s)
    /\ owners' = [owners EXCEPT ![found[s]] = @ \ {s}]
    /\ DeleteKey(s)
    /\ work' = Finished(s)
    /\ found' = [found EXCEPT ![s] = Nil]
    /\ UNCHANGED <<mu, value, hash, snapVars, phase, parsed, todo, stack>>

\* Mutant of Release: does nothing unless the snapshot is the last owner.
ReleaseLast(s) ==
    /\ phase[s] = "releasing" /\ CanLock(s)
    /\ \/ owners[found[s]] = {s} /\ owners' = [owners EXCEPT ![found[s]] = {}] /\ DeleteKey(s)
       \/ owners[found[s]] # {s} /\ UNCHANGED <<owners, entry, struck>>
    /\ work' = Finished(s)
    /\ found' = [found EXCEPT ![s] = Nil]
    /\ UNCHANGED <<mu, value, hash, snapVars, phase, parsed, todo, stack>>

\* An entry without owners is deleted.
Release(s) ==
    /\ phase[s] = "releasing" /\ CanLock(s)
    /\ owners' = [owners EXCEPT ![found[s]] = @ \ {s}]
    /\ IF owners[found[s]] \ {s} = {} THEN DeleteKey(s) ELSE UNCHANGED <<entry, struck>>
    /\ work' = Finished(s)
    /\ found' = [found EXCEPT ![s] = Nil]
    /\ UNCHANGED <<mu, value, hash, snapVars, phase, parsed, todo, stack>>

Disposed(s) ==
    /\ phase[s] = "releasing" /\ AtEnd(s)
    /\ phase' = [phase EXCEPT ![s] = "gone"]
    /\ UNCHANGED <<cacheVars, snapVars, parsed, todo, stack, work, found>>

------------------------------------------------------------------------------
CloneStep(s) ==
    \/ \E c \in Configs : ParseConfig(s, c)
    \/ LoadNew(s) \/ LoadExisting(s) \/ LockDead(s) \/ LockLive(s) \/ LockExpired(s)
    \/ ParsedFile(s) \/ ParsedConfig(s)
    \/ \E c \in Configs : NextConfig(s, c)
    \/ Finalize(s) \/ AddOwnerLoad(s) \/ AddOwner(s) \/ Cloned(s)

DisposeStep(s) == ReleaseLoad(s) \/ Release(s) \/ Disposed(s)

\* No snapshot is at work and none is left to be made.
Quiet ==
    /\ \A s \in Snapshots : phase[s] \in {"live", "gone"}
    /\ UNCHANGED vars

Next ==
    \/ \E s \in Snapshots :
         \/ \E p \in Snapshots, d \in session.contents, R, P \in SUBSET session.configs :
              Clone(s, p, d, R, P)
         \/ CloneStep(s) \/ Dispose(s) \/ DisposeStep(s)
    \/ Quiet

Spec == Init /\ [][Next]_vars

------------------------------------------------------------------------------
(* Properties *)

FileVersions == SUBSET (Files \X Versions)

\* Type invariant: the shape of every variable.
TypeOK ==
    /\ session \in Sessions
    /\ entry \in [Files -> Objs \union {Nil}]
    /\ owners \in [Objs -> SUBSET Snapshots]
    /\ mu \in [Objs -> Snapshots \union {Nil}]
    /\ value \in [Objs -> FileVersions]
    /\ hash \in [Objs -> FileVersions]
    /\ struck \subseteq Files
    /\ phase \in [Snapshots -> Phases]
    /\ parent \in [Snapshots -> Snapshots \union {Nil}]
    /\ disk \in [Snapshots -> [Files -> Versions]]
    /\ registry \in [Snapshots -> SUBSET Configs]
    /\ pendingReload \in [Snapshots -> SUBSET Configs]
    /\ parsed \in [Snapshots -> [Configs -> FileVersions]]
    /\ todo \in [Snapshots -> SUBSET Configs]
    /\ \A s \in Snapshots : \A i \in DOMAIN stack[s] :
         stack[s][i] \in [node : Nodes, obj : Objs \union {Nil},
                          applied : 0 .. Len(Extends[stack[s][i].node]), read : FileVersions]
    /\ work \in [Snapshots -> [configs : SUBSET Configs, files : SUBSET Files]]
    /\ found \in [Snapshots -> Objs \union {Nil}]

\* "The entry must exist and have at least one current owner; callers must ensure the
\* entry is kept alive" (ownercache.go:57): Snapshot.Clone does, so AddOwner never
\* panics.
AddOwnerSafe == \A s \in Snapshots : ~AddOwnerPanics(s)

\* "each ExtendedSourceFile of a config in the ConfigFileRegistry is owned exactly once
\* per snapshot that references it" (extendedconfigcache_test.go:56), and what this is
\* worth when configs extend the same files: the entry in the map names every live
\* snapshot with a config that extends the file, unless a Release that was late has
\* deleted a younger entry of the file by its key.  Nothing else, no clone whose configs are
\* dropped, no value parsed anew, no disposal of other owners, takes it away.
OwnedWhileLive ==
    /\ TypeOK
    /\ \A s \in Snapshots : phase[s] = "live" =>
         \A c \in registry[s] : \A f \in ExtendedSourceFiles(c) :
             f \in struck \/ (entry[f] # Nil /\ s \in owners[entry[f]])

\* "... and released exactly once when that snapshot is removed": a file that a config of
\* the snapshot's registry extends is not owned by it in the map once it is gone, although
\* it was acquired by LoadAndAcquire and by AddOwner, perhaps several times, and the
\* entry may have been replaced since.  What the snapshot acquired for configs that are not
\* in its registry, nobody releases.
ReleasedWhenGone ==
    \A s \in Snapshots : phase[s] = "gone" =>
        \A c \in registry[s] : \A f \in ExtendedSourceFiles(c) :
            entry[f] # Nil => s \notin owners[entry[f]]

\* A snapshot's configs are made from the contents that the snapshot sees, of the files
\* they extend in turn too, although the entries are shared with snapshots that see
\* others and are parsed anew in place; those that are not are to be reloaded.
FreshConfigs ==
    \A s \in Snapshots : phase[s] \in {"owning", "live"} =>
        \A c \in registry[s] \ pendingReload[s] : parsed[s][c] = Seen(s, c)
=============================================================================
