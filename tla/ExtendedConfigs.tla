-------------------------- MODULE ExtendedConfigs --------------------------
(***************************************************************************)
(* Resolution of a tsconfig's "extends" chain through the shared cache of  *)
(* extended configs: tsoptions.parseConfig and getExtendedConfig, and      *)
(* tsc.ExtendedConfigCache.                                                *)
(*                                                                         *)
(* tsc -b parses the configs of all projects on goroutines of their own,   *)
(* with one cache.  A cache entry is locked while its config is parsed,    *)
(* which parses what that config extends in turn.  A parser therefore      *)
(* holds the locks of the cached configs on its resolution stack while it  *)
(* waits for another one.                                                  *)
(*                                                                         *)
(* What a config contributes to the result is abstracted to its name.      *)
(***************************************************************************)
EXTENDS Naturals, Sequences, Relation

CONSTANTS
    Parsers,     \* goroutines
    Configs,     \* config files
    Inputs,      \* what is on the disk and what is parsed: the "extends" lists, and for each
                 \* parser its project config, or None if it has nothing to do
    None

ASSUME InputsAssumption ==
    /\ None \notin Configs
    /\ \A i \in Inputs : /\ i.extends \in [Configs -> Seq(Configs)]
                         /\ i.root \in [Parsers -> Configs \union {None}]

VARIABLES
    extends,     \* config |-> the configs it extends, in order
    root,        \* parser |-> the project config it parses, or None
    stack,       \* parser |-> its frames of parseConfig, outermost first
    waiting,     \* parser |-> the cached config it waits for, or None
    entry,       \* config |-> "absent", "locked" (being parsed) or "stored"
    cached,      \* config |-> the result in its cache entry
    outcome      \* parser |-> what it returned, or None

vars == <<extends, root, stack, waiting, entry, cached, outcome>>

\* A result: the configs merged into it, and whether it reports a circularity.
Nothing == [merged |-> {}, circular |-> FALSE]
Merge(a, b) == [merged |-> a.merged \union b.merged, circular |-> a.circular \/ b.circular]

\* A frame of parseConfig: the config, the extended configs applied so far, and
\* the result up to there.
Frame(c) == [config |-> c, applied |-> 0, result |-> [Nothing EXCEPT !.merged = {c}]]

Init ==
    /\ \E i \in Inputs : extends = i.extends /\ root = i.root
    /\ stack = [p \in Parsers |-> <<Frame(root[p])>>]
    /\ waiting = [p \in Parsers |-> None]
    /\ entry = [c \in Configs |-> "absent"]
    /\ cached = [c \in Configs |-> Nothing]
    /\ outcome = [p \in Parsers |-> None]

Top(p) == stack[p][Len(stack[p])]
ResolutionStack(p) == {stack[p][i].config : i \in 1 .. Len(stack[p])}

\* The next config that applyExtendedConfig is called with.
HasNext(p) == Top(p).applied < Len(extends[Top(p).config])
NextExtended(p) == extends[Top(p).config][Top(p).applied + 1]

\* The frames of p after its top frame has applied an extended config's result.
Applied(frames, result) ==
    [frames EXCEPT ![Len(frames)] =
        [@ EXCEPT !.applied = @ + 1, !.result = Merge(@, result)]]

Running(p) == root[p] # None /\ outcome[p] = None /\ waiting[p] = None

------------------------------------------------------------------------------

\* Mutant of ExtendCircular: the cache is not bypassed for an entry that exists.
ExtendCircularCached(p) ==
    /\ Running(p) /\ HasNext(p)
    /\ NextExtended(p) \in ResolutionStack(p)
    /\ IF entry[NextExtended(p)] # "absent"
         THEN waiting' = [waiting EXCEPT ![p] = NextExtended(p)] /\ UNCHANGED stack
         ELSE /\ stack' = [stack EXCEPT ![p] = Applied(@, [Nothing EXCEPT !.circular = TRUE])]
              /\ UNCHANGED waiting
    /\ UNCHANGED <<extends, root, entry, cached, outcome>>

\* Extending a config of the own resolution stack bypasses the cache; parseConfig
\* reports the circularity and returns nothing to merge.
ExtendCircular(p) ==
    /\ Running(p) /\ HasNext(p)
    /\ NextExtended(p) \in ResolutionStack(p)
    /\ stack' = [stack EXCEPT ![p] = Applied(@, [Nothing EXCEPT !.circular = TRUE])]
    /\ UNCHANGED <<extends, root, waiting, entry, cached, outcome>>

\* GetExtendedConfig stores a new entry, locked, and parses.
ExtendNew(p) ==
    /\ Running(p) /\ HasNext(p)
    /\ LET c == NextExtended(p) IN
         /\ c \notin ResolutionStack(p)
         /\ entry[c] = "absent"
         /\ entry' = [entry EXCEPT ![c] = "locked"]
         /\ stack' = [stack EXCEPT ![p] = Append(@, Frame(c))]
    /\ UNCHANGED <<extends, root, waiting, cached, outcome>>

\* GetExtendedConfig finds an entry, and locks its mutex.
ExtendExisting(p) ==
    /\ Running(p) /\ HasNext(p)
    /\ LET c == NextExtended(p) IN
         /\ c \notin ResolutionStack(p)
         /\ entry[c] # "absent"
         /\ waiting' = [waiting EXCEPT ![p] = c]
    /\ UNCHANGED <<extends, root, stack, entry, cached, outcome>>

\* Mutant of ExtendCached: the existing entry is read without its mutex.
ExtendUnlocked(p) ==
    /\ waiting[p] # None
    /\ stack' = [stack EXCEPT ![p] = Applied(@, cached[waiting[p]])]
    /\ waiting' = [waiting EXCEPT ![p] = None]
    /\ UNCHANGED <<extends, root, entry, cached, outcome>>

\* The mutex is free: the stored result is applied.
ExtendCached(p) ==
    /\ waiting[p] # None
    /\ entry[waiting[p]] = "stored"
    /\ stack' = [stack EXCEPT ![p] = Applied(@, cached[waiting[p]])]
    /\ waiting' = [waiting EXCEPT ![p] = None]
    /\ UNCHANGED <<extends, root, entry, cached, outcome>>

\* parseConfig returns to the GetExtendedConfig that called it: the result is
\* stored, the entry unlocked, and the caller's frame applies it.
ReturnExtended(p) ==
    /\ Running(p) /\ ~HasNext(p)
    /\ Len(stack[p]) > 1
    /\ LET c == Top(p).config IN
         /\ cached' = [cached EXCEPT ![c] = Top(p).result]
         /\ entry' = [entry EXCEPT ![c] = "stored"]
    /\ stack' = [stack EXCEPT ![p] = Applied(SubSeq(@, 1, Len(@) - 1), Top(p).result)]
    /\ UNCHANGED <<extends, root, waiting, outcome>>

ReturnRoot(p) ==
    /\ Running(p) /\ ~HasNext(p)
    /\ Len(stack[p]) = 1
    /\ outcome' = [outcome EXCEPT ![p] = Top(p).result]
    /\ UNCHANGED <<extends, root, stack, waiting, entry, cached>>

Step(p) ==
    \/ ExtendCircular(p) \/ ExtendNew(p) \/ ExtendExisting(p) \/ ExtendCached(p)
    \/ ReturnExtended(p) \/ ReturnRoot(p)

Next == \E p \in Parsers : Step(p)

\* Goroutines are scheduled fairly; nothing but the mutexes stops a parser.
Spec == Init /\ [][Next]_vars /\ \A p \in Parsers : WF_vars(Step(p))

------------------------------------------------------------------------------
(* Properties *)

Results == [merged : SUBSET Configs, circular : BOOLEAN]

\* Type invariant: the shape of every variable.
TypeOK ==
    /\ [extends |-> extends, root |-> root] \in Inputs
    /\ \A p \in Parsers : root[p] # None => \A i \in 1 .. Len(stack[p]) :
         /\ stack[p][i].config \in Configs
         /\ stack[p][i].applied \in 0 .. Len(extends[stack[p][i].config])
         /\ stack[p][i].result \in Results
    /\ waiting \in [Parsers -> Configs \union {None}]
    /\ entry \in [Configs -> {"absent", "locked", "stored"}]
    /\ cached \in [Configs -> Results]
    /\ outcome \in [Parsers -> Results \union {None}]

\* What resolving a config means, whatever the cache holds: everything it extends,
\* directly or not, is merged, and a cycle on the way is reported.
ExtendsTransitively ==
    TransitiveClosure(
        [e \in Configs \X Configs |->
            \E i \in 1 .. Len(extends[e[1]]) : extends[e[1]][i] = e[2]], Configs)

Resolved(c) ==
    LET reached == {c} \union {d \in Configs : ExtendsTransitively[c, d]}
    IN  [merged |-> reached, circular |-> \E d \in reached : ExtendsTransitively[d, d]]

\* A parser returns what resolving its config without any cache would return: the
\* entries it shares with the others are complete when it reads them, and an error
\* in one of them is reported to everybody who extends it.  Only an entry that another
\* parser has stored from within an extends cycle lacks what was on its resolution stack
\* then, and carries the error.
OutcomeRight ==
    /\ TypeOK
    /\ \A p \in Parsers : outcome[p] # None =>
         LET right == Resolved(root[p]) IN
         /\ outcome[p].circular = right.circular
         /\ outcome[p].merged \subseteq right.merged
         /\ ~right.circular \/ (\A q \in Parsers \ {p} : root[q] = None) => outcome[p] = right

\* p waits for an entry that another parser, q, keeps locked.
WaitsFor(p, q) == p # q /\ waiting[p] \in {stack[q][i].config : i \in 2 .. Len(stack[q])}

\* p waits for parsers that wait for each other, each for an entry that extends itself.
Deadlocked(p) ==
    LET blocked == TransitiveClosure([e \in Parsers \X Parsers |-> WaitsFor(e[1], e[2])], Parsers)
    IN  \E q \in Parsers :
          /\ q = p \/ blocked[p, q]
          /\ blocked[q, q]
          /\ \A r \in Parsers : blocked[q, r] => ExtendsTransitively[waiting[r], waiting[r]]

\* Every parser returns, a cycle in what it extends notwithstanding, unless several have
\* entered the cycle at different configs and wait for each other's entries: the cache
\* is bypassed only for configs of the own resolution stack.
AllReturn == \A p \in Parsers : <>(root[p] = None \/ outcome[p] # None \/ Deadlocked(p))

\* Every parser returns: "a tsconfig extends cycle should produce an error, not a
\* deadlock when using the tsc ExtendedConfigCache" (extendedconfigcache_test.go:26-27).
\* Violated, ExtendedConfigsCycle.cfg.
NeverDeadlocks == \A p \in Parsers : <>(root[p] = None \/ outcome[p] # None)
=============================================================================
