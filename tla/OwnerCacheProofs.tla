-------------------------- MODULE OwnerCacheProofs --------------------------
(***************************************************************************)
(* Proofs about OwnerCache, for any snapshots, configs, files, "extends"   *)
(* lists and contents.                                                     *)
(***************************************************************************)
EXTENDS OwnerCache, SequenceTheorems, TLAPS

\* The files that a set of nodes extends.
FilesOf(R) == UNION {ExtendedSourceFiles(c) : c \in R}

------------------------------------------------------------------------------
(* What a config extends *)

\* Lists of extended files have files in them.
LEMMA DirectFiles ==
  ASSUME NEW n \in Nodes
  PROVE  /\ Extends[n] \in Seq(Files) /\ Direct(n) \subseteq Files
         /\ Direct(n) = {Extends[n][i] : i \in 1 .. Len(Extends[n])}
<1>1. Extends[n] \in Seq(Files)
  BY NodesAssumption DEF Nodes
<1> QED
  BY <1>1 DEF Direct, ToSet

\* Among the files that a config extends are those in its list.
LEMMA DirectExtended ==
  ASSUME NEW n \in Nodes
  PROVE  Direct(n) \subseteq ExtendedSourceFiles(n)
BY DirectFiles DEF ExtendedSourceFiles

\* It extends what a file it extends does.
LEMMA ExtendedTransitive ==
  ASSUME NEW n \in Nodes, NEW g \in ExtendedSourceFiles(n)
  PROVE  ExtendedSourceFiles(g) \subseteq ExtendedSourceFiles(n)
<1> SUFFICES ASSUME NEW f \in ExtendedSourceFiles(g), NEW F \in SUBSET Files,
                    Direct(n) \subseteq F, \A h \in F : Direct(h) \subseteq F
             PROVE  f \in F
  BY DEF ExtendedSourceFiles
<1>1. g \in F
  BY DEF ExtendedSourceFiles
<1> QED
  BY <1>1 DEF ExtendedSourceFiles

\* All it extends is in its list or extended by what is in its list.
LEMMA ExtendedUnfolds ==
  ASSUME NEW n \in Nodes
  PROVE  ExtendedSourceFiles(n) = Direct(n) \union FilesOf(Direct(n))
<1> DEFINE F == Direct(n) \union FilesOf(Direct(n))
<1>1. F \subseteq Files
  BY DirectFiles DEF FilesOf, ExtendedSourceFiles
<1>2. ASSUME NEW g \in F PROVE Direct(g) \subseteq F
  <2>1. CASE g \in Direct(n)
    <3>1. g \in Nodes
      BY <2>1, DirectFiles DEF Nodes
    <3> QED
      BY <2>1, <3>1, DirectExtended DEF FilesOf
  <2>2. CASE g \in FilesOf(Direct(n))
    <3>1. PICK h \in Direct(n) : g \in ExtendedSourceFiles(h)
      BY <2>2 DEF FilesOf
    <3>2. h \in Nodes /\ g \in Nodes
      BY <3>1, DirectFiles DEF Nodes, ExtendedSourceFiles
    <3>3. Direct(g) \subseteq ExtendedSourceFiles(h)
      BY <3>1, <3>2, DirectExtended, ExtendedTransitive
    <3> QED
      BY <3>3 DEF FilesOf
  <2> QED
    BY <2>1, <2>2
<1>3. ExtendedSourceFiles(n) \subseteq F
  BY <1>1, <1>2 DEF ExtendedSourceFiles
<1>4. F \subseteq ExtendedSourceFiles(n)
  BY DirectExtended, ExtendedTransitive DEF FilesOf
<1> QED
  BY <1>3, <1>4

------------------------------------------------------------------------------
(* The parser's stacks *)

Frames == [node : Nodes, obj : Objs \union {Nil}, applied : Nat, read : FileVersions]

\* What has been read when the first k files of n's list are applied.
ReadBy(s, n, k) ==
    {<<f, disk[s][f]>> : f \in {n} \ Configs} \union UNION {Seen(s, Extends[n][j]) : j \in 1 .. k}

\* When they all are, it is what s sees of n and of what n extends.
LEMMA ReadAll ==
  ASSUME NEW s, NEW n \in Nodes
  PROVE  ReadBy(s, n, Len(Extends[n])) = Seen(s, n)
<1>1. \A j \in 1 .. Len(Extends[n]) : Extends[n][j] \in Files /\ Extends[n][j] \notin Configs
  BY DirectFiles, NodesAssumption
<1>2. UNION {Seen(s, Extends[n][j]) : j \in 1 .. Len(Extends[n])}
        = UNION {Seen(s, g) : g \in Direct(n)}
  BY DirectFiles
<1>3. \A g \in Direct(n) :
        Seen(s, g) = {<<f, disk[s][f]>> : f \in ExtendedSourceFiles(g) \union {g}}
  BY DirectFiles, NodesAssumption DEF Seen
<1>4. UNION {Seen(s, g) : g \in Direct(n)}
        = {<<f, disk[s][f]>> : f \in Direct(n) \union FilesOf(Direct(n))}
  BY <1>3 DEF FilesOf
<1> QED
  BY <1>2, <1>4, ExtendedUnfolds DEF ReadBy, Seen

\* One more is applied.
LEMMA ReadOne ==
  ASSUME NEW s, NEW n \in Nodes, NEW k \in Nat
  PROVE  ReadBy(s, n, k + 1) = ReadBy(s, n, k) \union Seen(s, Extends[n][k + 1])
<1>1. 1 .. k + 1 = (1 .. k) \union {k + 1}
  OBVIOUS
<1> QED
  BY <1>1 DEF ReadBy

\* Versions seen are versions of files.
LEMMA SeenTyped ==
  ASSUME NEW s \in Snapshots, NEW n \in Nodes, disk[s] \in [Files -> Versions]
  PROVE  Seen(s, n) \in FileVersions
BY DEF Seen, FileVersions, ExtendedSourceFiles, Nodes

\* Applied changes the innermost frame.
LEMMA AppliedFrames ==
  ASSUME NEW fr \in Seq(Frames), Len(fr) > 0, NEW r \in FileVersions
  PROVE  LET t == fr[Len(fr)] new == Applied(fr, r) IN
         /\ new \in Seq(Frames) /\ Len(new) = Len(fr)
         /\ \A i \in 1 .. Len(fr) : i # Len(fr) => new[i] = fr[i]
         /\ new[Len(fr)] = [node |-> t.node, obj |-> t.obj, applied |-> t.applied + 1,
                            read |-> t.read \union r]
<1> DEFINE t == fr[Len(fr)]
           u == [node |-> t.node, obj |-> t.obj, applied |-> t.applied + 1,
                 read |-> t.read \union r]
<1>1. t \in Frames
  OBVIOUS
<1>3. u \in Frames
  BY <1>1 DEF Frames, FileVersions
<1>4. Applied(fr, r) = [fr EXCEPT ![Len(fr)] = u]
  BY DEF Applied
<1> HIDE DEF u
<1>5. Applied(fr, r) \in Seq(Frames) /\ Len(Applied(fr, r)) = Len(fr)
  BY <1>3, <1>4, ExceptSeq
<1>6. \A i \in 1 .. Len(fr) : i # Len(fr) => Applied(fr, r)[i] = fr[i]
  BY <1>4
<1>7. Applied(fr, r)[Len(fr)] = u
  BY <1>4
<1> QED
  BY <1>5, <1>6, <1>7 DEF u

\* Front drops it.
LEMMA FrontFrames ==
  ASSUME NEW fr \in Seq(Frames), Len(fr) > 1
  PROVE  /\ Front(fr) \in Seq(Frames) /\ Len(Front(fr)) = Len(fr) - 1
         /\ \A i \in 1 .. Len(fr) - 1 : Front(fr)[i] = fr[i]
BY DEF Front

------------------------------------------------------------------------------
(* What is parsed, whoever shares the cache *)

\* The types, with the stacks as sequences of frames.
Typed ==
    /\ session \in Sessions /\ struck \subseteq Files
    /\ pendingReload \in [Snapshots -> SUBSET Configs]
    /\ entry \in [Files -> Objs \union {Nil}] /\ owners \in [Objs -> SUBSET Snapshots]
    /\ mu \in [Objs -> Snapshots \union {Nil}]
    /\ value \in [Objs -> FileVersions] /\ hash \in [Objs -> FileVersions]
    /\ phase \in [Snapshots -> Phases] /\ parent \in [Snapshots -> Snapshots \union {Nil}]
    /\ disk \in [Snapshots -> [Files -> Versions]] /\ registry \in [Snapshots -> SUBSET Configs]
    /\ parsed \in [Snapshots -> [Configs -> FileVersions]]
    /\ todo \in [Snapshots -> SUBSET Configs] /\ stack \in [Snapshots -> Seq(Frames)]
    /\ work \in [Snapshots -> [configs : SUBSET Configs, files : SUBSET Files]]
    /\ found \in [Snapshots -> Objs \union {Nil}]

\* A frame has read what s sees of the files it has applied, and the frame inside it is the
\* file that it applies next.
FrameOK(s, fr, i) ==
    LET t == fr[i] IN
    /\ t.applied <= Len(Extends[t.node]) /\ t.read = ReadBy(s, t.node, t.applied)
    /\ IF i = 1 THEN t.obj = Nil ELSE t.node \in Files /\ t.obj \in Objs
    /\ i < Len(fr) => /\ t.applied < Len(Extends[t.node])
                      /\ fr[i + 1].node = Extends[t.node][t.applied + 1]

FramesOK(s, fr) == \A i \in 1 .. Len(fr) : FrameOK(s, fr, i)

\* What s has parsed so far is what it sees, and it waits for an entry with a purpose.
Snap(s) ==
    /\ FramesOK(s, stack[s])
    /\ stack[s] # <<>> => phase[s] = "parsing" /\ stack[s][1].node \in todo[s]
    /\ phase[s] \in {"owning", "live"} => todo[s] = {}
    /\ phase[s] \in {"parsing", "owning", "live"} =>
         \A c \in registry[s] \ (todo[s] \union pendingReload[s]) : parsed[s][c] = Seen(s, c)
    /\ found[s] # Nil => /\ phase[s] \in {"parsing", "owning", "releasing"}
                         /\ phase[s] = "parsing" => stack[s] # <<>> /\ HasNext(s)
                         /\ phase[s] # "parsing" => work[s].files # {}

\* A value has the versions that its hash was computed from.
Parse == Typed /\ value = hash /\ \A s \in Snapshots : Snap(s)

\* Nobody starts on anything.
LEMMA InitParse == Init => Parse
<1> SUFFICES ASSUME Init PROVE Parse
  OBVIOUS
<1>1. <<>> \in Seq(Frames) /\ {} \in FileVersions
  BY DEF FileVersions
<1>2. Typed
  BY <1>1, NodesAssumption DEF Init, Typed, Phases, Loop
<1>3. ASSUME NEW s \in Snapshots PROVE Snap(s)
  BY DEF Init, Snap, FramesOK
<1> QED
  BY <1>2, <1>3 DEF Parse, Init

\* A step of one snapshot's goroutine leaves the others alone.
Mine(t) == <<phase[t], disk[t], registry[t], pendingReload[t], parsed[t], todo[t], stack[t],
             work[t], found[t]>>

LEMMA SameSnap ==
  ASSUME NEW t \in Snapshots, Snap(t), Mine(t)' = Mine(t)
  PROVE  Snap(t)'
<1>1. /\ phase'[t] = phase[t] /\ disk'[t] = disk[t] /\ registry'[t] = registry[t]
      /\ parsed'[t] = parsed[t] /\ todo'[t] = todo[t] /\ stack'[t] = stack[t]
      /\ work'[t] = work[t] /\ found'[t] = found[t] /\ pendingReload'[t] = pendingReload[t]
  BY DEF Mine
<1>2. \A n : Seen(t, n)' = Seen(t, n)
  BY <1>1 DEF Seen
<1>3. \A n, k : ReadBy(t, n, k)' = ReadBy(t, n, k)
  BY <1>1, <1>2 DEF ReadBy
<1>4. FramesOK(t, stack[t])' <=> FramesOK(t, stack[t])
  BY <1>1, <1>3 DEF FramesOK, FrameOK
<1> QED
  BY <1>1, <1>2, <1>4 DEF Snap, HasNext, Top

\* A clone keeps what its parent has parsed of files that have not changed.
LEMMA CloneParse ==
  ASSUME Parse, NEW s \in Snapshots, NEW p \in Snapshots, NEW d \in session.contents,
         NEW R \in SUBSET session.configs, NEW P \in SUBSET session.configs, Clone(s, p, d, R, P)
  PROVE  Parse'
<1>1. /\ phase[s] = "none" /\ phase[p] = "live" /\ s # p
      /\ phase' = [phase EXCEPT ![s] = "parsing"] /\ parent' = [parent EXCEPT ![s] = p]
      /\ UNCHANGED <<session, entry, owners, mu, value, hash, struck, stack, work, found>>
  BY DEF Clone, cacheVars
<1> DEFINE stale == {c \in R \ P : \/ c \in pendingReload[p]
                                   \/ \E f \in ExtendedSourceFiles(c) : d[f] # disk[p][f]}
           kept == [c \in Configs |-> IF c \in R \ P THEN parsed[p][c] ELSE {}]
<1>2. /\ R \subseteq P \union registry[p]
      /\ disk' = [disk EXCEPT ![s] = d] /\ registry' = [registry EXCEPT ![s] = R]
      /\ pendingReload' = [pendingReload EXCEPT ![s] = stale]
      /\ todo' = [todo EXCEPT ![s] = P] /\ parsed' = [parsed EXCEPT ![s] = kept]
  BY DEF Clone
<1>3. d \in [Files -> Versions] /\ R \in SUBSET Configs /\ P \in SUBSET Configs
  BY NodesAssumption DEF Parse, Typed
<1>4. kept \in [Configs -> FileVersions] /\ stale \in SUBSET Configs
  BY <1>3 DEF Parse, Typed, FileVersions
<1>5. Typed'
  BY <1>1, <1>2, <1>3, <1>4 DEF Parse, Typed, Phases
<1>6. ASSUME NEW t \in Snapshots, t # s PROVE Snap(t)'
  <2>1. Mine(t)' = Mine(t)
    BY <1>1, <1>2, <1>6 DEF Mine, Parse, Typed
  <2> QED
    BY <2>1, SameSnap DEF Parse
<1>7. Snap(s)'
  <2>1. stack[s] = <<>> /\ found[s] = Nil
    BY <1>1 DEF Parse, Snap
  <2>2. /\ disk'[s] = d /\ registry'[s] = R /\ todo'[s] = P /\ parsed'[s] = kept
        /\ pendingReload'[s] = stale
    BY <1>1, <1>2 DEF Parse, Typed
  <2>3. ASSUME NEW c \in R \ (P \union stale) PROVE kept[c] = Seen(s, c)'
    <3>1. /\ c \in registry[p] /\ c \notin pendingReload[p] /\ c \in Configs
          /\ \A f \in ExtendedSourceFiles(c) : d[f] = disk[p][f]
      BY <1>2, <1>3
    <3>2. kept[c] = Seen(p, c)
      BY <1>1, <3>1 DEF Parse, Snap
    <3>3. Seen(s, c)' = Seen(p, c)
      BY <2>2, <3>1 DEF Seen
    <3> QED
      BY <3>2, <3>3
  <2> HIDE DEF stale, kept
  <2>4. phase'[s] = "parsing" /\ stack'[s] = <<>> /\ found'[s] = Nil
    BY <1>1, <2>1 DEF Parse, Typed
  <2> QED
    BY <2>2, <2>3, <2>4 DEF Snap, FramesOK
<1> QED
  BY <1>1, <1>5, <1>6, <1>7 DEF Parse

\* The next file to apply is a file.
LEMMA NextFileIs ==
  ASSUME NEW t \in Frames, t.applied < Len(Extends[t.node])
  PROVE  /\ t.node \in Nodes /\ t.applied \in Nat /\ Len(Extends[t.node]) \in Nat
         /\ Extends[t.node][t.applied + 1] \in Direct(t.node)
         /\ Extends[t.node][t.applied + 1] \in Files /\ Extends[t.node][t.applied + 1] \in Nodes
<1>1. t.node \in Nodes /\ t.applied \in Nat
  BY DEF Frames
<1>2. Len(Extends[t.node]) \in Nat /\ t.applied + 1 \in 1 .. Len(Extends[t.node])
  BY <1>1, DirectFiles
<1> QED
  BY <1>1, <1>2, DirectFiles DEF Nodes

\* The innermost frame, and what does not change with s's stack.
LEMMA TopIs ==
  ASSUME Parse, NEW s \in Snapshots, stack[s] # <<>>
  PROVE  /\ stack[s] \in Seq(Frames) /\ Len(stack[s]) > 0 /\ Len(stack[s]) \in Nat
         /\ Top(s) \in Frames /\ FramesOK(s, stack[s]) /\ FrameOK(s, stack[s], Len(stack[s]))
         /\ phase[s] = "parsing" /\ stack[s][1].node \in todo[s]
<1>1. stack[s] \in Seq(Frames) /\ Len(stack[s]) > 0 /\ Len(stack[s]) \in Nat
  BY DEF Parse, Typed
<1> QED
  BY <1>1 DEF Parse, Snap, Top, FramesOK

\* A frame below the innermost one is right if the frames from it to the next one stay.
LEMMA SameFrame ==
  ASSUME NEW s, NEW fr, NEW new, NEW i \in Nat, FrameOK(s, fr, i), new[i] = fr[i],
         i < Len(fr), i < Len(new), new[i + 1].node = fr[i + 1].node
  PROVE  FrameOK(s, new, i)
<1>1. /\ fr[i].applied < Len(Extends[fr[i].node])
      /\ new[i + 1].node = Extends[fr[i].node][fr[i].applied + 1]
  BY DEF FrameOK
<1> QED
  BY <1>1 DEF FrameOK

\* The innermost frame is right if it stays and the next file is parsed above it.
LEMMA FollowedFrame ==
  ASSUME NEW s, NEW fr, NEW new, NEW i \in Nat, FrameOK(s, fr, i), new[i] = fr[i],
         fr[i].applied < Len(Extends[fr[i].node]),
         new[i + 1].node = Extends[fr[i].node][fr[i].applied + 1]
  PROVE  FrameOK(s, new, i)
BY DEF FrameOK

\* The parser starts with the next file.
LEMMA PushFrame ==
  ASSUME Parse, NEW s \in Snapshots, stack[s] # <<>>, HasNext(s), NEW e \in Objs,
         NEW new, new = Append(stack[s], Frame(s, NextFile(s), e))
  PROVE  /\ new \in Seq(Frames) /\ new # <<>> /\ FramesOK(s, new)
         /\ new[1].node = stack[s][1].node
<1> DEFINE fr == stack[s]
           t == fr[Len(fr)]
           n == NextFile(s)
<1>0. /\ fr \in Seq(Frames) /\ Len(fr) > 0 /\ FramesOK(s, fr) /\ disk[s] \in [Files -> Versions]
      /\ t.applied < Len(Extends[t.node]) /\ n = Extends[t.node][t.applied + 1]
      /\ new = Append(fr, Frame(s, n, e))
  BY TopIs DEF Parse, Typed, HasNext, NextFile, Top
<1> HIDE DEF fr, n
<1>1. t \in Frames /\ Len(fr) \in Nat
  BY <1>0
<1>2. n \in Files /\ n \notin Configs /\ n \in Nodes
  BY <1>0, <1>1, NextFileIs, NodesAssumption
<1>3. {<<n, disk[s][n]>>} = ReadBy(s, n, 0)
  BY <1>2 DEF ReadBy
<1>4. Frame(s, n, e) = [node |-> n, obj |-> e, applied |-> 0, read |-> {<<n, disk[s][n]>>}]
  BY <1>2 DEF Frame
<1>5. Frame(s, n, e) \in Frames
  <2>1. {<<n, disk[s][n]>>} \in FileVersions
    BY <1>0, <1>2 DEF FileVersions
  <2> QED
    BY <1>2, <1>4, <2>1 DEF Frames
<1> HIDE DEF t
<1>6. /\ new \in Seq(Frames) /\ Len(new) = Len(fr) + 1
      /\ \A i \in 1 .. Len(fr) : new[i] = fr[i]
      /\ new[Len(fr) + 1] = Frame(s, n, e)
  BY <1>0, <1>1, <1>5, AppendProperties
<1>7. Len(Extends[n]) \in Nat
  BY <1>2, DirectFiles
<1>8. ASSUME NEW i \in 1 .. Len(fr) + 1 PROVE FrameOK(s, new, i)
  <2>1. CASE i = Len(fr) + 1
    <3>1. new[i] = [node |-> n, obj |-> e, applied |-> 0, read |-> ReadBy(s, n, 0)]
      BY <1>3, <1>4, <1>6, <2>1
    <3>2. i # 1 /\ ~(i < Len(new)) /\ 0 <= Len(Extends[n])
      BY <1>1, <1>6, <1>7, <2>1
    <3> QED
      BY <1>2, <3>1, <3>2 DEF FrameOK
  <2>2. CASE i # Len(fr) + 1
    <3>1. i \in 1 .. Len(fr) /\ FrameOK(s, fr, i) /\ new[i] = fr[i]
      BY <1>0, <1>1, <1>6, <2>2 DEF FramesOK
    <3>2. CASE i = Len(fr)
      <4>1. fr[i] = t /\ i + 1 = Len(fr) + 1 /\ i \in Nat
        BY <1>1, <3>2 DEF t
      <4>2. new[i + 1].node = n
        BY <1>4, <1>6, <4>1
      <4>3. /\ fr[i].applied < Len(Extends[fr[i].node])
            /\ new[i + 1].node = Extends[fr[i].node][fr[i].applied + 1]
        BY <1>0, <4>1, <4>2
      <4> QED
        BY <3>1, <4>1, <4>3, FollowedFrame
    <3>3. CASE i # Len(fr)
      <4>1. i + 1 \in 1 .. Len(fr) /\ i < Len(fr) /\ i \in Nat /\ i < Len(fr) + 1
        BY <1>1, <3>1, <3>3
      <4>2. new[i + 1] = fr[i + 1] /\ i < Len(new)
        BY <1>6, <4>1
      <4> QED
        BY <3>1, <4>1, <4>2, SameFrame
    <3> QED
      BY <3>2, <3>3
  <2> QED
    BY <2>1, <2>2
<1> QED
  BY <1>0, <1>1, <1>6, <1>8 DEF FramesOK, fr

\* The frame k applies its next file, and is the innermost one then.
LEMMA ApplyNext ==
  ASSUME Parse, NEW s \in Snapshots, stack[s] # <<>>, NEW fk \in Seq(Frames), Len(fk) > 0,
         Len(fk) <= Len(stack[s]), \A i \in 1 .. Len(fk) : fk[i] = stack[s][i],
         NEW t, t = fk[Len(fk)], t.applied < Len(Extends[t.node]),
         NEW new, new = Applied(fk, Seen(s, Extends[t.node][t.applied + 1]))
  PROVE  /\ new \in Seq(Frames) /\ new # <<>> /\ FramesOK(s, new)
         /\ new[1].node = stack[s][1].node
<1> DEFINE fr == stack[s]
           k == Len(fk)
           r == Seen(s, Extends[t.node][t.applied + 1])
<1>0. /\ fr \in Seq(Frames) /\ FramesOK(s, fr) /\ disk[s] \in [Files -> Versions]
      /\ \A i \in 1 .. k : fk[i] = fr[i]
  BY TopIs DEF Parse, Typed
<1> HIDE DEF fr
<1>1. /\ t \in Frames /\ k \in Nat /\ k > 0 /\ Len(fr) \in Nat
      /\ t = fk[k] /\ k <= Len(fr) /\ t = fr[k]
  BY <1>0 DEF fr
<1> HIDE DEF k
<1>2. t.node \in Nodes /\ t.applied \in Nat /\ Len(Extends[t.node]) \in Nat
  BY <1>1, NextFileIs
<1>3. r \in FileVersions
  BY <1>0, <1>1, NextFileIs, SeenTyped
<1> HIDE DEF r
<1>4. /\ new \in Seq(Frames) /\ Len(new) = k
      /\ \A i \in 1 .. k : i # k => new[i] = fk[i]
      /\ new[k] = [node |-> t.node, obj |-> t.obj, applied |-> t.applied + 1,
                   read |-> t.read \union r]
  BY <1>1, <1>3, AppliedFrames DEF r, k
<1>5. ASSUME NEW i \in 1 .. k PROVE FrameOK(s, new, i)
  <2>1. FrameOK(s, fr, i)
    BY <1>0, <1>1 DEF FramesOK
  <2>2. CASE i = k
    <3>1. t.read \union r = ReadBy(s, t.node, t.applied + 1)
      BY <1>1, <1>2, <2>1, <2>2, ReadOne DEF FrameOK, r
    <3>2. new[i] = [node |-> t.node, obj |-> t.obj, applied |-> t.applied + 1,
                    read |-> ReadBy(s, t.node, t.applied + 1)]
      BY <1>4, <2>2, <3>1
    <3>3. t.applied + 1 <= Len(Extends[t.node]) /\ ~(i < Len(new))
      BY <1>1, <1>2, <1>4, <2>2
    <3>4. IF i = 1 THEN t.obj = Nil ELSE t.node \in Files /\ t.obj \in Objs
      BY <1>1, <2>1, <2>2 DEF FrameOK
    <3> QED
      BY <3>2, <3>3, <3>4 DEF FrameOK
  <2>3. CASE i # k
    <3>1. i \in Nat /\ i < k /\ i < Len(fr) /\ i + 1 \in 1 .. k
      BY <1>1, <2>3
    <3>2. new[i] = fr[i]
      BY <1>0, <1>4, <2>3
    <3>3. new[i + 1].node = fr[i + 1].node
      <4>1. CASE i + 1 = k
        BY <1>1, <1>4, <4>1, SMTT(30)
      <4>2. CASE i + 1 # k
        <5>1. new[i + 1] = fk[i + 1]
          BY <1>4, <3>1, <4>2
        <5>2. fk[i + 1] = fr[i + 1]
          BY <1>0, <3>1
        <5> QED
          BY <5>1, <5>2
      <4> QED
        BY <4>1, <4>2
    <3>4. i < Len(new)
      BY <1>4, <3>1
    <3> QED
      BY <2>1, <3>1, <3>2, <3>3, <3>4, SameFrame
  <2> QED
    BY <2>2, <2>3
<1>6. new # <<>>
  BY <1>1, <1>4
<1>7. new[1].node = fr[1].node
  <2>1. CASE k = 1
    BY <1>1, <1>4, <2>1
  <2>2. CASE k # 1
    <3>1. 1 \in 1 .. k
      BY <1>1
    <3>2. new[1] = fk[1] /\ fk[1] = fr[1]
      BY <1>0, <1>4, <2>2, <3>1
    <3> QED
      BY <3>2
  <2> QED
    BY <2>1, <2>2
<1> QED
  BY <1>4, <1>5, <1>6, <1>7 DEF FramesOK, fr

\* What is to be shown of a step of s.
LEMMA ParseStep ==
  ASSUME Parse, NEW s \in Snapshots, Typed', value' = hash', Snap(s)',
         \A t \in Snapshots : t # s => Mine(t)' = Mine(t)
  PROVE  Parse'
BY SameSnap DEF Parse

\* Snap when only the stack, and what s has found, change.
LEMMA StackSnap ==
  ASSUME Parse, NEW s \in Snapshots, phase[s] = "parsing", FramesOK(s, stack'[s]),
         stack'[s] # <<>>, stack'[s][1].node \in todo[s], found'[s] = Nil,
         UNCHANGED <<phase, disk, registry, pendingReload, parsed, todo>>
  PROVE  Snap(s)'
<1>1. \A m : Seen(s, m)' = Seen(s, m)
  BY DEF Seen
<1>2. \A m, j : ReadBy(s, m, j)' = ReadBy(s, m, j)
  BY <1>1 DEF ReadBy
<1>3. FramesOK(s, stack[s])'
  BY <1>2 DEF FramesOK, FrameOK
<1> QED
  BY <1>1, <1>3 DEF Snap, Parse

\* Steps that leave the stacks and what is parsed alone.
LEMMA PhaseStep ==
  ASSUME Parse, NEW s \in Snapshots,
         \/ LoadExisting(s) \/ LockDead(s) \/ Finalize(s) \/ Cloned(s) \/ Disposed(s)
         \/ \E c \in Configs : NextConfig(s, c)
         \/ AddOwnerLoad(s) \/ AddOwner(s) \/ Dispose(s) \/ ReleaseLoad(s) \/ Release(s)
  PROVE  Parse'
<1>1. UNCHANGED <<mu, value, hash, snapVars, parsed, todo, stack>>
  BY DEF LoadExisting, LockDead, Finalize, Cloned, Disposed, NextConfig, AddOwnerLoad, AddOwner,
         Dispose, ReleaseLoad, Release, cacheVars
<1>2. /\ entry' \in [Files -> Objs \union {Nil}] /\ owners' \in [Objs -> SUBSET Snapshots]
      /\ struck' \subseteq Files
      /\ phase' \in [Snapshots -> Phases] /\ found' \in [Snapshots -> Objs \union {Nil}]
      /\ \A t \in Snapshots : t # s => phase'[t] = phase[t] /\ found'[t] = found[t]
  <2>1. CASE \/ LoadExisting(s) \/ LockDead(s) \/ Finalize(s) \/ Cloned(s) \/ Disposed(s)
             \/ \E c \in Configs : NextConfig(s, c)
    <3>1. LoadExisting(s) => NextFile(s) \in Files
      BY TopIs, NextFileIs DEF LoadExisting, Parsing, HasNext, NextFile
    <3> QED
      BY <2>1, <3>1 DEF LoadExisting, LockDead, Finalize, Cloned, Disposed, NextConfig, cacheVars,
                        Parse, Typed, Phases
  <2>2. CASE AddOwnerLoad(s) \/ AddOwner(s) \/ Dispose(s) \/ ReleaseLoad(s) \/ Release(s)
    <3>0. Typed
      BY DEF Parse
    <3>1. work[s].files # {} => NextOf(s) \in Files
      <4>1. work[s].files \in SUBSET Files
        BY DEF Parse, Typed
      <4> QED
        BY <4>1, NodesAssumption DEF NextOf
    <3>2. CASE AddOwnerLoad(s) \/ ReleaseLoad(s)
      BY <3>1, <3>2 DEF AddOwnerLoad, ReleaseLoad, cacheVars, Parse, Typed, Phases
    <3>3. CASE Dispose(s)
      BY <3>3 DEF Dispose, cacheVars, Parse, Typed, Phases
    <3>5. CASE AddOwner(s)
      <4>1. found[s] \in Objs
        BY <3>5 DEF AddOwner, CanLock, Parse, Typed
      <4>2. owners' = [owners EXCEPT ![found[s]] = owners[found[s]] \union {s}]
        BY <3>5 DEF AddOwner
      <4> QED
        BY <3>0, <3>5, <4>1, <4>2 DEF AddOwner, Typed
    <3>4. CASE Release(s)
      <4>1. NextOf(s) \in Files
        BY <3>1, <3>4 DEF Release, CanLock, Parse, Snap
      <4>2. /\ phase' = phase /\ found' = [found EXCEPT ![s] = Nil]
            /\ owners' = [owners EXCEPT ![found[s]] = owners[found[s]] \ {s}]
        BY <3>4 DEF Release
      <4>3. /\ entry' = entry \/ entry' = [entry EXCEPT ![NextOf(s)] = Nil]
            /\ struck' \in {struck, struck \union {NextOf(s)}}
        BY <3>4 DEF Release, DeleteKey
      <4>4. entry' \in [Files -> Objs \union {Nil}] /\ struck' \subseteq Files
        BY <3>0, <4>1, <4>3 DEF Typed
      <4>5. owners' \in [Objs -> SUBSET Snapshots]
        BY <3>0, <4>2 DEF Typed
      <4> QED
        BY <3>0, <4>2, <4>4, <4>5 DEF Typed
    <3> QED
      BY <2>2, <3>2, <3>3, <3>4, <3>5
  <2> QED
    BY <2>1, <2>2
<1>3. /\ work' \in [Snapshots -> [configs : SUBSET Configs, files : SUBSET Files]]
      /\ \A t \in Snapshots : t # s => work'[t] = work[t]
  <2>1. \A c \in Configs : ExtendedSourceFiles(c) \in SUBSET Files
    BY DEF ExtendedSourceFiles
  <2>2. /\ work[s] \in [configs : SUBSET Configs, files : SUBSET Files]
        /\ registry[s] \in SUBSET Configs
    BY DEF Parse, Typed
  <2>3. \E w \in [configs : SUBSET Configs, files : SUBSET Files] : work' = [work EXCEPT ![s] = w]
    <3>1. CASE LoadExisting(s) \/ LockDead(s) \/ Cloned(s) \/ Disposed(s) \/ AddOwnerLoad(s)
      <4>1. work' = [work EXCEPT ![s] = work[s]]
        BY <3>1 DEF LoadExisting, LockDead, Cloned, Disposed, AddOwnerLoad, Parse, Typed
      <4> QED
        BY <2>2, <4>1
    <3>2. CASE Finalize(s) \/ Dispose(s)
      BY <2>2, <3>2 DEF Finalize, Dispose, Loop
    <3>3. CASE \E c \in Configs : NextConfig(s, c)
      <4>1. PICK c \in Configs : NextConfig(s, c)
        BY <3>3
      <4>2. work' = [work EXCEPT ![s] = [configs |-> work[s].configs \ {c},
                                         files |-> ExtendedSourceFiles(c)]]
        BY <4>1 DEF NextConfig
      <4> QED
        BY <2>1, <2>2, <4>2
    <3>4. CASE AddOwner(s) \/ ReleaseLoad(s) \/ Release(s)
      <4>1. Finished(s) = [work EXCEPT ![s] = [configs |-> work[s].configs,
                                               files |-> work[s].files \ {NextOf(s)}]]
        BY <2>2 DEF Finished
      <4>2. work = [work EXCEPT ![s] = work[s]]
        BY DEF Parse, Typed
      <4> QED
        BY <2>2, <3>4, <4>1, <4>2 DEF AddOwner, ReleaseLoad, Release
    <3> QED
      BY <3>1, <3>2, <3>3, <3>4
  <2> QED
    BY <2>3 DEF Parse, Typed
<1>4. Typed'
  BY <1>1, <1>2, <1>3 DEF Parse, Typed, snapVars
<1>5. /\ stack[s] # <<>> => phase'[s] = "parsing"
      /\ phase'[s] \in {"owning", "live"} => todo[s] = {}
      /\ phase'[s] \in {"parsing", "owning", "live"} => phase[s] \in {"parsing", "owning", "live"}
      /\ found'[s] # Nil => /\ phase'[s] \in {"parsing", "owning", "releasing"}
                            /\ phase'[s] = "parsing" => stack[s] # <<>> /\ HasNext(s)
                            /\ phase'[s] # "parsing" => work'[s].files # {}
  <2>1. Snap(s) /\ phase \in [Snapshots -> Phases] /\ found \in [Snapshots -> Objs \union {Nil}]
    BY DEF Parse, Typed
  <2>2. CASE LoadExisting(s) \/ LockDead(s) \/ Finalize(s)
    BY <2>1, <2>2 DEF LoadExisting, LockDead, Finalize, Snap, Parsing
  <2>3. CASE Cloned(s) \/ Disposed(s) \/ \E c \in Configs : NextConfig(s, c)
    BY <2>1, <2>3 DEF Cloned, Disposed, AtEnd, Loop, NextConfig, Snap
  <2>4. CASE AddOwnerLoad(s) \/ AddOwner(s) \/ Dispose(s) \/ ReleaseLoad(s) \/ Release(s)
    BY <2>1, <2>4 DEF AddOwnerLoad, AddOwner, Dispose, ReleaseLoad, Release, Snap
  <2> QED
    BY <2>2, <2>3, <2>4
<1>6. Snap(s)'
  <2>1. \A m : Seen(s, m)' = Seen(s, m)
    BY <1>1 DEF Seen, snapVars
  <2>2. FramesOK(s, stack[s])'
    BY <1>1, <2>1 DEF FramesOK, FrameOK, ReadBy, Parse, Snap, snapVars
  <2>3. HasNext(s)' <=> HasNext(s)
    BY <1>1 DEF HasNext, Top
  <2> QED
    BY <1>1, <1>5, <2>1, <2>2, <2>3 DEF Snap, Parse, snapVars
<1>7. \A t \in Snapshots : t # s => Mine(t)' = Mine(t)
  BY <1>1, <1>2, <1>3 DEF Mine, snapVars
<1> QED
  BY <1>1, <1>4, <1>6, <1>7, ParseStep DEF Parse

\* The parser starts with a config.
LEMMA ParseConfigStep ==
  ASSUME Parse, NEW s \in Snapshots, NEW c \in Configs, ParseConfig(s, c)
  PROVE  Parse'
<1>1. /\ phase[s] = "parsing" /\ stack[s] = <<>> /\ c \in todo[s]
      /\ stack' = [stack EXCEPT ![s] = <<Frame(s, c, Nil)>>]
      /\ UNCHANGED <<entry, owners, mu, value, hash, struck, snapVars, phase, parsed, todo,
                     work, found>>
  BY DEF ParseConfig, cacheVars
<1>2. c \in Nodes /\ Len(Extends[c]) \in Nat
  BY DirectFiles DEF Nodes
<1>3. Frame(s, c, Nil) = [node |-> c, obj |-> Nil, applied |-> 0, read |-> {}]
  BY DEF Frame
<1>4. Frame(s, c, Nil) \in Frames
  BY <1>2, <1>3 DEF Frames, FileVersions
<1>5. ReadBy(s, c, 0) = {}
  BY DEF ReadBy
<1> DEFINE new == <<Frame(s, c, Nil)>>
<1>6. new \in Seq(Frames) /\ Len(new) = 1 /\ new[1] = Frame(s, c, Nil) /\ new # <<>>
  BY <1>4
<1>7. FramesOK(s, new)
  <2>1. new[1] = [node |-> c, obj |-> Nil, applied |-> 0, read |-> ReadBy(s, c, 0)]
    BY <1>3, <1>5, <1>6
  <2>2. 0 <= Len(Extends[c]) /\ ~(1 < Len(new))
    BY <1>2, <1>6
  <2> HIDE DEF new
  <2>3. FrameOK(s, new, 1)
    BY <2>1, <2>2 DEF FrameOK
  <2>4. 1 .. Len(new) = {1}
    BY <1>6
  <2> QED
    BY <2>3, <2>4 DEF FramesOK
<1>13. new[1].node \in todo[s]
  BY <1>1, <1>3, <1>6
<1> HIDE DEF new
<1>8. stack'[s] = new /\ stack' = [stack EXCEPT ![s] = new]
  BY <1>1 DEF Parse, Typed, new
<1>9. found'[s] = Nil
  BY <1>1 DEF Parse, Snap
<1>10. Snap(s)'
  BY <1>1, <1>6, <1>7, <1>8, <1>9, <1>13, StackSnap DEF snapVars
<1>11. Typed'
  BY <1>1, <1>6, <1>8 DEF Parse, Typed, snapVars
<1>12. \A t \in Snapshots : t # s => Mine(t)' = Mine(t)
  BY <1>1, <1>8 DEF Mine, Parse, Typed, snapVars
<1> QED
  BY <1>1, <1>10, <1>11, <1>12, ParseStep DEF Parse

\* It starts with a file, in a new entry or in place of a value that has expired.
LEMMA PushStep ==
  ASSUME Parse, NEW s \in Snapshots, LoadNew(s) \/ LockExpired(s)
  PROVE  Parse'
<1>1. stack[s] # <<>> /\ HasNext(s) /\ phase[s] = "parsing"
  BY DEF LoadNew, LockExpired, CanLock, Parsing, Parse, Snap
<1>2. PICK e \in Objs : /\ stack' = [stack EXCEPT ![s] = Append(stack[s], Frame(s, NextFile(s), e))]
                        /\ mu' = [mu EXCEPT ![e] = s]
                        /\ \/ entry' = [entry EXCEPT ![NextFile(s)] = e]
                           \/ entry' = entry
                        /\ \/ /\ owners' = [owners EXCEPT ![e] = {}]
                              /\ value' = [value EXCEPT ![e] = {}]
                              /\ hash' = [hash EXCEPT ![e] = {}]
                           \/ UNCHANGED <<owners, value, hash>>
  BY DEF LoadNew, LockExpired, CanLock, Parse, Typed
<1>3. /\ UNCHANGED <<struck, snapVars, phase, parsed, todo, work>>
      /\ found'[s] = Nil /\ found' \in [Snapshots -> Objs \union {Nil}]
      /\ \A t \in Snapshots : t # s => found'[t] = found[t]
  BY DEF LoadNew, LockExpired, Parsing, Parse, Typed
<1> DEFINE new == Append(stack[s], Frame(s, NextFile(s), e))
<1>4. NextFile(s) \in Files
  BY <1>1, TopIs, NextFileIs DEF HasNext, NextFile
<1>5. new \in Seq(Frames) /\ new # <<>> /\ FramesOK(s, new) /\ new[1].node = stack[s][1].node
  BY <1>1, PushFrame
<1> HIDE DEF new
<1>6. stack'[s] = new /\ stack' = [stack EXCEPT ![s] = new]
  BY <1>2 DEF Parse, Typed, new
<1>7. stack[s][1].node \in todo[s]
  BY <1>1, TopIs
<1>8. Snap(s)'
  BY <1>1, <1>3, <1>5, <1>6, <1>7, StackSnap DEF snapVars
<1>9. Typed'
  <2>1. {} \in FileVersions
    BY DEF FileVersions
  <2>2. entry' \in [Files -> Objs \union {Nil}] /\ mu' \in [Objs -> Snapshots \union {Nil}]
    BY <1>2, <1>4, ZenonT(60) DEF Parse, Typed
  <2>3. /\ owners' \in [Objs -> SUBSET Snapshots]
        /\ value' \in [Objs -> FileVersions] /\ hash' \in [Objs -> FileVersions]
    <3>1. CASE UNCHANGED <<owners, value, hash>>
      BY <3>1 DEF Parse, Typed
    <3>2. CASE /\ owners' = [owners EXCEPT ![e] = {}] /\ value' = [value EXCEPT ![e] = {}]
               /\ hash' = [hash EXCEPT ![e] = {}]
      BY <2>1, <3>2 DEF Parse, Typed
    <3> QED
      BY <1>2, <3>1, <3>2
  <2>4. stack' \in [Snapshots -> Seq(Frames)]
    BY <1>5, <1>6 DEF Parse, Typed
  <2> QED
    BY <1>3, <2>2, <2>3, <2>4 DEF Parse, Typed, snapVars
<1>10. value' = hash'
  BY <1>2 DEF Parse
<1>11. \A t \in Snapshots : t # s => Mine(t)' = Mine(t)
  BY <1>3, <1>6 DEF Mine, Parse, Typed, snapVars
<1> QED
  BY <1>8, <1>9, <1>10, <1>11, ParseStep

\* The innermost frame applies a value that is in the cache.
LEMMA LockLiveStep ==
  ASSUME Parse, NEW s \in Snapshots, LockLive(s)
  PROVE  Parse'
<1>1. stack[s] # <<>> /\ HasNext(s) /\ phase[s] = "parsing" /\ found[s] \in Objs
  BY DEF LockLive, CanLock, Parse, Snap, Typed
<1>2. value[found[s]] = Seen(s, NextFile(s))
  BY SMTT(30) DEF LockLive, isExpired, Parse
<1> DEFINE r == value[found[s]]
           new == Applied(stack[s], r)
<1>3. new \in Seq(Frames) /\ new # <<>> /\ FramesOK(s, new) /\ new[1].node = stack[s][1].node
  <2>1. stack[s] \in Seq(Frames) /\ Len(stack[s]) > 0 /\ Len(stack[s]) <= Len(stack[s])
    BY <1>1, TopIs
  <2>2. /\ Top(s) = stack[s][Len(stack[s])] /\ Top(s).applied < Len(Extends[Top(s).node])
        /\ r = Seen(s, Extends[Top(s).node][Top(s).applied + 1])
    BY <1>1, <1>2 DEF Top, HasNext, NextFile
  <2> HIDE DEF r
  <2> QED
    BY <1>1, <2>1, <2>2, ApplyNext
<1>4. /\ stack' = [stack EXCEPT ![s] = new]
      /\ owners' = [owners EXCEPT ![found[s]] = owners[found[s]] \union {s}]
      /\ found' = [found EXCEPT ![s] = Nil]
      /\ UNCHANGED <<entry, mu, value, hash, struck, snapVars, phase, parsed, todo, work>>
  BY DEF LockLive
<1> HIDE DEF new
<1>5. stack'[s] = new /\ found'[s] = Nil
  BY <1>4 DEF Parse, Typed
<1>6. stack[s][1].node \in todo[s]
  BY <1>1, TopIs
<1>7. Snap(s)'
  BY <1>1, <1>3, <1>4, <1>5, <1>6, StackSnap DEF snapVars
<1>8. Typed'
  BY <1>1, <1>3, <1>4 DEF Parse, Typed, snapVars
<1>9. \A t \in Snapshots : t # s => Mine(t)' = Mine(t)
  BY <1>4 DEF Mine, Parse, Typed, snapVars
<1> QED
  BY <1>4, <1>7, <1>8, <1>9, ParseStep DEF Parse

\* A file is parsed: its frame has read all that the snapshot sees of it.
LEMMA ParsedIs ==
  ASSUME Parse, NEW s \in Snapshots, stack[s] # <<>>, ~HasNext(s)
  PROVE  Top(s).read = Seen(s, Top(s).node) /\ Top(s).node \in Nodes
<1>1. Top(s) \in Frames /\ FrameOK(s, stack[s], Len(stack[s]))
  BY TopIs
<1>2. Top(s).node \in Nodes /\ Top(s).applied \in Nat
  BY <1>1 DEF Frames
<1>3. Len(Extends[Top(s).node]) \in Nat
  BY <1>2, DirectFiles
<1>4. Top(s).applied = Len(Extends[Top(s).node])
  BY <1>1, <1>2, <1>3 DEF HasNext, FrameOK, Top
<1> QED
  BY <1>1, <1>2, <1>4, ReadAll DEF FrameOK, Top

LEMMA ParsedFileStep ==
  ASSUME Parse, NEW s \in Snapshots, ParsedFile(s)
  PROVE  Parse'
<1>1. stack[s] # <<>> /\ ~HasNext(s) /\ phase[s] = "parsing" /\ Len(stack[s]) > 1 /\ found[s] = Nil
  BY DEF ParsedFile, Parsing
<1> DEFINE len == Len(stack[s])
           t == Top(s)
           new == Applied(Front(stack[s]), t.read)
<1>2. t.read = Seen(s, t.node) /\ t.node \in Nodes /\ t.read \in FileVersions
  BY <1>1, ParsedIs, SeenTyped DEF Parse, Typed
<1>3. stack[s] \in Seq(Frames) /\ len - 1 \in 1 .. len /\ len - 1 > 0 /\ len \in 1 .. len
  BY <1>1, TopIs
<1>4. /\ FrameOK(s, stack[s], len - 1) /\ FrameOK(s, stack[s], len)
      /\ len - 1 < len /\ len # 1 /\ (len - 1) + 1 = len
  <2>1. FramesOK(s, stack[s]) /\ len \in Nat
    BY <1>1, TopIs
  <2>2. FrameOK(s, stack[s], len - 1) /\ FrameOK(s, stack[s], len)
    BY <1>3, <2>1 DEF FramesOK
  <2>3. \A m \in Nat : m > 1 => m - 1 < m /\ m # 1 /\ (m - 1) + 1 = m
    OBVIOUS
  <2> HIDE DEF len
  <2>4. len > 1
    BY <1>1 DEF len
  <2> QED
    BY <2>1, <2>2, <2>3, <2>4
<1>5. /\ stack[s][len - 1].applied < Len(Extends[stack[s][len - 1].node])
      /\ t.node = Extends[stack[s][len - 1].node][stack[s][len - 1].applied + 1]
      /\ t.obj \in Objs
  BY <1>4, SMTT(30) DEF FrameOK, Top
<1>6. /\ Front(stack[s]) \in Seq(Frames) /\ Len(Front(stack[s])) = len - 1
      /\ \A i \in 1 .. len - 1 : Front(stack[s])[i] = stack[s][i]
  BY <1>1, <1>3, FrontFrames
<1>7. new \in Seq(Frames) /\ new # <<>> /\ FramesOK(s, new) /\ new[1].node = stack[s][1].node
  <2> DEFINE fk == Front(stack[s])
             p == fk[Len(fk)]
             r == t.read
  <2>1. p = stack[s][len - 1] /\ Len(fk) > 0 /\ Len(fk) <= len
    BY <1>3, <1>6
  <2>2. /\ r = Seen(s, Extends[p.node][p.applied + 1]) /\ p.applied < Len(Extends[p.node])
        /\ new = Applied(fk, r) /\ \A i \in 1 .. Len(fk) : fk[i] = stack[s][i]
        /\ fk \in Seq(Frames) /\ p = fk[Len(fk)]
    <3>1. r = Seen(s, Extends[p.node][p.applied + 1]) /\ p.applied < Len(Extends[p.node])
      BY <1>2, <1>5, <2>1
    <3>2. fk \in Seq(Frames) /\ \A i \in 1 .. Len(fk) : fk[i] = stack[s][i]
      BY <1>6
    <3>3. new = Applied(fk, r) /\ p = fk[Len(fk)]
      OBVIOUS
    <3> QED
      BY <3>1, <3>2, <3>3
  <2> HIDE DEF fk, p, r, new
  <2> QED
    BY <1>1, <2>1, <2>2, ApplyNext, SMTT(30)
<1>8. /\ value' = [value EXCEPT ![t.obj] = t.read]
      /\ hash' = [hash EXCEPT ![t.obj] = Seen(s, t.node)]
      /\ owners' = [owners EXCEPT ![t.obj] = owners[t.obj] \union {s}]
      /\ mu' = [mu EXCEPT ![t.obj] = Nil]
      /\ stack' = [stack EXCEPT ![s] = new]
      /\ UNCHANGED <<entry, struck, snapVars, phase, parsed, todo, work, found>>
  BY DEF ParsedFile
<1> HIDE DEF new, t
<1>9. stack'[s] = new /\ found'[s] = Nil
  BY <1>1, <1>8 DEF Parse, Typed
<1>10. stack[s][1].node \in todo[s]
  BY <1>1, TopIs
<1>11. Snap(s)'
  BY <1>1, <1>7, <1>8, <1>9, <1>10, StackSnap DEF snapVars
<1>12. Typed'
  <2>1. value' \in [Objs -> FileVersions] /\ hash' \in [Objs -> FileVersions]
    BY <1>2, <1>8 DEF Parse, Typed
  <2>2. owners' \in [Objs -> SUBSET Snapshots] /\ mu' \in [Objs -> Snapshots \union {Nil}]
    BY <1>5, <1>8 DEF Parse, Typed
  <2>3. stack' \in [Snapshots -> Seq(Frames)]
    BY <1>7, <1>8 DEF Parse, Typed
  <2> QED
    BY <1>8, <2>1, <2>2, <2>3 DEF Parse, Typed, snapVars
<1>13. value' = hash'
  BY <1>2, <1>8 DEF Parse
<1>14. \A q \in Snapshots : q # s => Mine(q)' = Mine(q)
  BY <1>8 DEF Mine, Parse, Typed, snapVars
<1> QED
  BY <1>11, <1>12, <1>13, <1>14, ParseStep

\* A config is parsed.
LEMMA ParsedConfigStep ==
  ASSUME Parse, NEW s \in Snapshots, ParsedConfig(s)
  PROVE  Parse'
<1>1. /\ stack[s] # <<>> /\ ~HasNext(s) /\ phase[s] = "parsing" /\ Len(stack[s]) = 1
      /\ found[s] = Nil
  BY DEF ParsedConfig, Parsing
<1> DEFINE c == Top(s).node
           new == IF c \in registry[s] THEN [parsed[s] EXCEPT ![c] = Top(s).read] ELSE parsed[s]
<1>2. Top(s).read = Seen(s, c) /\ c \in Nodes /\ Seen(s, c) \in FileVersions
  BY <1>1, ParsedIs, SeenTyped DEF Parse, Typed
<1>3. c \in todo[s] /\ c \in Configs
  BY <1>1, TopIs DEF Top, Parse, Typed
<1>4. /\ parsed' = [parsed EXCEPT ![s] = new]
      /\ todo' = [todo EXCEPT ![s] = todo[s] \ {c}] /\ stack' = [stack EXCEPT ![s] = <<>>]
      /\ UNCHANGED <<cacheVars, snapVars, phase, work, found>>
  BY DEF ParsedConfig, Parse, Typed
<1>5. /\ new \in [Configs -> FileVersions] /\ (c \in registry[s] => new[c] = Seen(s, c))
      /\ \A d \in Configs : d # c => new[d] = parsed[s][d]
  BY <1>2, <1>3 DEF Parse, Typed
<1> HIDE DEF c, new
<1>6. Typed'
  <2>1. <<>> \in Seq(Frames)
    OBVIOUS
  <2> QED
    BY <1>4, <1>5, <2>1 DEF Parse, Typed, cacheVars, snapVars
<1>7. Snap(s)'
  <2>1. \A m : Seen(s, m)' = Seen(s, m)
    BY <1>4 DEF Seen, snapVars
  <2>2. /\ stack'[s] = <<>> /\ found'[s] = Nil /\ phase'[s] = "parsing" /\ parsed'[s] = new
        /\ todo'[s] = todo[s] \ {c} /\ registry'[s] = registry[s]
        /\ pendingReload'[s] = pendingReload[s]
    BY <1>1, <1>4 DEF Parse, Typed, snapVars
  <2>3. Snap(s) /\ registry[s] \subseteq Configs
    BY DEF Parse, Typed
  <2>4. \A d \in registry'[s] \ (todo'[s] \union pendingReload'[s]) : parsed'[s][d] = Seen(s, d)'
    BY <1>1, <1>5, <2>1, <2>2, <2>3 DEF Snap
  <2> QED
    BY <2>2, <2>4 DEF Snap, FramesOK
<1>8. \A t \in Snapshots : t # s => Mine(t)' = Mine(t)
  BY <1>4 DEF Mine, Parse, Typed, snapVars
<1> QED
  BY <1>4, <1>6, <1>7, <1>8, ParseStep DEF Parse, cacheVars

\* Every step keeps it.
LEMMA NextParse == Parse /\ [Next]_vars => Parse'
<1> SUFFICES ASSUME Parse, [Next]_vars PROVE Parse'
  OBVIOUS
<1>1. CASE UNCHANGED vars
  <2>1. \A t \in Snapshots : Mine(t)' = Mine(t)
    BY <1>1 DEF vars, cacheVars, snapVars, Mine
  <2> QED
    BY <1>1, <2>1, SameSnap DEF vars, cacheVars, snapVars, Parse, Typed
<1>2. ASSUME NEW s \in Snapshots, NEW p \in Snapshots, NEW d \in session.contents,
             NEW R \in SUBSET session.configs, NEW P \in SUBSET session.configs,
             Clone(s, p, d, R, P)
      PROVE  Parse'
  BY <1>2, CloneParse
<1>3. ASSUME NEW s \in Snapshots, CloneStep(s) PROVE Parse'
  BY <1>3, PhaseStep, ParseConfigStep, PushStep, LockLiveStep, ParsedFileStep, ParsedConfigStep
     DEF CloneStep
<1>4. ASSUME NEW s \in Snapshots, Dispose(s) \/ DisposeStep(s) PROVE Parse'
  BY <1>4, PhaseStep DEF DisposeStep
<1> QED
  BY <1>1, <1>2, <1>3, <1>4 DEF Next, Quiet

\* Every behaviour keeps it.
LEMMA ParseAlways == Spec => []Parse
BY InitParse, NextParse, PTL DEF Spec

\* A snapshot's configs are made from the contents that the snapshot sees: a value is taken
\* from the cache only if its hash is what the snapshot sees of the file and of all it
\* extends, and a frame of the parser that has applied every file has read just that.
THEOREM ConfigsFresh == Spec => []FreshConfigs
<1>1. Parse => FreshConfigs
  BY DEF Parse, Snap, FreshConfigs
<1> QED
  BY <1>1, ParseAlways, PTL

------------------------------------------------------------------------------
(* Who owns what is in the map *)

\* The files that s has still to own, or to release, and those it has done with.
Remaining(s) == work[s].files \union FilesOf(work[s].configs)

Done(s) ==
    IF phase[s] \in {"owning", "releasing"} THEN FilesOf(registry[s]) \ Remaining(s)
    ELSE IF phase[s] \in {"live", "gone"} THEN FilesOf(registry[s]) ELSE {}

OwnerOf(s, f) == entry[f] # Nil /\ s \in owners[entry[f]]

\* The file whose entry s has looked up.
Key(s) == IF phase[s] = "parsing" THEN NextFile(s) ELSE NextOf(s)

\* Every entry has been made for one file, its name, under which it is found, parsed and in
\* the map.  With an owner it is there, unless it has been struck.
NamedCache(name) ==
    /\ \A f \in Files : entry[f] # Nil => name[entry[f]] = f
    /\ \A e \in Objs : owners[e] # {} =>
         (name[e] \in Files /\ entry[name[e]] = e) \/ name[e] \in struck

NamedBy(name, s) ==
    /\ found[s] # Nil => name[found[s]] = Key(s)
    /\ \A i \in 2 .. Len(stack[s]) : name[stack[s][i].obj] = stack[s][i].node

Named(name) == NamedCache(name) /\ \A s \in Snapshots : NamedBy(name, s)

\* The parser has its entries locked, each once, and so nobody else takes them out of the map.
LockedBy(s) ==
    /\ \A i \in 2 .. Len(stack[s]) :
         /\ mu[stack[s][i].obj] = s
         /\ entry[stack[s][i].node] = stack[s][i].obj \/ stack[s][i].node \in struck
    /\ \A i, j \in 2 .. Len(stack[s]) : stack[s][i].obj = stack[s][j].obj => i = j

\* s owns the files it has done with while it is built and lives, and none of them later;
\* if the entry that it has found to release is not in the map, it does not own the one that is.
Owns(s) ==
    /\ phase[s] \in {"owning", "live"} => \A f \in Done(s) : f \in struck \/ OwnerOf(s, f)
    /\ phase[s] \in {"releasing", "gone"} => \A f \in Done(s) : ~OwnerOf(s, f)
    /\ phase[s] = "releasing" /\ found[s] # Nil =>
         entry[NextOf(s)] = found[s] \/ ~OwnerOf(s, NextOf(s))

IInv ==
    /\ Parse
    /\ \E name \in [Objs -> Files \union {Nil}] : Named(name)
    /\ \A s \in Snapshots : LockedBy(s) /\ Owns(s)

\* Nobody owns anything at first.
LEMMA InitIInv == Init => IInv
<1> SUFFICES ASSUME Init PROVE IInv
  OBVIOUS
<1>1. Parse
  BY InitParse
<1>2. \E name \in [Objs -> Files \union {Nil}] : Named(name)
  <2> DEFINE name == [e \in Objs |-> Nil]
  <2>1. NamedCache(name)
    BY DEF Init, NamedCache
  <2>2. ASSUME NEW s \in Snapshots PROVE NamedBy(name, s)
    BY DEF Init, NamedBy
  <2> HIDE DEF name
  <2>3. Named(name)
    BY <2>1, <2>2 DEF Named
  <2>4. name \in [Objs -> Files \union {Nil}]
    BY DEF name
  <2> QED
    BY <2>3, <2>4
<1>3. ASSUME NEW s \in Snapshots PROVE LockedBy(s) /\ Owns(s)
  <2>1. stack[s] = <<>> /\ registry[s] = {} /\ found[s] = Nil /\ phase[s] \in {"live", "none"}
    BY DEF Init
  <2>2. FilesOf({}) = {}
    BY DEF FilesOf
  <2>3. Done(s) = {}
    BY <2>1, <2>2 DEF Done
  <2> QED
    BY <2>1, <2>3 DEF LockedBy, Owns
<1> QED
  BY <1>1, <1>2, <1>3 DEF IInv

\* The file at which a loop is.
LEMMA NextOfIs ==
  ASSUME Parse, NEW s \in Snapshots, work[s].files # {}
  PROVE  NextOf(s) \in work[s].files /\ NextOf(s) \in Files
<1>1. work[s].files \in SUBSET Files
  BY DEF Parse, Typed
<1> QED
  BY <1>1, NodesAssumption DEF NextOf

\* When it is finished, all others still remain.
LEMMA FinishedIs ==
  ASSUME Parse, NEW s \in Snapshots, work' = Finished(s)
  PROVE  /\ \A t \in Snapshots : t # s => work'[t] = work[t]
         /\ Remaining(s) \subseteq Remaining(s)' \union {NextOf(s)}
<1>1. /\ \A t \in Snapshots : t # s => work'[t] = work[t]
      /\ work'[s] = [configs |-> work[s].configs, files |-> work[s].files \ {NextOf(s)}]
  BY DEF Finished, Parse, Typed
<1> QED
  BY <1>1 DEF Remaining

\* What is said of t depends on t's part of the state.
LEMMA SameMine ==
  ASSUME NEW t \in Snapshots, Mine(t)' = Mine(t)
  PROVE  /\ phase'[t] = phase[t] /\ stack'[t] = stack[t] /\ found'[t] = found[t]
         /\ Done(t)' = Done(t) /\ NextOf(t)' = NextOf(t) /\ Key(t)' = Key(t)
<1>1. /\ phase'[t] = phase[t] /\ registry'[t] = registry[t] /\ stack'[t] = stack[t]
      /\ work'[t] = work[t] /\ found'[t] = found[t]
  BY DEF Mine
<1>2. Remaining(t)' = Remaining(t)
  BY <1>1 DEF Remaining
<1>3. NextOf(t)' = NextOf(t) /\ NextFile(t)' = NextFile(t)
  BY <1>1 DEF NextOf, NextFile, Top
<1> QED
  BY <1>1, <1>2, <1>3 DEF Done, Key

\* Names that stay are names still.
LEMMA SameNamed ==
  ASSUME NEW name, NEW new, NEW t \in Snapshots, NamedBy(name, t), Mine(t)' = Mine(t),
         found[t] # Nil => new[found[t]] = name[found[t]],
         \A i \in 2 .. Len(stack[t]) : new[stack[t][i].obj] = name[stack[t][i].obj]
  PROVE  NamedBy(new, t)'
BY SameMine DEF NamedBy

\* What a snapshot has done with are files.
LEMMA DoneFiles ==
  ASSUME NEW t \in Snapshots
  PROVE  Done(t) \subseteq Files
BY DEF Done, FilesOf, ExtendedSourceFiles

\* The parser's entries, and those it has locked.
LEMMA FrameIs ==
  ASSUME Parse, NEW s \in Snapshots, NEW i \in 2 .. Len(stack[s])
  PROVE  /\ stack[s][i].node \in Files /\ stack[s][i].obj \in Objs
         /\ i \in 1 .. Len(stack[s]) /\ i \in DOMAIN stack[s]
<1>1. /\ i \in 1 .. Len(stack[s]) /\ i # 1 /\ FramesOK(s, stack[s])
      /\ DOMAIN stack[s] = 1 .. Len(stack[s])
  BY DEF Parse, Typed, Snap
<1> QED
  BY <1>1 DEF FramesOK, FrameOK

Holding(s) == {stack[s][i].obj : i \in 2 .. Len(stack[s])}

\* Steps of others leave what t has said about its files, and what it has locked, true: they
\* take an entry of t's only out of the map by striking it, and bring in entries that t
\* does not own.
LEMMA OthersHold ==
  ASSUME IInv, NEW t \in Snapshots, Mine(t)' = Mine(t), struck \subseteq struck',
         \A f \in Files :
           /\ \/ entry'[f] = entry[f] \/ entry[f] = Nil \/ f \in struck'
              \/ entry'[f] = Nil /\ t \notin owners[entry[f]] /\ mu[entry[f]] # t
           /\ entry'[f] \in {entry[f], Nil} \/ t \notin owners'[entry'[f]]
           /\ entry[f] # Nil => (t \in owners'[entry[f]] <=> t \in owners[entry[f]]),
         \A e \in Objs : mu[e] = t /\ e \in Holding(t) => mu'[e] = t
  PROVE  LockedBy(t)' /\ Owns(t)'
<1>1. LockedBy(t) /\ Owns(t) /\ Parse /\ Snap(t)
  BY DEF IInv, Parse
<1>2. LockedBy(t)'
  <2>1. ASSUME NEW i \in 2 .. Len(stack[t])
        PROVE  /\ mu'[stack[t][i].obj] = t
               /\ entry'[stack[t][i].node] = stack[t][i].obj \/ stack[t][i].node \in struck'
    <3>1. /\ mu[stack[t][i].obj] = t
          /\ entry[stack[t][i].node] = stack[t][i].obj \/ stack[t][i].node \in struck
      BY <1>1 DEF LockedBy
    <3>2. stack[t][i].node \in Files /\ stack[t][i].obj \in Objs /\ stack[t][i].obj # Nil
      BY <1>1, FrameIs, NodesAssumption
    <3>3. stack[t][i].obj \in Holding(t)
      BY DEF Holding
    <3> QED
      BY <3>1, <3>2, <3>3
  <2> QED
    BY <1>1, <2>1, SameMine DEF LockedBy
<1>3. ASSUME NEW f \in Files, f \in struck \/ OwnerOf(t, f) PROVE f \in struck' \/ OwnerOf(t, f)'
  BY <1>3 DEF OwnerOf
<1>4. ASSUME NEW f \in Files, ~OwnerOf(t, f) PROVE ~OwnerOf(t, f)'
  BY <1>4 DEF OwnerOf
<1>5. ASSUME phase[t] = "releasing", found[t] # Nil
      PROVE  entry'[NextOf(t)] = found[t] \/ ~OwnerOf(t, NextOf(t))'
  <2>1. NextOf(t) \in Files
    BY <1>1, <1>5, NextOfIs DEF Snap
  <2>2. NextOf(t)' = NextOf(t)
    BY SameMine
  <2>3. entry[NextOf(t)] = found[t] \/ ~OwnerOf(t, NextOf(t))
    BY <1>1, <1>5 DEF Owns
  <2>4. CASE ~OwnerOf(t, NextOf(t))
    BY <1>4, <2>1, <2>2, <2>4 DEF OwnerOf
  <2>5. CASE entry[NextOf(t)] = found[t]
    BY <2>1, <2>2, <2>5 DEF OwnerOf
  <2> QED
    BY <2>3, <2>4, <2>5
<1>6. \A f \in Done(t) : f \in Files
  BY DoneFiles
<1>7. Owns(t)'
  <2>1. /\ phase'[t] = phase[t] /\ found'[t] = found[t] /\ Done(t)' = Done(t)
        /\ NextOf(t)' = NextOf(t)
    BY SameMine
  <2> QED
    BY <1>1, <1>3, <1>4, <1>5, <1>6, <2>1 DEF Owns
<1> QED
  BY <1>2, <1>7

\* The cache is left alone, and s waits for nothing and parses nothing after the step.
LEMMA RestStep ==
  ASSUME IInv, NEW s \in Snapshots, Parse', UNCHANGED <<entry, owners, mu, struck>>,
         \A t \in Snapshots : t # s => Mine(t)' = Mine(t),
         found'[s] = Nil, stack'[s] = <<>>,
         phase'[s] \in {"owning", "live"} => \A f \in Done(s)' : f \in struck \/ OwnerOf(s, f),
         phase'[s] \in {"releasing", "gone"} => \A f \in Done(s)' : ~OwnerOf(s, f)
  PROVE  IInv'
<1>1. ASSUME NEW t \in Snapshots, t # s PROVE LockedBy(t)' /\ Owns(t)'
  BY <1>1, OthersHold DEF IInv
<1>2. LockedBy(s)'
  BY DEF LockedBy
<1>3. Owns(s)'
  BY DEF Owns, OwnerOf
<1>4. PICK name \in [Objs -> Files \union {Nil}] : Named(name)
  BY DEF IInv
<1>5. \A t \in Snapshots : NamedBy(name, t)'
  <2>1. NamedBy(name, s)'
    BY DEF NamedBy
  <2>2. ASSUME NEW t \in Snapshots, t # s PROVE NamedBy(name, t)'
    BY <1>4, <2>2, SameNamed DEF Named
  <2> QED
    BY <2>1, <2>2
<1>6. NamedCache(name)'
  BY <1>4 DEF Named, NamedCache
<1>7. Named(name)'
  BY <1>5, <1>6 DEF Named
<1> QED
  BY <1>1, <1>2, <1>3, <1>7 DEF IInv

\* A snapshot that waits for nothing and parses nothing.
LEMMA RestIs ==
  ASSUME Parse, NEW s \in Snapshots
  PROVE  /\ phase[s] # "parsing" => stack[s] = <<>>
         /\ phase[s] \notin {"parsing", "owning", "releasing"} => found[s] = Nil
         /\ phase[s] = "parsing" /\ stack[s] = <<>> => found[s] = Nil
         /\ phase[s] # "parsing" /\ work[s].files = {} => found[s] = Nil
BY DEF Parse, Snap

LEMMA CloneHeld ==
  ASSUME IInv, NEW s \in Snapshots, NEW p \in Snapshots, NEW d \in session.contents,
         NEW R \in SUBSET session.configs, NEW P \in SUBSET session.configs, Clone(s, p, d, R, P)
  PROVE  IInv'
<1>1. Parse /\ Parse'
  BY CloneParse DEF IInv
<1>2. /\ phase[s] = "none" /\ phase' = [phase EXCEPT ![s] = "parsing"]
      /\ disk' = [disk EXCEPT ![s] = d] /\ registry' = [registry EXCEPT ![s] = R]
      /\ todo' = [todo EXCEPT ![s] = P]
      /\ \E A : pendingReload' = [pendingReload EXCEPT ![s] = A]
      /\ \E B : parsed' = [parsed EXCEPT ![s] = B]
      /\ UNCHANGED <<entry, owners, mu, struck, stack, work, found>>
  BY DEF Clone, cacheVars
<1>3. \A t \in Snapshots : t # s => Mine(t)' = Mine(t)
  BY <1>1, <1>2 DEF Mine, Parse, Typed
<1>4. found'[s] = Nil /\ stack'[s] = <<>> /\ phase'[s] = "parsing"
  BY <1>1, <1>2, RestIs DEF Parse, Typed
<1> QED
  BY <1>1, <1>2, <1>3, <1>4, RestStep

\* A config is parsed.
LEMMA ParsedConfigHeld ==
  ASSUME IInv, NEW s \in Snapshots, ParsedConfig(s)
  PROVE  IInv'
<1>1. Parse /\ Parse'
  BY ParsedConfigStep DEF IInv
<1>2. /\ phase[s] = "parsing" /\ found[s] = Nil /\ stack' = [stack EXCEPT ![s] = <<>>]
      /\ todo' = [todo EXCEPT ![s] = todo[s] \ {Top(s).node}]
      /\ parsed' = parsed \/ parsed' = [parsed EXCEPT ![s][Top(s).node] = Top(s).read]
      /\ UNCHANGED <<entry, owners, mu, struck, disk, registry, pendingReload, phase, work, found>>
  BY DEF ParsedConfig, cacheVars, snapVars, Parsing
<1>3. \A t \in Snapshots : t # s => Mine(t)' = Mine(t)
  BY <1>1, <1>2 DEF Mine, Parse, Typed
<1>4. found'[s] = Nil /\ stack'[s] = <<>> /\ phase'[s] = "parsing"
  BY <1>1, <1>2 DEF Parse, Typed
<1> QED
  BY <1>1, <1>2, <1>3, <1>4, RestStep

\* Steps between two parts of a snapshot's life, and between two configs of a loop.
LEMMA TurnHeld ==
  ASSUME IInv, NEW s \in Snapshots,
         \/ Finalize(s) \/ Cloned(s) \/ Dispose(s) \/ Disposed(s)
         \/ \E c \in Configs : NextConfig(s, c)
  PROVE  IInv'
<1>1. Parse /\ Parse' /\ Owns(s)
  BY PhaseStep DEF IInv
<1>2. /\ UNCHANGED <<entry, owners, mu, struck, snapVars, parsed, todo, stack, found>>
      /\ \E q : phase' = [phase EXCEPT ![s] = q]
      /\ \E w : work' = [work EXCEPT ![s] = w]
  <2>1. CASE Finalize(s) \/ Dispose(s)
    BY <2>1 DEF Finalize, Dispose, cacheVars
  <2>2. CASE Cloned(s) \/ Disposed(s)
    <3>1. work' = [work EXCEPT ![s] = work[s]]
      BY <1>1, <2>2 DEF Cloned, Disposed, Parse, Typed
    <3> QED
      BY <2>2, <3>1 DEF Cloned, Disposed, cacheVars
  <2>3. CASE \E c \in Configs : NextConfig(s, c)
    <3>1. phase' = [phase EXCEPT ![s] = phase[s]]
      BY <1>1, <2>3 DEF NextConfig, Parse, Typed
    <3> QED
      BY <2>3, <3>1 DEF NextConfig, cacheVars
  <2> QED
    BY <2>1, <2>2, <2>3
<1>3. \A t \in Snapshots : t # s => Mine(t)' = Mine(t)
  BY <1>1, <1>2 DEF Mine, Parse, Typed, snapVars
<1>4. found'[s] = Nil /\ stack'[s] = <<>>
  <2>1. CASE Finalize(s) \/ Dispose(s)
    BY <1>1, <1>2, <2>1, RestIs DEF Finalize, Dispose
  <2>2. CASE Cloned(s) \/ Disposed(s)
    <3>1. work[s].files = {}
      BY <2>2 DEF Cloned, Disposed, AtEnd, Loop
    <3>2. phase[s] \in {"owning", "releasing"}
      BY <2>2 DEF Cloned, Disposed
    <3> QED
      BY <1>1, <1>2, <3>1, <3>2, RestIs
  <2>3. CASE \E c \in Configs : NextConfig(s, c)
    <3>1. work[s].files = {} /\ phase[s] \in {"owning", "releasing"}
      BY <2>3 DEF NextConfig
    <3> QED
      BY <1>1, <1>2, <3>1, RestIs
  <2> QED
    BY <2>1, <2>2, <2>3
<1>5. \/ Done(s)' = {}
      \/ /\ Done(s)' = Done(s)
         /\ phase'[s] \in {"owning", "live"} => phase[s] \in {"owning", "live"}
         /\ phase'[s] \in {"releasing", "gone"} => phase[s] \in {"releasing", "gone"}
  <2>1. registry'[s] = registry[s] /\ FilesOf({}) = {}
    BY <1>2 DEF FilesOf, snapVars
  <2>2. CASE Finalize(s) \/ Dispose(s)
    <3>1. work'[s] = [configs |-> registry[s], files |-> {}]
      BY <1>1, <2>2 DEF Finalize, Dispose, Loop, Parse, Typed
    <3>2. phase'[s] \in {"owning", "releasing"}
      BY <1>1, <2>2 DEF Finalize, Dispose, Parse, Typed
    <3>3. Remaining(s)' = FilesOf(registry[s])
      BY <3>1 DEF Remaining
    <3> QED
      BY <2>1, <3>2, <3>3 DEF Done
  <2>3. CASE Cloned(s) \/ Disposed(s)
    <3>1. Remaining(s) = {}
      BY <2>1, <2>3 DEF Cloned, Disposed, AtEnd, Loop, Remaining
    <3>2. \/ phase[s] = "owning" /\ phase'[s] = "live"
          \/ phase[s] = "releasing" /\ phase'[s] = "gone"
      BY <1>1, <2>3 DEF Cloned, Disposed, Parse, Typed
    <3> QED
      BY <2>1, <3>1, <3>2 DEF Done
  <2>4. CASE \E c \in Configs : NextConfig(s, c)
    <3>1. PICK c \in Configs : NextConfig(s, c)
      BY <2>4
    <3>2. /\ work'[s] = [configs |-> work[s].configs \ {c}, files |-> ExtendedSourceFiles(c)]
          /\ phase'[s] = phase[s] /\ work[s].files = {} /\ c \in work[s].configs
      BY <1>1, <3>1 DEF NextConfig, Parse, Typed
    <3>3. Remaining(s)' = Remaining(s)
      BY <3>2 DEF Remaining, FilesOf
    <3> QED
      BY <2>1, <3>2, <3>3 DEF Done
  <2> QED
    BY <2>2, <2>3, <2>4
<1>6. /\ phase'[s] \in {"owning", "live"} => \A f \in Done(s)' : f \in struck \/ OwnerOf(s, f)
      /\ phase'[s] \in {"releasing", "gone"} => \A f \in Done(s)' : ~OwnerOf(s, f)
  BY <1>1, <1>5 DEF Owns
<1> QED
  BY <1>1, <1>2, <1>3, <1>4, <1>6, RestStep

\* The file that the parser applies next.
LEMMA KeyIs ==
  ASSUME Parse, NEW s \in Snapshots, stack[s] # <<>>, HasNext(s)
  PROVE  NextFile(s) \in Files /\ Key(s) = NextFile(s) /\ Done(s) = {}
<1>1. phase[s] = "parsing"
  BY TopIs
<1>2. NextFile(s) \in Files
  BY TopIs, NextFileIs DEF HasNext, NextFile
<1> QED
  BY <1>1, <1>2 DEF Key, Done

\* Looking up an entry, and giving up one that was deleted.
LEMMA SearchHeld ==
  ASSUME IInv, NEW s \in Snapshots,
         LoadExisting(s) \/ LockDead(s) \/ AddOwnerLoad(s) \/ (ReleaseLoad(s) /\ found'[s] # Nil)
  PROVE  IInv'
<1>1. Parse /\ Parse' /\ Owns(s) /\ LockedBy(s) /\ Typed
  BY PhaseStep DEF IInv, Parse
<1>2. /\ UNCHANGED <<entry, owners, mu, struck, snapVars, phase, parsed, todo, stack, work>>
      /\ \E e : found' = [found EXCEPT ![s] = e]
      /\ found'[s] # Nil => Key(s) \in Files /\ found'[s] = entry[Key(s)]
  <2>1. CASE LoadExisting(s)
    <3>1. stack[s] # <<>> /\ HasNext(s)
      BY <2>1 DEF LoadExisting, Parsing
    <3>2. NextFile(s) \in Files /\ Key(s) = NextFile(s)
      BY <1>1, <3>1, KeyIs
    <3> QED
      BY <1>1, <2>1, <3>2 DEF LoadExisting, cacheVars, Typed
  <2>2. CASE LockDead(s)
    BY <1>1, <2>2 DEF LockDead, cacheVars, Typed
  <2>3. CASE AddOwnerLoad(s)
    <3>1. NextOf(s) \in Files /\ Key(s) = NextOf(s)
      BY <1>1, <2>3, NextOfIs DEF AddOwnerLoad, Key
    <3> QED
      BY <1>1, <2>3, <3>1 DEF AddOwnerLoad, cacheVars, Typed
  <2>4. CASE ReleaseLoad(s) /\ found'[s] # Nil
    <3>1. NextOf(s) \in Files /\ Key(s) = NextOf(s)
      BY <1>1, <2>4, NextOfIs DEF ReleaseLoad, Key
    <3>2. found' = [found EXCEPT ![s] = entry[NextOf(s)]]
      BY <2>4 DEF ReleaseLoad
    <3>3. found'[s] = entry[NextOf(s)]
      BY <1>1, <3>2 DEF Typed
    <3>4. work' = work
      BY <2>4, <3>3 DEF ReleaseLoad
    <3> QED
      BY <2>4, <3>1, <3>2, <3>3, <3>4 DEF ReleaseLoad, cacheVars
  <2> QED
    BY <2>1, <2>2, <2>3, <2>4
<1>3. \A t \in Snapshots : t # s => Mine(t)' = Mine(t)
  BY <1>1, <1>2 DEF Mine, Typed, snapVars
<1>4. ASSUME NEW t \in Snapshots, t # s PROVE LockedBy(t)' /\ Owns(t)'
  BY <1>2, <1>3, <1>4, OthersHold
<1>5. Done(s)' = Done(s) /\ Key(s)' = Key(s) /\ NextOf(s)' = NextOf(s)
  <2>1. /\ phase'[s] = phase[s] /\ registry'[s] = registry[s] /\ stack'[s] = stack[s]
        /\ work'[s] = work[s]
    BY <1>2 DEF snapVars
  <2>2. Remaining(s)' = Remaining(s) /\ NextOf(s)' = NextOf(s) /\ NextFile(s)' = NextFile(s)
    BY <2>1 DEF Remaining, NextOf, NextFile, Top
  <2> QED
    BY <2>1, <2>2 DEF Done, Key
<1>6. LockedBy(s)'
  BY <1>1, <1>2 DEF LockedBy
<1>7. Owns(s)'
  <2>1. phase'[s] = "releasing" /\ found'[s] # Nil => entry'[NextOf(s)'] = found'[s]
    BY <1>2, <1>5 DEF Key
  <2>2. \A f : OwnerOf(s, f)' <=> OwnerOf(s, f)
    BY <1>2 DEF OwnerOf
  <2> QED
    BY <1>1, <1>2, <1>5, <2>1, <2>2 DEF Owns
<1>8. PICK name \in [Objs -> Files \union {Nil}] : Named(name)
  BY DEF IInv
<1>9. Named(name)'
  <2>1. NamedCache(name)'
    BY <1>2, <1>8 DEF Named, NamedCache
  <2>2. found'[s] # Nil => name[found'[s]] = Key(s)'
    BY <1>2, <1>5, <1>8 DEF Named, NamedCache
  <2>3. NamedBy(name, s)'
    BY <1>2, <1>8, <2>2 DEF Named, NamedBy
  <2>4. ASSUME NEW t \in Snapshots, t # s PROVE NamedBy(name, t)'
    BY <1>3, <1>8, <2>4, SameNamed DEF Named
  <2> QED
    BY <2>1, <2>3, <2>4 DEF Named
<1> QED
  BY <1>1, <1>4, <1>6, <1>7, <1>9 DEF IInv

\* There is no entry to release.
LEMMA NothingHeld ==
  ASSUME IInv, NEW s \in Snapshots, ReleaseLoad(s), found'[s] = Nil
  PROVE  IInv'
<1>1. Parse /\ Parse' /\ Owns(s) /\ Typed
  BY PhaseStep DEF IInv, Parse
<1>2. /\ phase[s] = "releasing" /\ work[s].files # {}
      /\ UNCHANGED <<entry, owners, mu, struck, snapVars, phase, parsed, todo, stack>>
      /\ found' = [found EXCEPT ![s] = entry[NextOf(s)]]
  BY DEF ReleaseLoad, cacheVars
<1>3. entry[NextOf(s)] = Nil /\ work' = Finished(s)
  <2>1. entry[NextOf(s)] = Nil
    BY <1>1, <1>2 DEF Typed
  <2> QED
    BY <2>1 DEF ReleaseLoad
<1>4. /\ \A t \in Snapshots : t # s => work'[t] = work[t]
      /\ Remaining(s) \subseteq Remaining(s)' \union {NextOf(s)}
  BY <1>1, <1>3, FinishedIs
<1>5. \A t \in Snapshots : t # s => Mine(t)' = Mine(t)
  BY <1>1, <1>2, <1>4 DEF Mine, Typed, snapVars
<1>6. stack'[s] = <<>> /\ phase'[s] = "releasing" /\ registry'[s] = registry[s]
  BY <1>1, <1>2, RestIs DEF snapVars
<1>7. Done(s)' \subseteq Done(s) \union {NextOf(s)}
  BY <1>2, <1>4, <1>6 DEF Done
<1>8. \A f \in Done(s)' : ~OwnerOf(s, f)
  BY <1>1, <1>2, <1>3, <1>7 DEF Owns, OwnerOf
<1> QED
  BY <1>1, <1>2, <1>5, <1>6, <1>8, RestStep

\* The parser starts with a config.
LEMMA ParseConfigHeld ==
  ASSUME IInv, NEW s \in Snapshots, NEW c \in Configs, ParseConfig(s, c)
  PROVE  IInv'
<1>1. Parse /\ Parse' /\ Typed
  BY ParseConfigStep DEF IInv, Parse
<1>2. /\ phase[s] = "parsing" /\ stack[s] = <<>>
      /\ stack' = [stack EXCEPT ![s] = <<Frame(s, c, Nil)>>]
      /\ UNCHANGED <<entry, owners, mu, struck, snapVars, phase, parsed, todo, work, found>>
  BY DEF ParseConfig, cacheVars
<1>3. \A t \in Snapshots : t # s => Mine(t)' = Mine(t)
  BY <1>1, <1>2 DEF Mine, Typed, snapVars
<1>4. ASSUME NEW t \in Snapshots, t # s PROVE LockedBy(t)' /\ Owns(t)'
  BY <1>2, <1>3, <1>4, OthersHold
<1>5. 2 .. Len(stack'[s]) = {} /\ found'[s] = Nil
  <2>1. stack'[s] = <<Frame(s, c, Nil)>> /\ found'[s] = Nil
    BY <1>1, <1>2, RestIs DEF Typed
  <2> QED
    BY <2>1
<1>6. LockedBy(s)' /\ Owns(s)'
  BY <1>2, <1>5 DEF LockedBy, Owns
<1>7. PICK name \in [Objs -> Files \union {Nil}] : Named(name)
  BY DEF IInv
<1>8. Named(name)'
  <2>1. NamedCache(name)'
    BY <1>2, <1>7 DEF Named, NamedCache
  <2>2. NamedBy(name, s)'
    BY <1>5 DEF NamedBy
  <2>3. ASSUME NEW t \in Snapshots, t # s PROVE NamedBy(name, t)'
    BY <1>3, <1>7, <2>3, SameNamed DEF Named
  <2> QED
    BY <2>1, <2>2, <2>3 DEF Named
<1> QED
  BY <1>1, <1>4, <1>6, <1>8 DEF IInv

\* Others when s becomes an owner of an entry that is in the map, unless it was struck, and
\* locks nothing.
LEMMA OwnedOthers ==
  ASSUME IInv, NEW s \in Snapshots, NEW e \in Objs, entry' = entry, struck' = struck,
         owners' = [owners EXCEPT ![e] = owners[e] \union {s}],
         NEW t \in Snapshots, t # s, Mine(t)' = Mine(t), \A d \in Objs : mu[d] = t => mu'[d] = t
  PROVE  LockedBy(t)' /\ Owns(t)'
<1>1. owners \in [Objs -> SUBSET Snapshots] /\ entry \in [Files -> Objs \union {Nil}]
  BY DEF IInv, Parse, Typed
<1>2. \A f \in Files : entry[f] # Nil => (t \in owners'[entry[f]] <=> t \in owners[entry[f]])
  BY <1>1
<1> QED
  BY <1>2, OthersHold

LEMMA OwnedNames ==
  ASSUME Typed, NEW name, NamedCache(name), NEW s \in Snapshots, NEW e \in Objs,
         entry' = entry, struck' = struck, owners' = [owners EXCEPT ![e] = owners[e] \union {s}],
         (name[e] \in Files /\ entry[name[e]] = e) \/ name[e] \in struck
  PROVE  NamedCache(name)'
<1>1. \A d \in Objs : d # e => owners'[d] = owners[d]
  BY DEF Typed
<1> QED
  BY <1>1 DEF NamedCache

\* An entry that is found, and has owners, is in the map under the file it was looked up for.
LEMMA FoundIs ==
  ASSUME IInv, NEW s \in Snapshots, found[s] # Nil, owners[found[s]] # {}
  PROVE  found[s] \in Objs /\ (entry[Key(s)] = found[s] \/ Key(s) \in struck)
<1>1. found[s] \in Objs
  BY DEF IInv, Parse, Typed
<1>2. PICK name \in [Objs -> Files \union {Nil}] : Named(name)
  BY DEF IInv
<1> QED
  BY <1>1, <1>2 DEF Named, NamedCache, NamedBy

\* Applying leaves the files of the frames and their entries as they are.
LEMMA AppliedSame ==
  ASSUME NEW fr \in Seq(Frames), Len(fr) > 0, NEW r \in FileVersions, NEW new, new = Applied(fr, r)
  PROVE  /\ Len(new) = Len(fr)
         /\ \A i \in 1 .. Len(fr) : new[i].node = fr[i].node /\ new[i].obj = fr[i].obj
<1> DEFINE t == fr[Len(fr)]
<1>1. /\ Len(new) = Len(fr) /\ \A i \in 1 .. Len(fr) : i # Len(fr) => new[i] = fr[i]
      /\ new[Len(fr)] = [node |-> t.node, obj |-> t.obj, applied |-> t.applied + 1,
                         read |-> t.read \union r]
  BY AppliedFrames
<1>2. new[Len(fr)].node = t.node /\ new[Len(fr)].obj = t.obj
  BY <1>1
<1> QED
  BY <1>1, <1>2

\* The innermost frame applies a value that is in the cache.
LEMMA LockLiveHeld ==
  ASSUME IInv, NEW s \in Snapshots, LockLive(s)
  PROVE  IInv'
<1>1. Parse /\ Parse' /\ LockedBy(s) /\ Snap(s) /\ Typed
  BY LockLiveStep DEF IInv, Parse
<1>2. /\ phase[s] = "parsing" /\ found[s] # Nil /\ owners[found[s]] # {}
      /\ owners' = [owners EXCEPT ![found[s]] = owners[found[s]] \union {s}]
      /\ stack' = [stack EXCEPT ![s] = Applied(stack[s], value[found[s]])]
      /\ found' = [found EXCEPT ![s] = Nil]
      /\ UNCHANGED <<entry, mu, struck, snapVars, phase, parsed, todo, work>>
  BY DEF LockLive, CanLock
<1>3. found[s] \in Objs
  BY <1>2, FoundIs
<1>4. \A t \in Snapshots : t # s => Mine(t)' = Mine(t)
  BY <1>1, <1>2 DEF Mine, Typed, snapVars
<1>5. ASSUME NEW t \in Snapshots, t # s PROVE LockedBy(t)' /\ Owns(t)'
  BY <1>2, <1>3, <1>4, <1>5, OwnedOthers
<1>6. /\ found'[s] = Nil /\ phase'[s] = "parsing"
      /\ stack'[s] = Applied(stack[s], value[found[s]])
  BY <1>1, <1>2 DEF Typed
<1>7. /\ Len(stack'[s]) = Len(stack[s])
      /\ \A i \in 2 .. Len(stack[s]) : /\ stack'[s][i].node = stack[s][i].node
                                       /\ stack'[s][i].obj = stack[s][i].obj
  <2>1. stack[s] \in Seq(Frames) /\ Len(stack[s]) > 0 /\ value[found[s]] \in FileVersions
    BY <1>1, <1>2, <1>3, TopIs DEF Snap, Typed
  <2>2. /\ Len(stack'[s]) = Len(stack[s])
        /\ \A i \in 1 .. Len(stack[s]) : /\ stack'[s][i].node = stack[s][i].node
                                         /\ stack'[s][i].obj = stack[s][i].obj
    BY <1>6, <2>1, AppliedSame
  <2>3. \A i \in 2 .. Len(stack[s]) : i \in 1 .. Len(stack[s])
    BY <1>1, FrameIs
  <2> QED
    BY <2>2, <2>3
<1>8. LockedBy(s)'
  BY <1>1, <1>2, <1>7 DEF LockedBy
<1>9. Owns(s)'
  BY <1>6 DEF Owns
<1>10. PICK name \in [Objs -> Files \union {Nil}] : Named(name)
  BY DEF IInv
<1>11. Named(name)'
  <2>1. NamedCache(name)'
    <3>1. /\ NamedCache(name)
          /\ \/ name[found[s]] \in Files /\ entry[name[found[s]]] = found[s]
             \/ name[found[s]] \in struck
      BY <1>2, <1>3, <1>10 DEF Named, NamedCache
    <3> QED
      BY <1>1, <1>2, <1>3, <3>1, OwnedNames
  <2>2. NamedBy(name, s)'
    BY <1>6, <1>7, <1>10 DEF Named, NamedBy
  <2>3. ASSUME NEW t \in Snapshots, t # s PROVE NamedBy(name, t)'
    BY <1>4, <1>10, <2>3, SameNamed DEF Named
  <2> QED
    BY <2>1, <2>2, <2>3 DEF Named
<1> QED
  BY <1>1, <1>5, <1>8, <1>9, <1>11 DEF IInv

\* The new snapshot becomes an owner of the next file.
LEMMA AddOwnerHeld ==
  ASSUME IInv, NEW s \in Snapshots, AddOwner(s)
  PROVE  IInv'
<1>1. Parse /\ Parse' /\ Owns(s) /\ Snap(s) /\ Typed
  BY PhaseStep DEF IInv, Parse
<1>2. /\ phase[s] = "owning" /\ found[s] # Nil /\ owners[found[s]] # {}
      /\ owners' = [owners EXCEPT ![found[s]] = owners[found[s]] \union {s}]
      /\ work' = Finished(s) /\ found' = [found EXCEPT ![s] = Nil]
      /\ UNCHANGED <<entry, mu, struck, snapVars, phase, parsed, todo, stack>>
  BY DEF AddOwner, CanLock
<1>3. /\ found[s] \in Objs /\ (entry[NextOf(s)] = found[s] \/ NextOf(s) \in struck)
      /\ NextOf(s) \in Files
  <2>1. NextOf(s) \in Files
    BY <1>1, <1>2, NextOfIs DEF Snap
  <2> QED
    BY <1>2, <2>1, FoundIs DEF Key
<1>4. /\ \A t \in Snapshots : t # s => work'[t] = work[t]
      /\ Remaining(s) \subseteq Remaining(s)' \union {NextOf(s)}
  BY <1>1, <1>2, FinishedIs
<1>5. \A t \in Snapshots : t # s => Mine(t)' = Mine(t)
  BY <1>1, <1>2, <1>4 DEF Mine, Typed, snapVars
<1>6. ASSUME NEW t \in Snapshots, t # s PROVE LockedBy(t)' /\ Owns(t)'
  BY <1>2, <1>3, <1>5, <1>6, OwnedOthers
<1>7. found'[s] = Nil /\ phase'[s] = "owning" /\ registry'[s] = registry[s] /\ stack'[s] = <<>>
  BY <1>1, <1>2, RestIs DEF Typed, snapVars
<1>8. Done(s)' \subseteq Done(s) \union {NextOf(s)}
  BY <1>2, <1>4, <1>7 DEF Done
<1>9. ASSUME NEW f \in Done(s)' PROVE f \in struck \/ OwnerOf(s, f)'
  <2>1. CASE f = NextOf(s)
    BY <1>1, <1>2, <1>3, <2>1, NodesAssumption DEF OwnerOf, Typed
  <2>2. CASE f # NextOf(s)
    <3>1. f \in struck \/ OwnerOf(s, f)
      BY <1>1, <1>2, <1>8, <1>9, <2>2 DEF Owns
    <3>2. f \in Files
      BY <1>8, <1>9, <2>2, DoneFiles
    <3> QED
      BY <1>1, <1>2, <1>3, <3>1, <3>2 DEF OwnerOf, Typed
  <2> QED
    BY <2>1, <2>2
<1>10. LockedBy(s)' /\ Owns(s)'
  BY <1>2, <1>7, <1>9 DEF LockedBy, Owns
<1>11. PICK name \in [Objs -> Files \union {Nil}] : Named(name)
  BY DEF IInv
<1>12. Named(name)'
  <2>1. NamedCache(name)'
    <3>1. /\ NamedCache(name)
          /\ \/ name[found[s]] \in Files /\ entry[name[found[s]]] = found[s]
             \/ name[found[s]] \in struck
      BY <1>2, <1>3, <1>11 DEF Named, NamedCache
    <3> QED
      BY <1>1, <1>2, <1>3, <3>1, OwnedNames
  <2>2. NamedBy(name, s)'
    BY <1>7 DEF NamedBy
  <2>3. ASSUME NEW t \in Snapshots, t # s PROVE NamedBy(name, t)'
    BY <1>5, <1>11, <2>3, SameNamed DEF Named
  <2> QED
    BY <2>1, <2>2, <2>3 DEF Named
<1> QED
  BY <1>1, <1>6, <1>10, <1>12 DEF IInv

\* The parser of s starts with a file, in the entry e, whose name it is.
LEMMA PushHolds ==
  ASSUME IInv, NEW s \in Snapshots, Parse', stack[s] # <<>>, HasNext(s), NEW e \in Objs,
         stack' = [stack EXCEPT ![s] = Append(stack[s], Frame(s, NextFile(s), e))],
         mu' = [mu EXCEPT ![e] = s], e \notin Holding(s),
         entry'[NextFile(s)] = e \/ NextFile(s) \in struck,
         \A f \in Files : entry[f] # Nil => entry'[f] = entry[f],
         found'[s] = Nil, UNCHANGED <<phase, struck>>,
         NEW new, \A i \in 2 .. Len(stack[s]) : new[stack[s][i].obj] = stack[s][i].node,
         new[e] = NextFile(s)
  PROVE  LockedBy(s)' /\ Owns(s)' /\ NamedBy(new, s)'
<1>1. Parse /\ LockedBy(s) /\ phase[s] = "parsing"
  BY TopIs DEF IInv
<1> DEFINE len == Len(stack[s])
           fr == stack[s]
           on == stack'[s]
<1>2. len \in Nat /\ len > 0 /\ fr \in Seq(Frames)
  BY <1>1, TopIs
<1>3. /\ Len(on) = len + 1 /\ \A i \in 1 .. len : on[i] = fr[i]
      /\ on[len + 1].node = NextFile(s) /\ on[len + 1].obj = e
  <2>1. on = Append(fr, Frame(s, NextFile(s), e)) /\ on \in Seq(Frames)
    BY <1>1 DEF Parse, Typed
  <2>2. Frame(s, NextFile(s), e).node = NextFile(s) /\ Frame(s, NextFile(s), e).obj = e
    BY DEF Frame
  <2>3. Len(on) = len + 1 /\ (\A i \in 1 .. len : on[i] = fr[i])
        /\ on[len + 1] = Frame(s, NextFile(s), e)
    BY <1>2, <2>1
  <2> QED
    BY <2>2, <2>3
<1>4. \A i \in 2 .. len : /\ fr[i].node \in Files /\ fr[i].obj \in Objs /\ fr[i].obj # e
                          /\ mu[fr[i].obj] = s /\ new[fr[i].obj] = fr[i].node
                          /\ entry[fr[i].node] = fr[i].obj \/ fr[i].node \in struck
                          /\ i \in 1 .. len
  BY <1>1, FrameIs DEF LockedBy, Holding
<1> HIDE DEF len, fr, on
<1>5. ASSUME NEW i \in 2 .. len + 1
      PROVE  /\ mu'[on[i].obj] = s /\ new[on[i].obj] = on[i].node
             /\ entry'[on[i].node] = on[i].obj \/ on[i].node \in struck'
  <2>1. CASE i = len + 1
    BY <1>1, <1>3, <2>1 DEF Parse, Typed
  <2>2. CASE i # len + 1
    <3>1. i \in 2 .. len /\ i \in 1 .. len
      BY <1>2, <2>2
    <3>2. on[i] = fr[i] /\ fr[i].obj # Nil /\ new[fr[i].obj] = fr[i].node
      BY <1>3, <1>4, <3>1, NodesAssumption
    <3>3. mu'[fr[i].obj] = s
      BY <1>1, <1>4, <3>1 DEF Parse, Typed
    <3>4. entry'[fr[i].node] = fr[i].obj \/ fr[i].node \in struck
      BY <1>4, <3>1, <3>2
    <3> QED
      BY <3>2, <3>3, <3>4
  <2> QED
    BY <2>1, <2>2
<1>6. ASSUME NEW i \in 2 .. len + 1, NEW j \in 2 .. len + 1, on[i].obj = on[j].obj PROVE i = j
  <2>1. \A k \in 2 .. len + 1 : k = len + 1 \/ (k \in 2 .. len /\ k \in 1 .. len)
    BY <1>2
  <2>2. \A k \in 2 .. len : on[k].obj = fr[k].obj /\ fr[k].obj # e
    BY <1>3, <1>4
  <2>3. i \in 2 .. len /\ j \in 2 .. len => i = j
    BY <1>1, <1>6, <2>2 DEF LockedBy, fr, len
  <2> QED
    BY <1>3, <1>6, <2>1, <2>2, <2>3
<1>7. LockedBy(s)'
  BY <1>3, <1>5, <1>6 DEF LockedBy, on
<1>8. Owns(s)'
  BY <1>1 DEF Owns
<1>9. NamedBy(new, s)'
  BY <1>3, <1>5 DEF NamedBy, on
<1> QED
  BY <1>7, <1>8, <1>9

\* A value that has expired is parsed anew, in its entry.
LEMMA LockExpiredHeld ==
  ASSUME IInv, NEW s \in Snapshots, LockExpired(s)
  PROVE  IInv'
<1>1. Parse /\ Parse' /\ Snap(s) /\ LockedBy(s) /\ Typed
  BY PushStep DEF IInv, Parse
<1>2. /\ phase[s] = "parsing" /\ found[s] # Nil /\ owners[found[s]] # {} /\ mu[found[s]] = Nil
      /\ mu' = [mu EXCEPT ![found[s]] = s]
      /\ stack' = [stack EXCEPT ![s] = Append(stack[s], Frame(s, NextFile(s), found[s]))]
      /\ found' = [found EXCEPT ![s] = Nil]
      /\ UNCHANGED <<entry, owners, struck, snapVars, phase, parsed, todo, work>>
  BY DEF LockExpired, CanLock
<1>3. stack[s] # <<>> /\ HasNext(s) /\ Key(s) = NextFile(s)
  BY <1>1, <1>2 DEF Snap, Key
<1>4. found[s] \in Objs /\ (entry[NextFile(s)] = found[s] \/ NextFile(s) \in struck)
  BY <1>2, <1>3, FoundIs
<1>5. \A t \in Snapshots : t # s => Mine(t)' = Mine(t)
  BY <1>1, <1>2 DEF Mine, Typed, snapVars
<1>6. ASSUME NEW t \in Snapshots, t # s PROVE LockedBy(t)' /\ Owns(t)'
  <2>1. \A d \in Objs : mu[d] = t => mu'[d] = t
    BY <1>1, <1>2, NodesAssumption DEF Typed
  <2> QED
    BY <1>2, <1>5, <1>6, <2>1, OthersHold
<1>7. found[s] \notin Holding(s)
  BY <1>1, <1>2, NodesAssumption DEF Holding, LockedBy
<1>8. found'[s] = Nil
  BY <1>1, <1>2 DEF Typed
<1>9. PICK name \in [Objs -> Files \union {Nil}] : Named(name)
  BY DEF IInv
<1>10. /\ name[found[s]] = NextFile(s)
       /\ \A i \in 2 .. Len(stack[s]) : name[stack[s][i].obj] = stack[s][i].node
  BY <1>2, <1>3, <1>9 DEF Named, NamedBy
<1>11. LockedBy(s)' /\ Owns(s)' /\ NamedBy(name, s)'
  BY <1>1, <1>2, <1>3, <1>4, <1>7, <1>8, <1>10, PushHolds
<1>12. Named(name)'
  <2>1. NamedCache(name)'
    BY <1>2, <1>9 DEF Named, NamedCache
  <2>2. ASSUME NEW t \in Snapshots, t # s PROVE NamedBy(name, t)'
    BY <1>5, <1>9, <2>2, SameNamed DEF Named
  <2> QED
    BY <1>11, <2>1, <2>2 DEF Named
<1> QED
  BY <1>1, <1>6, <1>11, <1>12 DEF IInv

\* A file that is not in the cache is parsed in a new entry.
LEMMA LoadNewHeld ==
  ASSUME IInv, NEW s \in Snapshots, LoadNew(s)
  PROVE  IInv'
<1>1. Parse /\ Parse' /\ Typed
  BY PushStep DEF IInv, Parse
<1>2. /\ found[s] = Nil /\ stack[s] # <<>> /\ HasNext(s) /\ entry[NextFile(s)] = Nil
      /\ UNCHANGED <<struck, snapVars, phase, parsed, todo, work, found>>
  BY DEF LoadNew, Parsing
<1> DEFINE n == NextFile(s)
<1>3. PICK e \in Objs :
        /\ Fresh(e) /\ entry' = [entry EXCEPT ![n] = e]
        /\ owners' = [owners EXCEPT ![e] = {}] /\ mu' = [mu EXCEPT ![e] = s]
        /\ stack' = [stack EXCEPT ![s] = Append(stack[s], Frame(s, n, e))]
  BY DEF LoadNew
<1>4. n \in Files
  BY <1>1, <1>2, KeyIs
<1>5. \A t \in Snapshots : t # s => Mine(t)' = Mine(t)
  BY <1>1, <1>2, <1>3 DEF Mine, Typed, snapVars
<1>6. /\ \A f \in Files : entry[f] # e
      /\ \A t \in Snapshots : found[t] # e
      /\ \A t \in Snapshots : e \notin Holding(t)
  <2>1. ASSUME NEW t \in Snapshots PROVE e \notin Holding(t)
    BY <1>1, <1>3, FrameIs DEF Holding, Fresh
  <2> QED
    BY <1>3, <2>1 DEF Fresh
<1>7. /\ \A f \in Files : f # n => entry'[f] = entry[f]
      /\ entry'[n] = e
      /\ \A d \in Objs : d # e => owners'[d] = owners[d] /\ mu'[d] = mu[d]
      /\ owners'[e] = {}
  BY <1>1, <1>3, <1>4 DEF Typed
<1>8. ASSUME NEW t \in Snapshots, t # s PROVE LockedBy(t)' /\ Owns(t)'
  <2>1. ASSUME NEW f \in Files
        PROVE  /\ entry'[f] = entry[f] \/ entry[f] = Nil
               /\ entry'[f] = entry[f] \/ t \notin owners'[entry'[f]]
               /\ entry[f] # Nil => (t \in owners'[entry[f]] <=> t \in owners[entry[f]])
    BY <1>1, <1>2, <1>6, <1>7 DEF Typed
  <2>2. \A d \in Objs : mu[d] = t /\ d \in Holding(t) => mu'[d] = t
    BY <1>6, <1>7
  <2> QED
    BY <1>2, <1>5, <1>8, <2>1, <2>2, OthersHold
<1>9. PICK name \in [Objs -> Files \union {Nil}] : Named(name)
  BY DEF IInv
<1>10. PICK new \in [Objs -> Files \union {Nil}] :
         new[e] = n /\ \A d \in Objs : d # e => new[d] = name[d]
  <2>1. [name EXCEPT ![e] = n] \in [Objs -> Files \union {Nil}]
    BY <1>4, <1>9
  <2> QED
    BY <1>9, <2>1
<1>11. \A t \in Snapshots : \A d \in Holding(t) : new[d] = name[d] /\ d \in Objs
  <2>1. \A t \in Snapshots : Holding(t) \subseteq Objs
    BY <1>1, FrameIs DEF Holding
  <2> QED
    BY <1>6, <1>10, <2>1
<1>12. found'[s] = Nil /\ \A f \in Files : entry[f] # Nil => entry'[f] = entry[f]
  BY <1>2, <1>7
<1>13. LockedBy(s)' /\ Owns(s)' /\ NamedBy(new, s)'
  <2>1. \A i \in 2 .. Len(stack[s]) : new[stack[s][i].obj] = stack[s][i].node
    <3>1. \A i \in 2 .. Len(stack[s]) : stack[s][i].obj \in Holding(s)
      BY DEF Holding
    <3> QED
      BY <1>9, <1>11, <3>1 DEF Named, NamedBy
  <2>2. /\ stack' = [stack EXCEPT ![s] = Append(stack[s], Frame(s, NextFile(s), e))]
        /\ mu' = [mu EXCEPT ![e] = s] /\ e \notin Holding(s) /\ entry'[NextFile(s)] = e
        /\ UNCHANGED <<phase, struck>> /\ stack[s] # <<>> /\ HasNext(s)
        /\ \A f \in Files : entry[f] # Nil => entry'[f] = entry[f]
        /\ found'[s] = Nil /\ Parse'
    BY <1>1, <1>2, <1>3, <1>6, <1>7, <1>12
  <2>3. new[e] = NextFile(s)
    BY <1>10
  <2> QED
    BY <2>1, <2>2, <2>3, PushHolds
<1>14. Named(new)'
  <2>1. ASSUME NEW f \in Files, entry'[f] # Nil PROVE new[entry'[f]] = f
    <3>1. CASE f = n
      BY <1>7, <1>10, <3>1
    <3>2. CASE f # n
      <4>1. entry'[f] = entry[f] /\ entry[f] \in Objs /\ entry[f] # e
        BY <1>1, <1>6, <1>7, <2>1, <3>2 DEF Typed
      <4>2. name[entry[f]] = f
        BY <1>9, <2>1, <4>1 DEF Named, NamedCache
      <4> QED
        BY <1>10, <4>1, <4>2
    <3> QED
      BY <3>1, <3>2
  <2>2. ASSUME NEW d \in Objs, owners'[d] # {}
        PROVE  (new[d] \in Files /\ entry'[new[d]] = d) \/ new[d] \in struck'
    <3>1. d # e /\ d # Nil /\ owners[d] # {} /\ new[d] = name[d]
      BY <1>7, <1>10, <2>2, NodesAssumption
    <3>2. (name[d] \in Files /\ entry[name[d]] = d) \/ name[d] \in struck
      BY <1>9, <3>1 DEF Named, NamedCache
    <3>3. CASE name[d] \in struck
      BY <1>2, <3>1, <3>3
    <3>4. CASE name[d] \in Files /\ entry[name[d]] = d
      <4>1. name[d] # n
        BY <1>2, <3>1, <3>4
      <4> QED
        BY <1>7, <3>1, <3>4, <4>1
    <3> QED
      BY <3>2, <3>3, <3>4
  <2>3. NamedCache(new)'
    BY <2>1, <2>2 DEF NamedCache
  <2>4. ASSUME NEW t \in Snapshots, t # s PROVE NamedBy(new, t)'
    <3>1. \A i \in 2 .. Len(stack[t]) : stack[t][i].obj \in Holding(t)
      BY DEF Holding
    <3>2. found[t] # Nil => new[found[t]] = name[found[t]]
      BY <1>1, <1>6, <1>10 DEF Typed
    <3> QED
      BY <1>5, <1>9, <1>11, <2>4, <3>1, <3>2, SameNamed DEF Named
  <2> QED
    BY <1>13, <2>3, <2>4 DEF Named
<1> QED
  BY <1>1, <1>8, <1>10, <1>13, <1>14 DEF IInv

\* A file is parsed: its entry, which is in the map still unless it was struck, has a new
\* owner.
LEMMA ParsedFileHeld ==
  ASSUME IInv, NEW s \in Snapshots, ParsedFile(s)
  PROVE  IInv'
<1>1. Parse /\ Parse' /\ LockedBy(s) /\ Typed
  BY ParsedFileStep DEF IInv, Parse
<1> DEFINE fr == stack[s]
           len == Len(stack[s])
           t == Top(s)
           new == stack'[s]
<1>2. /\ phase[s] = "parsing" /\ found[s] = Nil /\ fr # <<>> /\ len > 1
      /\ owners' = [owners EXCEPT ![t.obj] = owners[t.obj] \union {s}]
      /\ mu' = [mu EXCEPT ![t.obj] = Nil]
      /\ stack' = [stack EXCEPT ![s] = Applied(Front(fr), t.read)]
      /\ UNCHANGED <<entry, struck, snapVars, phase, parsed, todo, work, found>>
  BY DEF ParsedFile, Parsing
<1>3. len \in 2 .. len /\ t = fr[len] /\ fr \in Seq(Frames) /\ len \in Nat
  BY <1>1, <1>2, TopIs DEF Top
<1>4. /\ t.obj \in Objs /\ mu[t.obj] = s /\ t.node \in Files
      /\ entry[t.node] = t.obj \/ t.node \in struck
  BY <1>1, <1>3, FrameIs DEF LockedBy
<1> HIDE DEF t
<1>5. \A q \in Snapshots : q # s => Mine(q)' = Mine(q)
  BY <1>1, <1>2 DEF Mine, Typed, snapVars
<1>6. ASSUME NEW q \in Snapshots, q # s PROVE LockedBy(q)' /\ Owns(q)'
  <2>1. \A d \in Objs : mu[d] = q => mu'[d] = q
    BY <1>1, <1>2, <1>4, <1>6 DEF Typed
  <2> QED
    BY <1>2, <1>4, <1>5, <1>6, <2>1, OwnedOthers
<1>7. /\ Len(new) = len - 1
      /\ \A i \in 1 .. len - 1 : new[i].node = fr[i].node /\ new[i].obj = fr[i].obj
  <2> DEFINE below == Front(fr)
  <2>1. /\ below \in Seq(Frames) /\ Len(below) = len - 1 /\ len - 1 > 0
        /\ \A i \in 1 .. len - 1 : below[i] = fr[i]
    BY <1>2, <1>3, FrontFrames
  <2>2. t.read \in FileVersions
    <3>1. t \in Frames
      BY <1>3
    <3> QED
      BY <3>1 DEF Frames
  <2>3. new = Applied(below, t.read)
    BY <1>1, <1>2 DEF Typed
  <2> HIDE DEF below, new
  <2>4. /\ Len(new) = Len(below)
        /\ \A i \in 1 .. Len(below) : new[i].node = below[i].node /\ new[i].obj = below[i].obj
    BY <2>1, <2>2, <2>3, AppliedSame
  <2> QED
    BY <2>1, <2>4
<1>8. \A i \in 2 .. len - 1 : i \in 1 .. len - 1 /\ i \in 2 .. len /\ i # len
  BY <1>3
<1>9. LockedBy(s)'
  <2>1. ASSUME NEW i \in 2 .. len - 1
        PROVE  /\ mu'[new[i].obj] = s
               /\ entry'[new[i].node] = new[i].obj \/ new[i].node \in struck'
    <3>1. fr[i].obj # t.obj
      BY <1>1, <1>3, <1>8 DEF LockedBy
    <3>2. /\ mu[fr[i].obj] = s /\ fr[i].obj \in Objs
          /\ entry[fr[i].node] = fr[i].obj \/ fr[i].node \in struck
      BY <1>1, <1>8, FrameIs DEF LockedBy
    <3> QED
      BY <1>1, <1>2, <1>7, <1>8, <3>1, <3>2 DEF Typed
  <2>2. ASSUME NEW i \in 2 .. len - 1, NEW j \in 2 .. len - 1, new[i].obj = new[j].obj PROVE i = j
    BY <1>1, <1>7, <1>8, <2>2 DEF LockedBy
  <2> QED
    BY <1>7, <2>1, <2>2 DEF LockedBy
<1>10. Owns(s)'
  BY <1>2 DEF Owns
<1>11. PICK name \in [Objs -> Files \union {Nil}] : Named(name)
  BY DEF IInv
<1>12. Named(name)'
  <2>1. NamedCache(name)'
    <3>1. name[t.obj] = t.node /\ NamedCache(name)
      BY <1>3, <1>11 DEF Named, NamedBy
    <3>2. /\ (name[t.obj] \in Files /\ entry[name[t.obj]] = t.obj) \/ name[t.obj] \in struck
          /\ entry' = entry /\ struck' = struck
          /\ owners' = [owners EXCEPT ![t.obj] = owners[t.obj] \union {s}]
      BY <1>2, <1>4, <3>1
    <3> QED
      BY <1>1, <1>4, <3>1, <3>2, OwnedNames
  <2>2. NamedBy(name, s)'
    <3>1. found'[s] = Nil
      BY <1>2
    <3>2. \A i \in 2 .. len : name[fr[i].obj] = fr[i].node
      BY <1>11 DEF Named, NamedBy
    <3> HIDE DEF fr, len, new
    <3>3. \A i \in 2 .. len - 1 : name[new[i].obj] = new[i].node
      BY <1>7, <1>8, <3>2
    <3> QED
      BY <1>7, <3>1, <3>3 DEF NamedBy, new
  <2>3. ASSUME NEW q \in Snapshots, q # s PROVE NamedBy(name, q)'
    BY <1>5, <1>11, <2>3, SameNamed DEF Named
  <2> QED
    BY <2>1, <2>2, <2>3 DEF Named
<1> QED
  BY <1>1, <1>6, <1>9, <1>10, <1>12 DEF IInv

\* An owner is gone, and with the last the entry that is in the map under the file: the one
\* whose last owner it was, or a younger one, which is struck.
LEMMA ReleaseHeld ==
  ASSUME IInv, NEW s \in Snapshots, Release(s)
  PROVE  IInv'
<1>1. Parse /\ Parse' /\ Owns(s) /\ Snap(s) /\ Typed
  BY PhaseStep DEF IInv, Parse
<1> DEFINE e == found[s]
           n == NextOf(s)
           last == owners[e] \ {s} = {}
<1>2. /\ phase[s] = "releasing" /\ e # Nil /\ mu[e] = Nil
      /\ owners' = [owners EXCEPT ![e] = owners[e] \ {s}]
      /\ last => /\ entry' = [entry EXCEPT ![n] = Nil]
                 /\ struck' = IF entry[n] \in {e, Nil} THEN struck ELSE struck \union {n}
      /\ ~last => entry' = entry /\ struck' = struck
      /\ work' = Finished(s) /\ found' = [found EXCEPT ![s] = Nil]
      /\ UNCHANGED <<mu, snapVars, phase, parsed, todo, stack>>
  BY DEF Release, DeleteKey, CanLock
<1>3. e \in Objs /\ n \in Files
  BY <1>1, <1>2, NextOfIs DEF Snap, Typed
<1>4. /\ \A t \in Snapshots : t # s => work'[t] = work[t]
      /\ Remaining(s) \subseteq Remaining(s)' \union {n}
  BY <1>1, <1>2, FinishedIs
<1>5. \A t \in Snapshots : t # s => Mine(t)' = Mine(t)
  BY <1>1, <1>2, <1>4 DEF Mine, Typed, snapVars
<1>6. found'[s] = Nil /\ phase'[s] = "releasing" /\ registry'[s] = registry[s] /\ stack'[s] = <<>>
  BY <1>1, <1>2, RestIs DEF Typed, snapVars
<1>7. Done(s)' \subseteq Done(s) \union {n}
  BY <1>2, <1>4, <1>6 DEF Done
<1> HIDE DEF n, last
<1>8. /\ \A f \in Files : f # n => entry'[f] = entry[f]
      /\ entry'[n] = IF last THEN Nil ELSE entry[n]
      /\ last /\ entry[n] # e /\ entry[n] # Nil => n \in struck'
      /\ struck \subseteq struck'
      /\ \A d \in Objs : d # e => owners'[d] = owners[d]
      /\ owners'[e] = owners[e] \ {s}
      /\ last => owners'[e] = {}
  BY <1>1, <1>2, <1>3 DEF Typed, last
<1>9. ASSUME NEW t \in Snapshots, t # s PROVE LockedBy(t)' /\ Owns(t)'
  <2>1. ASSUME NEW f \in Files
        PROVE  /\ \/ entry'[f] = entry[f] \/ entry[f] = Nil \/ f \in struck'
                  \/ entry'[f] = Nil /\ t \notin owners[entry[f]] /\ mu[entry[f]] # t
               /\ entry'[f] \in {entry[f], Nil}
               /\ entry[f] # Nil => (t \in owners'[entry[f]] <=> t \in owners[entry[f]])
    <3>1. entry[f] # Nil => (t \in owners'[entry[f]] <=> t \in owners[entry[f]])
      BY <1>1, <1>8, <1>9 DEF Typed
    <3>2. last => t \notin owners[e]
      BY <1>8, <1>9
    <3>3. mu[e] # t
      BY <1>2, NodesAssumption
    <3> QED
      BY <1>8, <3>1, <3>2, <3>3
  <2> QED
    BY <1>2, <1>5, <1>8, <1>9, <2>1, OthersHold
<1>10. ASSUME NEW f \in Done(s)' PROVE ~OwnerOf(s, f)'
  <2>1. CASE f = n
    <3>1. CASE last
      BY <1>8, <2>1, <3>1 DEF OwnerOf
    <3>2. CASE ~last
      <4>1. entry'[n] = entry[n] /\ (entry[n] = e \/ ~OwnerOf(s, n))
        BY <1>1, <1>2, <1>8, <3>2 DEF Owns, n
      <4> QED
        BY <1>1, <1>3, <1>8, <2>1, <4>1 DEF OwnerOf, Typed
    <3> QED
      BY <3>1, <3>2
  <2>2. CASE f # n
    <3>1. f \in Done(s) /\ f \in Files
      BY <1>7, <1>10, <2>2, DoneFiles
    <3>2. ~OwnerOf(s, f) /\ entry'[f] = entry[f]
      BY <1>1, <1>2, <1>8, <2>2, <3>1 DEF Owns
    <3> QED
      BY <1>1, <1>8, <3>1, <3>2 DEF OwnerOf, Typed
  <2> QED
    BY <2>1, <2>2
<1>11. LockedBy(s)' /\ Owns(s)'
  BY <1>6, <1>10 DEF LockedBy, Owns
<1>12. PICK name \in [Objs -> Files \union {Nil}] : Named(name)
  BY DEF IInv
<1>13. Named(name)'
  <2>1. \A f \in Files : entry'[f] # Nil => name[entry'[f]] = f
    BY <1>8, <1>12 DEF Named, NamedCache
  <2>2. ASSUME NEW d \in Objs, owners'[d] # {}
        PROVE  (name[d] \in Files /\ entry'[name[d]] = d) \/ name[d] \in struck'
    <3>1. owners[d] # {} /\ d # Nil
      BY <1>8, <2>2, NodesAssumption
    <3>2. (name[d] \in Files /\ entry[name[d]] = d) \/ name[d] \in struck
      BY <1>12, <3>1 DEF Named, NamedCache
    <3>3. CASE name[d] \in struck
      BY <1>8, <3>3
    <3>4. CASE name[d] \in Files /\ entry[name[d]] = d
      <4>1. CASE last /\ name[d] = n
        <5>1. d # e
          BY <1>8, <2>2, <4>1
        <5>2. entry[n] # e /\ entry[n] # Nil
          BY <3>1, <3>4, <4>1, <5>1
        <5> QED
          BY <1>8, <4>1, <5>2
      <4>2. CASE ~(last /\ name[d] = n)
        <5>1. entry'[name[d]] = entry[name[d]]
          BY <1>8, <3>4, <4>2
        <5> QED
          BY <3>4, <5>1
      <4> QED
        BY <4>1, <4>2
    <3> QED
      BY <3>2, <3>3, <3>4
  <2>3. NamedBy(name, s)'
    BY <1>6 DEF NamedBy
  <2>4. ASSUME NEW t \in Snapshots, t # s PROVE NamedBy(name, t)'
    BY <1>5, <1>12, <2>4, SameNamed DEF Named
  <2>5. NamedCache(name)'
    BY <2>1, <2>2 DEF NamedCache
  <2> QED
    BY <2>3, <2>4, <2>5 DEF Named
<1> QED
  BY <1>1, <1>9, <1>11, <1>13 DEF IInv

\* Every step keeps it.
LEMMA NextIInv == IInv /\ [Next]_vars => IInv'
<1> SUFFICES ASSUME IInv, [Next]_vars PROVE IInv'
  OBVIOUS
<1>1. CASE UNCHANGED vars
  <2>1. Parse' /\ UNCHANGED <<entry, owners, mu, struck>> /\ \A t \in Snapshots : Mine(t)' = Mine(t)
    BY <1>1, NextParse DEF vars, cacheVars, snapVars, Mine, IInv
  <2>2. \A t \in Snapshots : LockedBy(t)' /\ Owns(t)'
    BY <2>1, OthersHold
  <2>3. PICK name \in [Objs -> Files \union {Nil}] : Named(name)
    BY DEF IInv
  <2>4. Named(name)'
    <3>1. \A t \in Snapshots : NamedBy(name, t)'
      BY <2>1, <2>3, SameNamed DEF Named
    <3>2. NamedCache(name)'
      BY <2>1, <2>3 DEF Named, NamedCache
    <3> QED
      BY <3>1, <3>2 DEF Named
  <2> QED
    BY <2>1, <2>2, <2>4 DEF IInv
<1>2. ASSUME NEW s \in Snapshots, NEW p \in Snapshots, NEW d \in session.contents,
             NEW R \in SUBSET session.configs, NEW P \in SUBSET session.configs,
             Clone(s, p, d, R, P)
      PROVE  IInv'
  BY <1>2, CloneHeld
<1>3. ASSUME NEW s \in Snapshots, CloneStep(s) PROVE IInv'
  <2>1. CASE \/ \E c \in Configs : ParseConfig(s, c)
             \/ LoadNew(s) \/ LockLive(s) \/ LockExpired(s) \/ ParsedFile(s) \/ ParsedConfig(s)
    BY <2>1, ParseConfigHeld, LoadNewHeld, LockLiveHeld, LockExpiredHeld, ParsedFileHeld,
       ParsedConfigHeld
  <2>2. CASE \/ LoadExisting(s) \/ LockDead(s) \/ AddOwnerLoad(s) \/ AddOwner(s)
             \/ Finalize(s) \/ Cloned(s) \/ \E c \in Configs : NextConfig(s, c)
    BY <2>2, SearchHeld, AddOwnerHeld, TurnHeld
  <2> QED
    BY <1>3, <2>1, <2>2 DEF CloneStep
<1>4. ASSUME NEW s \in Snapshots, Dispose(s) \/ DisposeStep(s) PROVE IInv'
  BY <1>4, TurnHeld, SearchHeld, NothingHeld, ReleaseHeld DEF DisposeStep
<1> QED
  BY <1>1, <1>2, <1>3, <1>4 DEF Next, Quiet

\* Every behaviour keeps it.
LEMMA IInvAlways == Spec => []IInv
BY InitIInv, NextIInv, PTL DEF Spec

\* Types, with the bounds of the parser's frames.
LEMMA ParseTypes == Parse => TypeOK
<1> SUFFICES ASSUME Parse PROVE TypeOK
  OBVIOUS
<1>1. ASSUME NEW s \in Snapshots, NEW i \in DOMAIN stack[s]
      PROVE  stack[s][i] \in [node : Nodes, obj : Objs \union {Nil},
                              applied : 0 .. Len(Extends[stack[s][i].node]), read : FileVersions]
  <2>1. stack[s] \in Seq(Frames) /\ FramesOK(s, stack[s])
    BY DEF Parse, Typed, Snap
  <2>2. i \in 1 .. Len(stack[s]) /\ stack[s][i] \in Frames
    BY <2>1
  <2>3. FrameOK(s, stack[s], i)
    BY <2>1, <2>2 DEF FramesOK
  <2> DEFINE t == stack[s][i]
  <2>4. t.node \in Nodes /\ t.applied \in Nat
    BY <2>2 DEF Frames
  <2>5. Len(Extends[t.node]) \in Nat
    BY <2>4, DirectFiles
  <2>6. t.applied \in 0 .. Len(Extends[t.node])
    BY <2>3, <2>4, <2>5 DEF FrameOK
  <2> HIDE DEF t
  <2>7. t \in Frames
    BY <2>2 DEF t
  <2>8. t \in [node : Nodes, obj : Objs \union {Nil}, applied : 0 .. Len(Extends[t.node]),
               read : FileVersions]
    BY <2>6, <2>7 DEF Frames
  <2> QED
    BY <2>8 DEF t
<1> QED
  BY <1>1 DEF Parse, Typed, TypeOK

\* The entry in the map names every live snapshot that has a config which extends the
\* file, whatever files the configs share, unless a Release has struck a younger entry of the
\* file: a snapshot is an owner of all its files when it has been built, no other
\* snapshot's Release deletes an entry that it owns in another way, and it releases none of
\* them before it is disposed of.
THEOREM OwnersKeepEntries == Spec => []OwnedWhileLive
<1>1. IInv => OwnedWhileLive
  <2> SUFFICES ASSUME IInv, NEW s \in Snapshots, phase[s] = "live", NEW c \in registry[s],
                      NEW f \in ExtendedSourceFiles(c)
               PROVE  f \in struck \/ (entry[f] # Nil /\ s \in owners[entry[f]])
    BY ParseTypes DEF OwnedWhileLive, IInv
  <2>1. f \in Done(s)
    BY DEF Done, FilesOf
  <2> QED
    BY <2>1 DEF IInv, Owns, OwnerOf
<1> QED
  BY <1>1, IInvAlways, PTL

\* No file that a config of its registry extends is kept in the map by a snapshot that is
\* gone: an entry that came into the map since it looked the file up does not have it for an
\* owner, and what it has released it never acquires again.
THEOREM GoneOwnNothing == Spec => []ReleasedWhenGone
<1>1. IInv => ReleasedWhenGone
  <2> SUFFICES ASSUME IInv, NEW s \in Snapshots, phase[s] = "gone", NEW c \in registry[s],
                      NEW f \in ExtendedSourceFiles(c)
               PROVE  ~OwnerOf(s, f)
    BY DEF ReleasedWhenGone, OwnerOf
  <2>1. f \in Done(s)
    BY DEF Done, FilesOf
  <2> QED
    BY <2>1 DEF IInv, Owns
<1> QED
  BY <1>1, IInvAlways, PTL
=============================================================================
