------------------------- MODULE AssetRegistryProofs -------------------------
(***************************************************************************)
(* No crash forgets an asset, and the main thread keeps no asset loaded    *)
(* that is not registered, whatever the paths, files and handles are.      *)
(***************************************************************************)
EXTENDS AssetRegistry, SequenceTheorems, TLAPS

\* A material that is being written is registered.
MaterialIsRegistered ==
  step.at \in {"saving material", "writing material"} => step.asset \in Registered

\* The handle of a new material, which the two invariants rely on.
IInv == RegisteredIsSaved /\ LoadedIsRegistered /\ MaterialIsRegistered

LEMMA WithDomain ==
  ASSUME NEW f, NEW x, NEW y
  PROVE  /\ DOMAIN With(f, x, y) = DOMAIN f \union {x}
         /\ \A z \in DOMAIN f : z # x => With(f, x, y)[z] = f[z]
         /\ With(f, x, y)[x] = y
BY DEF With

LEMMA WithoutDomain ==
  ASSUME NEW f, NEW x
  PROVE  /\ DOMAIN Without(f, x) = DOMAIN f \ {x}
         /\ \A z \in DOMAIN f \ {x} : Without(f, x)[z] = f[z]
BY DEF Without, Restrict

\* The assets that are loaded once one more is stored.
LEMMA StoredAsset ==
  ASSUME NEW h, NEW thread, loaded' = With(loaded, h, thread), NEW k \in DOMAIN loaded'
  PROVE  \/ k = h /\ loaded'[k] = thread
         \/ k \in DOMAIN loaded /\ loaded'[k] = loaded[k]
BY DEF With

\* The registry file has the assets of the registry.
LEMMA OnFileDomain ==
  ASSUME NEW f
  PROVE  DOMAIN OnFile(f) = DOMAIN f
BY DEF OnFile

\* A program that has just started has loaded nothing.
LEMMA NothingLoaded == DOMAIN Nothing = {}
BY DEF Nothing

LEMMA SetMetadataStep ==
  ASSUME IInv, NEW h, NEW p, NEW place \in {"saving", "saving material"},
         step = Idle, Fresh(h), SetMetadata(h, p, place), UNCHANGED loaded
  PROVE  IInv'
<1>1. DOMAIN registry' = Registered \union {h}
  BY WithDomain DEF SetMetadata, Registered
<1>2. step' = [at |-> place, asset |-> h]
  BY DEF SetMetadata, At
<1>3. RegisteredIsSaved'
  BY <1>2 DEF RegisteredIsSaved
<1>4. LoadedIsRegistered'
  BY <1>1 DEF IInv, LoadedIsRegistered, Registered
<1>5. MaterialIsRegistered'
  BY <1>1, <1>2 DEF MaterialIsRegistered, Registered
<1> QED
  BY <1>3, <1>4, <1>5 DEF IInv

\* The renamings change paths but not the assets.
LEMMA SameHandles ==
  ASSUME IInv, DOMAIN registry' = DOMAIN registry, UNCHANGED <<saved, loaded, step>>
  PROVE  IInv'
BY DEF IInv, RegisteredIsSaved, LoadedIsRegistered, MaterialIsRegistered, Registered

LEMMA RestartStep ==
  ASSUME Restart, DOMAIN registry' \subseteq DOMAIN saved'
  PROVE  IInv'
<1>1. step' = [at |-> "idle", asset |-> NoAsset] /\ loaded' = Nothing
  BY DEF Restart, Idle, At
<1> QED
  BY <1>1, NothingLoaded
  DEF IInv, RegisteredIsSaved, LoadedIsRegistered, MaterialIsRegistered, Registered

LEMMA NextStep == IInv /\ [Next]_vars => IInv'
<1> SUFFICES ASSUME IInv, [Next]_vars PROVE IInv'
  OBVIOUS
<1>1. ASSUME NEW h \in Handle, NEW p \in PlainPath, AddFile(h, p) PROVE IInv'
  BY <1>1, SetMetadataStep DEF AddFile
<1>2. ASSUME NEW h \in Handle, NEW p \in PlainPath, ImportExternal(h, p) PROVE IInv'
  BY <1>2, SetMetadataStep DEF ImportExternal
<1>3. ASSUME NEW h \in Handle, NEW p \in PlainPath, NewMaterial(h, p) PROVE IInv'
  BY <1>3, SetMetadataStep DEF NewMaterial
<1>17. ASSUME NEW h \in Handle, NEW p \in Path \ PlainPath, NewScene(h, p) PROVE IInv'
  BY <1>17, SetMetadataStep DEF NewScene
<1>4. CASE RegistrySaved
  <2>1. DOMAIN saved' = DOMAIN registry /\ registry' = registry /\ loaded' = loaded
    BY <1>4, OnFileDomain DEF RegistrySaved, SaveDone
  <2>2. \/ step.at = "saving material" /\ step' = [at |-> "writing material", asset |-> step.asset]
        \/ step' = [at |-> "idle", asset |-> NoAsset]
    BY <1>4 DEF RegistrySaved, SaveDone, Idle, At
  <2>3. RegisteredIsSaved'
    BY <2>1 DEF RegisteredIsSaved, Registered
  <2>4. LoadedIsRegistered'
    BY <2>1 DEF IInv, LoadedIsRegistered, Registered
  <2>5. MaterialIsRegistered'
    <3>1. CASE step' = [at |-> "idle", asset |-> NoAsset]
      <4>1. step'.at = "idle"
        BY <3>1
      <4> QED
        BY <4>1 DEF MaterialIsRegistered
    <3>2. CASE step.at = "saving material" /\ step' = [at |-> "writing material", asset |-> step.asset]
      <4>1. step'.asset = step.asset /\ step.asset \in Registered
        BY <3>2 DEF IInv, MaterialIsRegistered
      <4> QED
        BY <4>1, <2>1 DEF MaterialIsRegistered, Registered
    <3> QED
      BY <2>2, <3>1, <3>2
  <2> QED
    BY <2>3, <2>4, <2>5 DEF IInv
<1>5. CASE WriteMaterial
  <2>1. step.at = "writing material" /\ registry' = registry /\ saved' = saved
    BY <1>5 DEF WriteMaterial
  <2>2. step' = [at |-> "idle", asset |-> NoAsset]
    BY <1>5 DEF WriteMaterial, Idle, At
  <2>3. step.asset \in Registered
    BY <2>1 DEF IInv, MaterialIsRegistered
  <2>4. loaded' = With(loaded, step.asset, "main")
    BY <1>5 DEF WriteMaterial
  <2>5. LoadedIsRegistered'
    <3> SUFFICES ASSUME NEW k \in DOMAIN loaded', loaded'[k] = "main"
                 PROVE  k \in Registered'
      BY DEF LoadedIsRegistered
    <3>1. \/ k = step.asset
          \/ k \in DOMAIN loaded /\ loaded'[k] = loaded[k]
      BY <2>4, StoredAsset
    <3> QED
      BY <3>1, <2>1, <2>3 DEF IInv, LoadedIsRegistered, Registered
  <2>6. RegisteredIsSaved'
    BY <2>1 DEF IInv, RegisteredIsSaved, Registered
  <2>7. MaterialIsRegistered'
    BY <2>2 DEF MaterialIsRegistered
  <2> QED
    BY <2>5, <2>6, <2>7 DEF IInv
<1>6. ASSUME NEW h \in Handle, GetAsset(h) PROVE IInv'
  <2>1. registry' = registry /\ saved' = saved /\ step' = step /\ h \in Registered
    BY <1>6 DEF GetAsset
  <2>2. loaded' = With(loaded, h, "main")
    BY <1>6 DEF GetAsset
  <2>3. LoadedIsRegistered'
    <3> SUFFICES ASSUME NEW k \in DOMAIN loaded', loaded'[k] = "main"
                 PROVE  k \in Registered'
      BY DEF LoadedIsRegistered
    <3>1. \/ k = h
          \/ k \in DOMAIN loaded /\ loaded'[k] = loaded[k]
      BY <2>2, StoredAsset
    <3> QED
      BY <3>1, <2>1 DEF IInv, LoadedIsRegistered, Registered
  <2> QED
    BY <2>1, <2>3 DEF IInv, RegisteredIsSaved, MaterialIsRegistered, Registered
<1>7. ASSUME NEW h \in Handle, DeleteAsset(h) PROVE IInv'
  <2>1. step = Idle /\ step' = step /\ saved' = saved
    BY <1>7 DEF DeleteAsset
  <2>2. DOMAIN registry' = Registered \ {h}
    BY <1>7, WithoutDomain DEF DeleteAsset, Registered
  <2>3. LoadedIsRegistered'
    <3> SUFFICES ASSUME NEW k \in DOMAIN loaded', loaded'[k] = "main"
                 PROVE  k \in Registered'
      BY DEF LoadedIsRegistered
    <3>1. loaded' = Without(loaded, h)
      BY <1>7 DEF DeleteAsset
    <3>2. k \in DOMAIN loaded \ {h} /\ loaded[k] = "main"
      BY <3>1, WithoutDomain
    <3> QED
      BY <3>2, <2>2 DEF IInv, LoadedIsRegistered, Registered
  <2>4. RegisteredIsSaved'
    BY <2>1, <2>2 DEF IInv, RegisteredIsSaved, Registered
  <2>5. MaterialIsRegistered'
    BY <2>1 DEF MaterialIsRegistered, Idle, At
  <2> QED
    BY <2>3, <2>4, <2>5 DEF IInv
<1>8. ASSUME NEW h \in Handle, FileChanged(h) PROVE IInv'
  BY <1>8, SameHandles DEF FileChanged
<1>9. ASSUME NEW h \in Handle, NEW d \in Dir, NEW n \in PlainName, RenameAsset(h, d, n)
      PROVE IInv'
  <2>1. DOMAIN registry' = DOMAIN registry
    BY <1>9 DEF RenameAsset
  <2>2. UNCHANGED <<saved, loaded, step>>
    BY <1>9 DEF RenameAsset
  <2> QED
    BY <2>1, <2>2, SameHandles
<1>10. ASSUME NEW d \in Dir, NEW name \in Dir, RenameFolder(d, name) PROVE IInv'
  <2>1. DOMAIN registry' = DOMAIN registry
    BY <1>10 DEF RenameFolder, Registered
  <2>2. UNCHANGED <<saved, loaded, step>>
    BY <1>10 DEF RenameFolder
  <2> QED
    BY <2>1, <2>2, SameHandles
<1>11. ASSUME NEW d \in Dir, NewFolder(d) PROVE IInv'
  BY <1>11, SameHandles DEF NewFolder
<1>12. CASE Reimported
  <2>1. registry' = registry /\ saved' = saved /\ step' = step
    BY <1>12 DEF Reimported
  <2>2. LoadedIsRegistered'
    <3> SUFFICES ASSUME NEW k \in DOMAIN loaded', loaded'[k] = "main"
                 PROVE  k \in Registered'
      BY DEF LoadedIsRegistered
    <3>1. \/ loaded' = loaded
          \/ loaded' = With(loaded, watching, "watcher")
      BY <1>12 DEF Reimported
    <3>2. k \in DOMAIN loaded /\ loaded[k] = "main"
      <4>1. CASE loaded' = loaded
        BY <4>1
      <4>2. CASE loaded' = With(loaded, watching, "watcher")
        <5>1. \/ k = watching /\ loaded'[k] = "watcher"
              \/ k \in DOMAIN loaded /\ loaded'[k] = loaded[k]
          BY <4>2, StoredAsset
        <5> QED
          BY <5>1
      <4> QED
        BY <3>1, <4>1, <4>2
    <3> QED
      BY <3>2, <2>1 DEF IInv, LoadedIsRegistered, Registered
  <2> QED
    BY <2>1, <2>2 DEF IInv, RegisteredIsSaved, MaterialIsRegistered, Registered
<1>13. CASE Crash
  BY <1>13, RestartStep DEF Crash
<1>14. CASE Exit
  <2>1. step' = [at |-> "exiting", asset |-> NoAsset] /\ UNCHANGED <<registry, loaded>>
    BY <1>14 DEF Exit, At
  <2> QED
    BY <2>1 DEF IInv, RegisteredIsSaved, LoadedIsRegistered, MaterialIsRegistered, Registered
<1>15. CASE ExitDone
  BY <1>15, RestartStep DEF ExitDone
<1>16. CASE UNCHANGED vars
  BY <1>16, SameHandles DEF vars
<1> QED
  BY <1>1, <1>2, <1>3, <1>4, <1>5, <1>6, <1>7, <1>8, <1>9, <1>10, <1>11, <1>12, <1>13,
     <1>14, <1>15, <1>16, <1>17 DEF Next

LEMMA InitInv == Init => IInv
<1> SUFFICES ASSUME Init PROVE IInv
  OBVIOUS
<1>1. step = [at |-> "idle", asset |-> NoAsset] /\ registry = Nothing /\ loaded = Nothing
  BY DEF Init, Idle, At
<1> QED
  BY <1>1, NothingLoaded
  DEF IInv, RegisteredIsSaved, LoadedIsRegistered, MaterialIsRegistered, Registered

\* registry_set_metadata is enough: at every moment but those in which the
\* registry file is written, a crash and a restart lose no registered asset.
THEOREM NoCrashForgetsAnAsset == Spec => []RegisteredIsSaved
<1>1. IInv => RegisteredIsSaved
  BY DEF IInv
<1> QED
  BY <1>1, InitInv, NextStep, PTL DEF Spec

\* get_asset, save_asset and delete_asset agree: what the main thread has
\* loaded is registered, whatever the watcher's thread imports meanwhile.
THEOREM MainThreadLoadsRegisteredAssets == Spec => []LoadedIsRegistered
<1>1. IInv => LoadedIsRegistered
  BY DEF IInv
<1> QED
  BY <1>1, InitInv, NextStep, PTL DEF Spec

----------------------------------------------------------------------------
(* Paths, part by part *)

Part == Folder \union Name

LEMMA DirSeq ==
  ASSUME NEW d
  PROVE  d \in Dir <=> d \in Seq(Folder) /\ Len(d) <= MaxDepth
<1>1. ASSUME d \in Dir PROVE d \in Seq(Folder) /\ Len(d) <= MaxDepth
  <2>1. PICK m \in 0..MaxDepth : d \in [1..m -> Folder]
    BY <1>1 DEF Dir, BoundedSeq, SeqOf
  <2> QED
    BY <2>1, BoundAssumption, SeqDef
<1>2. ASSUME d \in Seq(Folder), Len(d) <= MaxDepth PROVE d \in Dir
  <2>1. Len(d) \in 0..MaxDepth /\ d \in [1..Len(d) -> Folder]
    BY <1>2, BoundAssumption, LenProperties
  <2> QED
    BY <2>1 DEF Dir, BoundedSeq, SeqOf
<1> QED
  BY <1>1, <1>2

LEMMA DirParts ==
  ASSUME NEW d \in Dir
  PROVE  d \in Seq(Part) /\ Len(d) \in 0..MaxDepth /\ \A i \in 1..Len(d) : d[i] \in Folder
<1>1. d \in Seq(Folder) /\ Len(d) <= MaxDepth
  BY DirSeq
<1> QED
  BY <1>1, SeqMonotonic, LenProperties, ElementOfSeq, BoundAssumption DEF Part

\* The parts of a path are folders, but for the last.
LEMMA PathParts ==
  ASSUME NEW p \in Path
  PROVE  /\ p \in Seq(Part) /\ Len(p) \in 1..(MaxDepth + 1)
         /\ \A i \in 1..(Len(p) - 1) : p[i] \in Folder
         /\ p[Len(p)] \in Name
<1>1. PICK d \in Dir, n \in Name : p = Append(d, n)
  BY DEF Path
<1>2. d \in Seq(Part) /\ Len(d) \in 0..MaxDepth /\ \A i \in 1..Len(d) : d[i] \in Folder
  BY DirParts
<1>3. n \in Part
  BY DEF Part
<1> QED
  BY <1>1, <1>2, <1>3, AppendProperties, BoundAssumption

LEMMA FirstParts ==
  ASSUME NEW S, NEW s, NEW n \in Nat, \A i \in 1..n : s[i] \in S
  PROVE  /\ SubSeq(s, 1, n) \in Seq(S) /\ Len(SubSeq(s, 1, n)) = n
         /\ \A i \in 1..n : SubSeq(s, 1, n)[i] = s[i]
<1>1. /\ SubSeq(s, 1, n) \in Seq(S)
      /\ Len(SubSeq(s, 1, n)) = IF 1 <= n THEN n - 1 + 1 ELSE 0
      /\ \A i \in 1..(n - 1 + 1) : SubSeq(s, 1, n)[i] = s[1 + i - 1]
  <2>1. 1 \in Int /\ n \in Int
    OBVIOUS
  <2> QED
    BY <2>1, SubSeqProperties
<1>2. \A i \in 1..n : 1 + i - 1 = i
  OBVIOUS
<1> QED
  BY <1>1, <1>2

\* Both for a path, whose front has folders for parts, and for a folder.
LEMMA FrontParts ==
  ASSUME NEW S, NEW s, Len(s) \in Nat \ {0}, \A i \in 1..(Len(s) - 1) : s[i] \in S
  PROVE  /\ Front(s) \in Seq(S) /\ Len(Front(s)) = Len(s) - 1
         /\ \A i \in 1..(Len(s) - 1) : Front(s)[i] = s[i]
<1> DEFINE n == Len(s) - 1
<1>1. n \in Nat /\ \A i \in 1..n : s[i] \in S
  OBVIOUS
<1> HIDE DEF n
<1>2. /\ SubSeq(s, 1, n) \in Seq(S) /\ Len(SubSeq(s, 1, n)) = n
      /\ \A i \in 1..n : SubSeq(s, 1, n)[i] = s[i]
  BY <1>1, FirstParts
<1> QED
  BY <1>2 DEF Front, n

LEMMA PathFront ==
  ASSUME NEW p \in Path
  PROVE  p # <<>> /\ Front(p) \in Dir
<1>1. /\ p \in Seq(Part) /\ Len(p) \in 1..(MaxDepth + 1)
      /\ \A i \in 1..(Len(p) - 1) : p[i] \in Folder
  BY PathParts
<1>2. p # <<>>
  BY <1>1, EmptySeq
<1>3. Front(p) \in Seq(Folder) /\ Len(Front(p)) = Len(p) - 1
  BY <1>1, FrontParts, BoundAssumption
<1> QED
  BY <1>1, <1>2, <1>3, DirSeq, BoundAssumption

\* A sequence of parts like these is a path.
LEMMA MadePath ==
  ASSUME NEW p \in Seq(Part), Len(p) \in 1..(MaxDepth + 1),
         \A i \in 1..(Len(p) - 1) : p[i] \in Folder, p[Len(p)] \in Name
  PROVE  p \in Path
<1>1. PICK m \in Nat : m = Len(p) - 1
  <2>1. Len(p) - 1 \in Nat
    BY BoundAssumption
  <2> QED
    BY <2>1
<1>2. Front(p) \in Seq(Folder) /\ Len(Front(p)) = m /\ \A i \in 1..m : Front(p)[i] = p[i]
  BY <1>1, FrontParts, BoundAssumption
<1>3. Front(p) \in Dir
  BY <1>1, <1>2, DirSeq, BoundAssumption
<1>4. p = Append(Front(p), p[Len(p)])
  <2>1. Front(p) \in Seq(Part) /\ p[Len(p)] \in Part
    BY <1>2, SeqMonotonic DEF Part
  <2>2. /\ Append(Front(p), p[Len(p)]) \in Seq(Part)
        /\ Len(Append(Front(p), p[Len(p)])) = m + 1
        /\ \A i \in 1..m : Append(Front(p), p[Len(p)])[i] = p[i]
        /\ Append(Front(p), p[Len(p)])[m + 1] = p[Len(p)]
    BY <2>1, <1>2, AppendProperties
  <2>3. \A i \in 1..Len(p) : Append(Front(p), p[Len(p)])[i] = p[i]
    BY <2>2, <1>1
  <2> QED
    BY <2>2, <2>3, <1>1, SeqEqual
<1> QED
  BY <1>3, <1>4 DEF Path

LEMMA MadeDir ==
  ASSUME NEW d \in Seq(Part), Len(d) <= MaxDepth, \A i \in 1..Len(d) : d[i] \in Folder
  PROVE  d \in Dir
<1>1. d \in [1..Len(d) -> Folder] /\ Len(d) \in Nat
  BY LenProperties
<1>2. d \in Seq(Folder)
  BY <1>1, SeqDef
<1> QED
  BY <1>2, DirSeq

LEMMA NoDirIsAPath == Dir \intersect Path = {}
<1> SUFFICES ASSUME NEW p \in Dir, p \in Path PROVE FALSE
  OBVIOUS
<1>1. Len(p) \in 1..(MaxDepth + 1) /\ p[Len(p)] \in Name
  BY PathParts
<1>2. p[Len(p)] \in Folder
  BY <1>1, DirParts, BoundAssumption
<1> QED
  BY <1>1, <1>2, NameAssumption

LEMMA PrefixParts ==
  ASSUME NEW s \in Seq(Part), NEW t \in Seq(Part)
  PROVE  IsPrefix(s, t) <=> Len(s) <= Len(t) /\ \A i \in 1..Len(s) : s[i] = t[i]
<1>1. Len(s) \in Nat /\ Len(t) \in Nat
  BY LenProperties
<1>2. SubSeq(s, 1, Len(s)) = s
  BY SubSeqFull
<1>3. ASSUME Len(s) <= Len(t)
      PROVE  SubSeq(t, 1, Len(s)) = s <=> \A i \in 1..Len(s) : s[i] = t[i]
  <2>1. \A i \in 1..Len(s) : t[i] \in Part
    BY <1>1, <1>3, ElementOfSeq
  <2>2. /\ SubSeq(t, 1, Len(s)) \in Seq(Part)
        /\ Len(SubSeq(t, 1, Len(s))) = Len(s)
        /\ \A i \in 1..Len(s) : SubSeq(t, 1, Len(s))[i] = t[i]
    BY <2>1, <1>1, SubSeqProperties
  <2> QED
    BY <2>2, SeqEqual
<1> QED
  BY <1>1, <1>2, <1>3 DEF IsPrefix

LEMMA RestParts ==
  ASSUME NEW s \in Seq(Part), NEW k \in Nat \ {0}, k <= Len(s) + 1
  PROVE  /\ SubSeq(s, k, Len(s)) \in Seq(Part) /\ Len(SubSeq(s, k, Len(s))) = Len(s) - k + 1
         /\ \A i \in 1..(Len(s) - k + 1) : SubSeq(s, k, Len(s))[i] = s[k + i - 1]
<1>1. Len(s) \in Nat
  BY LenProperties
<1>2. \A i \in k..Len(s) : s[i] \in Part
  BY <1>1, ElementOfSeq
<1>3. /\ SubSeq(s, k, Len(s)) \in Seq(Part)
      /\ Len(SubSeq(s, k, Len(s))) = IF k <= Len(s) THEN Len(s) - k + 1 ELSE 0
      /\ \A i \in 1..(Len(s) - k + 1) : SubSeq(s, k, Len(s))[i] = s[k + i - 1]
  <2>1. k \in Int /\ Len(s) \in Int
    BY <1>1
  <2> QED
    BY <2>1, <1>2, SubSeqProperties
<1> QED
  BY <1>1, <1>3

\* A path whose beginning is replaced: what Moved and Rebased make.
IsSplice(q, a, s, k) ==
  /\ q \in Seq(Part) /\ Len(q) = Len(a) + Len(s) - k + 1
  /\ \A i \in 1..Len(a) : q[i] = a[i]
  /\ \A i \in (Len(a) + 1)..Len(q) : q[i] = s[k + (i - Len(a)) - 1]

LEMMA Spliced ==
  ASSUME NEW a \in Seq(Part), NEW s \in Seq(Part), NEW k \in Nat \ {0}, k <= Len(s) + 1
  PROVE  IsSplice(a \o SubSeq(s, k, Len(s)), a, s, k)
<1> DEFINE t == SubSeq(s, k, Len(s))
           q == a \o t
<1>1. Len(a) \in Nat /\ Len(s) \in Nat
  BY LenProperties
<1>2. /\ t \in Seq(Part) /\ Len(t) = Len(s) - k + 1
      /\ \A i \in 1..(Len(s) - k + 1) : t[i] = s[k + i - 1]
  BY RestParts
<1>3. q = a \o t
  OBVIOUS
<1> HIDE DEF t, q
<1>4. /\ q \in Seq(Part) /\ Len(q) = Len(a) + Len(t)
      /\ \A i \in 1..(Len(a) + Len(t)) : q[i] = IF i <= Len(a) THEN a[i] ELSE t[i - Len(a)]
  <2>1. t \in Seq(Part)
    BY <1>2
  <2>2. /\ a \o t \in Seq(Part) /\ Len(a \o t) = Len(a) + Len(t)
        /\ \A i \in 1..(Len(a) + Len(t)) :
             (a \o t)[i] = IF i <= Len(a) THEN a[i] ELSE t[i - Len(a)]
    BY <2>1, ConcatProperties
  <2> QED
    BY <2>2, <1>3
<1>5. Len(t) \in Nat /\ Len(q) = Len(a) + Len(s) - k + 1
  BY <1>1, <1>2, <1>4
<1>6. ASSUME NEW i \in 1..Len(a) PROVE q[i] = a[i]
  <2>1. i \in 1..(Len(a) + Len(t)) /\ i <= Len(a)
    BY <1>1, <1>5
  <2> QED
    BY <2>1, <1>4
<1>7. ASSUME NEW i \in (Len(a) + 1)..Len(q) PROVE q[i] = s[k + (i - Len(a)) - 1]
  <2>1. i - Len(a) \in 1..(Len(s) - k + 1)
    BY <1>1, <1>5
  <2>2. q[i] = t[i - Len(a)]
    BY <1>1, <1>2, <1>4
  <2> QED
    BY <2>1, <2>2, <1>2
<1> QED
  BY <1>4, <1>5, <1>6, <1>7 DEF IsSplice, q, t

LEMMA SplicedPath ==
  ASSUME NEW a \in Seq(Part), \A i \in 1..Len(a) : a[i] \in Folder,
         NEW p \in Path, NEW k \in 1..Len(p), NEW q,
         q = a \o SubSeq(p, k, Len(p)), Len(q) <= MaxDepth + 1
  PROVE  q \in Path
<1>1. /\ p \in Seq(Part) /\ Len(p) \in 1..(MaxDepth + 1) /\ p[Len(p)] \in Name
      /\ \A i \in 1..(Len(p) - 1) : p[i] \in Folder
  BY PathParts
<1>2. Len(a) \in Nat /\ Len(p) \in Nat /\ k \in Nat \ {0} /\ k <= Len(p)
  BY <1>1, LenProperties
<1>3. /\ q \in Seq(Part) /\ Len(q) = Len(a) + Len(p) - k + 1
      /\ \A i \in 1..Len(a) : q[i] = a[i]
      /\ \A i \in (Len(a) + 1)..Len(q) : q[i] = p[k + (i - Len(a)) - 1]
  <2>1. p \in Seq(Part) /\ k <= Len(p) + 1
    BY <1>1, <1>2
  <2>2. IsSplice(a \o SubSeq(p, k, Len(p)), a, p, k)
    BY <2>1, <1>2, Spliced
  <2> QED
    BY <2>2 DEF IsSplice
<1>4. Len(q) \in 1..(MaxDepth + 1)
  BY <1>2, <1>3, BoundAssumption
<1>5. q[Len(q)] \in Name
  <2>1. Len(q) \in (Len(a) + 1)..Len(q) /\ k + (Len(q) - Len(a)) - 1 = Len(p)
    BY <1>2, <1>3
  <2> QED
    BY <2>1, <1>1, <1>3
<1>6. ASSUME NEW i \in 1..(Len(q) - 1) PROVE q[i] \in Folder
  <2>1. CASE i <= Len(a)
    BY <2>1, <1>2, <1>3
  <2>2. CASE i > Len(a)
    <3>1. i \in (Len(a) + 1)..Len(q) /\ k + (i - Len(a)) - 1 \in 1..(Len(p) - 1)
      BY <2>2, <1>2, <1>3
    <3> QED
      BY <3>1, <1>1, <1>3
  <2> QED
    BY <2>1, <2>2, <1>2, <1>3
<1> QED
  BY <1>3, <1>4, <1>5, <1>6, MadePath

----------------------------------------------------------------------------
(* What renaming the folder d to new does to the paths *)

LEMMA MovedParts ==
  ASSUME NEW p \in Seq(Part), NEW d \in Seq(Part), NEW new \in Seq(Part), IsPrefix(d, p)
  PROVE  /\ Moved(p, d, new) \in Seq(Part)
         /\ Len(Moved(p, d, new)) = Len(new) + (Len(p) - Len(d))
         /\ \A i \in 1..Len(new) : Moved(p, d, new)[i] = new[i]
         /\ \A i \in (Len(new) + 1)..(Len(new) + (Len(p) - Len(d))) :
              Moved(p, d, new)[i] = p[Len(d) + (i - Len(new))]
<1> DEFINE q == Moved(p, d, new)
<1>1. Len(p) \in Nat /\ Len(d) \in Nat /\ Len(new) \in Nat /\ Len(d) <= Len(p)
  BY LenProperties, PrefixParts
<1> DEFINE k == Len(d) + 1
<1>2. k \in Nat \ {0} /\ k <= Len(p) + 1
  BY <1>1
<1>3. q = new \o SubSeq(p, k, Len(p))
  BY DEF Moved
<1>4. k = Len(d) + 1
  OBVIOUS
<1> HIDE DEF k, q
<1>5. /\ q \in Seq(Part) /\ Len(q) = Len(new) + Len(p) - k + 1
      /\ \A i \in 1..Len(new) : q[i] = new[i]
      /\ \A i \in (Len(new) + 1)..Len(q) : q[i] = p[k + (i - Len(new)) - 1]
  <2>1. IsSplice(new \o SubSeq(p, k, Len(p)), new, p, k)
    BY <1>2, Spliced
  <2> QED
    BY <2>1, <1>3 DEF IsSplice
<1>6. \A i \in (Len(new) + 1)..Len(q) : k + (i - Len(new)) - 1 = Len(d) + (i - Len(new))
  BY <1>1, <1>4, <1>5
<1>7. Len(q) = Len(new) + (Len(p) - Len(d))
  BY <1>1, <1>4, <1>5
<1>8. \A i \in (Len(new) + 1)..(Len(new) + (Len(p) - Len(d))) : q[i] = p[Len(d) + (i - Len(new))]
  BY <1>5, <1>6, <1>7
<1> QED
  BY <1>5, <1>7, <1>8 DEF q

LEMMA MovedSeq ==
  ASSUME NEW p \in Seq(Part), NEW d \in Seq(Part), NEW new \in Seq(Part)
  PROVE  Moved(p, d, new) \in Seq(Part)
<1>1. CASE IsPrefix(d, p)
  BY <1>1, MovedParts
<1>2. CASE ~IsPrefix(d, p)
  BY <1>2 DEF Moved
<1> QED
  BY <1>1, <1>2

\* Two files do not move to one path: what is below new now was not there.
LEMMA MovedInjective ==
  ASSUME NEW d \in Dir, NEW new \in Seq(Part), NEW p \in Path, NEW q \in Path,
         ~IsStrictPrefix(new, p), ~IsStrictPrefix(new, q),
         Moved(p, d, new) = Moved(q, d, new)
  PROVE  p = q
<1>1. d \in Seq(Part) /\ p \in Seq(Part) /\ q \in Seq(Part)
  BY DirParts, PathParts
<1>2. /\ Len(d) \in Nat /\ Len(new) \in Nat /\ Len(p) \in Nat /\ Len(q) \in Nat
  BY <1>1, LenProperties
<1>3. ASSUME NEW r \in Path, NEW s \in Path, IsPrefix(d, r), ~IsPrefix(d, s),
             Moved(r, d, new) = Moved(s, d, new)
      PROVE  IsStrictPrefix(new, s)
  <2>1. Moved(r, d, new) = s
    BY <1>3 DEF Moved
  <2>2. r \in Seq(Part) /\ s \in Seq(Part) /\ Len(r) \in Nat /\ Len(s) \in Nat
    BY PathParts, LenProperties
  <2>3. Len(s) = Len(new) + (Len(r) - Len(d)) /\ \A i \in 1..Len(new) : s[i] = new[i]
    <3>1. /\ Len(Moved(r, d, new)) = Len(new) + (Len(r) - Len(d))
          /\ \A i \in 1..Len(new) : Moved(r, d, new)[i] = new[i]
      BY <1>1, <1>3, <2>2, MovedParts
    <3> QED
      BY <2>1, <3>1
  <2>4. Len(d) < Len(r)
    <3>1. Len(d) <= Len(r) /\ \A i \in 1..Len(d) : d[i] = r[i]
      BY <1>1, <1>3, <2>2, PrefixParts
    <3>2. ASSUME Len(d) = Len(r) PROVE FALSE
      <4>1. d = r
        BY <3>1, <3>2, <1>1, <2>2, SeqEqual
      <4> QED
        BY <4>1, NoDirIsAPath
    <3> QED
      BY <3>1, <3>2, <1>2, <2>2
  <2>5. IsPrefix(new, s)
    BY <2>2, <2>3, <2>4, <1>2, PrefixParts
  <2>6. new # s
    BY <2>2, <2>3, <2>4, <1>2
  <2> QED
    BY <2>5, <2>6 DEF IsStrictPrefix
<1>4. CASE IsPrefix(d, p) /\ IsPrefix(d, q)
  <2>1. PICK m : m = Moved(p, d, new)
    OBVIOUS
  <2>2. /\ Len(m) = Len(new) + (Len(p) - Len(d))
        /\ \A i \in (Len(new) + 1)..(Len(new) + (Len(p) - Len(d))) : m[i] = p[Len(d) + (i - Len(new))]
    <3>1. /\ Len(Moved(p, d, new)) = Len(new) + (Len(p) - Len(d))
          /\ \A i \in (Len(new) + 1)..(Len(new) + (Len(p) - Len(d))) :
               Moved(p, d, new)[i] = p[Len(d) + (i - Len(new))]
      BY <1>1, <1>4, MovedParts
    <3> QED
      BY <2>1, <3>1
  <2>3. /\ Len(m) = Len(new) + (Len(q) - Len(d))
        /\ \A i \in (Len(new) + 1)..(Len(new) + (Len(q) - Len(d))) : m[i] = q[Len(d) + (i - Len(new))]
    <3>1. m = Moved(q, d, new)
      BY <2>1
    <3>2. /\ Len(Moved(q, d, new)) = Len(new) + (Len(q) - Len(d))
          /\ \A i \in (Len(new) + 1)..(Len(new) + (Len(q) - Len(d))) :
               Moved(q, d, new)[i] = q[Len(d) + (i - Len(new))]
      BY <1>1, <1>4, MovedParts
    <3> QED
      BY <3>1, <3>2
  <2>4. /\ \A i \in 1..Len(d) : d[i] = p[i]
        /\ \A i \in 1..Len(d) : d[i] = q[i]
    BY <1>1, <1>4, PrefixParts
  <2>5. Len(p) = Len(q)
    BY <2>2, <2>3, <1>2
  <2>6. ASSUME NEW i \in 1..Len(p) PROVE p[i] = q[i]
    <3>1. CASE i <= Len(d)
      BY <3>1, <2>4, <1>2
    <3>2. CASE i > Len(d)
      <4>1. PICK j : j = Len(new) + (i - Len(d))
        OBVIOUS
      <4>2. j \in (Len(new) + 1)..Len(m) /\ Len(d) + (j - Len(new)) = i
        BY <3>2, <4>1, <1>2, <2>2
      <4> QED
        BY <4>2, <2>2, <2>3
    <3> QED
      BY <3>1, <3>2, <1>2
  <2> QED
    BY <2>5, <2>6, <1>1, SeqEqual
<1>5. CASE ~IsPrefix(d, p) /\ ~IsPrefix(d, q)
  BY <1>5 DEF Moved
<1> QED
  BY <1>3, <1>4, <1>5

LEMMA MovedFront ==
  ASSUME NEW d \in Seq(Part), NEW new \in Seq(Part), d # <<>>, new # <<>>, ~IsPrefix(d, new),
         NEW e \in Seq(Part), e # <<>>
  PROVE  \/ e = d /\ Front(Moved(e, d, new)) = Moved(Front(new), d, new)
         \/ Front(Moved(e, d, new)) = Moved(Front(e), d, new)
<1>1. /\ Len(d) \in Nat \ {0} /\ Len(new) \in Nat \ {0} /\ Len(e) \in Nat \ {0}
  BY EmptySeq
<1>2. ASSUME NEW s \in Seq(Part), s # <<>>
      PROVE  /\ Front(s) \in Seq(Part) /\ Len(Front(s)) = Len(s) - 1
             /\ \A i \in 1..(Len(s) - 1) : Front(s)[i] = s[i]
  <2>1. Len(s) \in Nat \ {0} /\ \A i \in 1..(Len(s) - 1) : s[i] \in Part
    BY <1>2, EmptySeq, ElementOfSeq
  <2> QED
    BY <2>1, FrontParts
<1>3. ASSUME NEW s \in Seq(Part), s # <<>>, ~IsPrefix(d, s) PROVE ~IsPrefix(d, Front(s))
  <2>1. Len(s) \in Nat \ {0}
    BY <1>3, EmptySeq
  <2>2. /\ Front(s) \in Seq(Part) /\ Len(Front(s)) = Len(s) - 1
        /\ \A i \in 1..(Len(s) - 1) : Front(s)[i] = s[i]
    BY <1>3, <1>2
  <2>3. ASSUME IsPrefix(d, Front(s)) PROVE IsPrefix(d, s)
    <3>1. Len(d) <= Len(s) - 1 /\ \A i \in 1..Len(d) : d[i] = Front(s)[i]
      BY <2>2, <2>3, PrefixParts
    <3>2. Len(d) <= Len(s) /\ \A i \in 1..Len(d) : d[i] = s[i]
      BY <3>1, <2>1, <2>2, <1>1
    <3> QED
      BY <3>2, PrefixParts
  <2> QED
    BY <1>3, <2>3
<1>4. CASE ~IsPrefix(d, e)
  <2>1. ~IsPrefix(d, Front(e))
    BY <1>3, <1>4
  <2> QED
    BY <2>1, <1>4 DEF Moved
<1>5. CASE IsPrefix(d, e) /\ e = d
  <2>1. /\ Moved(e, d, new) \in Seq(Part)
        /\ Len(Moved(e, d, new)) = Len(new) + (Len(e) - Len(d))
        /\ \A i \in 1..Len(new) : Moved(e, d, new)[i] = new[i]
    BY <1>5, MovedParts
  <2>2. Len(Moved(e, d, new)) = Len(new)
    BY <2>1, <1>1, <1>5
  <2>3. Moved(e, d, new) = new
    BY <2>1, <2>2, SeqEqual
  <2>4. Moved(Front(new), d, new) = Front(new)
    BY <1>3 DEF Moved
  <2> QED
    BY <2>3, <2>4, <1>5
<1>6. CASE IsPrefix(d, e) /\ e # d
  <2>0. /\ Front(e) \in Seq(Part) /\ Len(Front(e)) = Len(e) - 1
        /\ \A i \in 1..(Len(e) - 1) : Front(e)[i] = e[i]
    BY <1>2
  <2> DEFINE m == Moved(e, d, new)
             f == Front(e)
             n == Moved(f, d, new)
  <2>1. Len(d) <= Len(e) /\ \A i \in 1..Len(d) : d[i] = e[i]
    BY <1>6, PrefixParts
  <2>2. Len(d) < Len(e)
    <3>1. ASSUME Len(d) = Len(e) PROVE FALSE
      BY <2>1, <3>1, <1>6, SeqEqual
    <3> QED
      BY <2>1, <3>1, <1>1
  <2>3. f \in Seq(Part) /\ Len(f) = Len(e) - 1 /\ \A i \in 1..(Len(e) - 1) : f[i] = e[i]
    BY <2>0
  <2>4. /\ m \in Seq(Part) /\ Len(m) = Len(new) + (Len(e) - Len(d))
        /\ \A i \in 1..Len(new) : m[i] = new[i]
        /\ \A i \in (Len(new) + 1)..(Len(new) + (Len(e) - Len(d))) :
             m[i] = e[Len(d) + (i - Len(new))]
    BY <1>6, MovedParts
  <2>5. Len(m) \in Nat \ {0} /\ m # <<>>
    BY <2>2, <2>4, <1>1, EmptySeq
  <2> HIDE DEF m, f, n
  <2>6. IsPrefix(d, f)
    <3>1. Len(d) <= Len(f) /\ \A i \in 1..Len(d) : d[i] = f[i]
      BY <2>1, <2>2, <2>3, <1>1
    <3>2. f \in Seq(Part)
      BY <2>3
    <3> QED
      BY <3>1, <3>2, PrefixParts
  <2>7. /\ n \in Seq(Part) /\ Len(n) = Len(new) + (Len(f) - Len(d))
        /\ \A i \in 1..Len(new) : n[i] = new[i]
        /\ \A i \in (Len(new) + 1)..(Len(new) + (Len(f) - Len(d))) :
             n[i] = f[Len(d) + (i - Len(new))]
    <3>1. f \in Seq(Part)
      BY <2>3
    <3> QED
      BY <3>1, <2>6, MovedParts DEF n
  <2>8. /\ Front(m) \in Seq(Part) /\ Len(Front(m)) = Len(m) - 1
        /\ \A i \in 1..(Len(m) - 1) : Front(m)[i] = m[i]
    BY <2>4, <2>5, <1>2
  <2>9. Len(Front(m)) = Len(n)
    BY <2>3, <2>4, <2>7, <2>8, <1>1
  <2>10. ASSUME NEW i \in 1..Len(n) PROVE Front(m)[i] = n[i]
    <3>1. i \in Nat /\ i >= 1 /\ i <= Len(m) - 1 /\ Front(m)[i] = m[i]
      BY <2>7, <2>8, <2>9, <2>5
    <3>2. CASE i <= Len(new)
      BY <3>1, <3>2, <2>4, <2>7, <1>1
    <3>3. CASE i > Len(new)
      <4>1. /\ i \in (Len(new) + 1)..(Len(new) + (Len(e) - Len(d)))
            /\ i \in (Len(new) + 1)..(Len(new) + (Len(f) - Len(d)))
        BY <3>1, <3>3, <2>3, <2>4, <1>1
      <4>2. Len(d) + (i - Len(new)) \in 1..(Len(e) - 1)
        BY <4>1, <2>3, <1>1
      <4>3. m[i] = e[Len(d) + (i - Len(new))] /\ n[i] = f[Len(d) + (i - Len(new))]
        BY <4>1, <2>4, <2>7
      <4> QED
        BY <4>2, <4>3, <3>1, <2>3
    <3> QED
      BY <3>1, <3>2, <3>3, <1>1
  <2>11. Front(m) = n
    BY <2>7, <2>8, <2>9, <2>10, SeqEqual
  <2> QED
    BY <2>11 DEF m, n, f
<1> QED
  BY <1>4, <1>5, <1>6

----------------------------------------------------------------------------
(* Names cut at their first zero byte *)

Plain(p) == Shown[Last(p)] = Last(p)

LEMMA AppendFront ==
  ASSUME NEW S, NEW d \in Seq(S), NEW n \in S
  PROVE  Front(Append(d, n)) = d /\ Last(Append(d, n)) = n
<1> DEFINE p == Append(d, n)
<1>1. /\ p \in Seq(S) /\ Len(p) = Len(d) + 1 /\ p[Len(d) + 1] = n
      /\ \A i \in 1..Len(d) : p[i] = d[i]
  BY AppendProperties
<1>2. Len(d) \in Nat
  BY LenProperties
<1>3. \A i \in 1..Len(d) : p[i] \in S
  BY <1>1, ElementOfSeq
<1> HIDE DEF p
<1>4. /\ SubSeq(p, 1, Len(d)) \in Seq(S) /\ Len(SubSeq(p, 1, Len(d))) = Len(d)
      /\ \A i \in 1..Len(d) : SubSeq(p, 1, Len(d))[i] = p[i]
  BY <1>2, <1>3, FirstParts
<1>5. SubSeq(p, 1, Len(d)) = d
  BY <1>1, <1>4, SeqEqual
<1>6. Len(p) - 1 = Len(d)
  BY <1>1, <1>2
<1>7. Front(p) = d /\ Last(p) = n
  BY <1>1, <1>5, <1>6 DEF Front, Last
<1> QED
  BY <1>7 DEF p

LEMMA CutPath ==
  ASSUME NEW p \in Path
  PROVE  /\ Cut(p) \in Path /\ Front(Cut(p)) = Front(p) /\ Plain(Cut(p))
         /\ Plain(p) => Cut(p) = p
<1>1. PICK d \in Dir, n \in Name : p = Append(d, n)
  BY DEF Path
<1>2. d \in Seq(Part) /\ n \in Part /\ Shown[n] \in Name /\ Shown[n] \in Part
  BY DirParts, ShownAssumption DEF Part
<1>3. Front(p) = d /\ Last(p) = n
  BY <1>1, <1>2, AppendFront
<1>4. Cut(p) = Append(d, Shown[n])
  BY <1>3 DEF Cut
<1>5. Front(Cut(p)) = d /\ Last(Cut(p)) = Shown[n]
  BY <1>2, <1>4, AppendFront
<1>6. Shown[Shown[n]] = Shown[n]
  BY ShownAssumption
<1> QED
  BY <1>1, <1>2, <1>3, <1>4, <1>5, <1>6 DEF Path, Plain

LEMMA PlainPaths ==
  ASSUME NEW p
  PROVE  p \in PlainPath <=> p \in Path /\ Plain(p)
<1>1. ASSUME NEW d \in Dir, NEW n \in Name PROVE Last(Append(d, n)) = n
  <2>1. d \in Seq(Part) /\ n \in Part
    BY DirParts DEF Part
  <2> QED
    BY <2>1, AppendFront
<1>2. ASSUME p \in PlainPath PROVE p \in Path /\ Plain(p)
  <2>1. PICK d \in Dir, n \in Name : p = Append(d, n) /\ Shown[n] = n
    BY <1>2 DEF PlainPath, PlainName
  <2>2. Last(p) = n
    BY <1>1, <2>1
  <2> QED
    BY <2>1, <2>2 DEF Path, Plain
<1>3. ASSUME p \in Path, Plain(p) PROVE p \in PlainPath
  <2>1. PICK d \in Dir, n \in Name : p = Append(d, n)
    BY <1>3 DEF Path
  <2>2. Last(p) = n
    BY <1>1, <2>1
  <2>3. n \in PlainName
    BY <1>3, <2>2 DEF Plain, PlainName
  <2> QED
    BY <2>1, <2>3 DEF PlainPath
<1> QED
  BY <1>2, <1>3

LEMMA PlainCut ==
  ASSUME NEW p \in PlainPath
  PROVE  p \in Path /\ Plain(p) /\ Cut(p) = p
BY PlainPaths, CutPath

----------------------------------------------------------------------------
(* The maps *)

LEMMA PartialFunction ==
  ASSUME NEW f, NEW S, NEW T
  PROVE  f \in PartialFunctions(S, T) <=> DOMAIN f \subseteq S /\ f \in [DOMAIN f -> T]
BY DEF PartialFunctions

LEMMA NothingIsPartial ==
  ASSUME NEW S, NEW T
  PROVE  Nothing \in PartialFunctions(S, T) /\ IsInjective(Nothing)
BY PartialFunction DEF Nothing, IsInjective

LEMMA WithIsPartial ==
  ASSUME NEW S, NEW T, NEW f \in PartialFunctions(S, T), NEW x \in S, NEW y \in T
  PROVE  With(f, x, y) \in PartialFunctions(S, T)
<1>1. DOMAIN f \subseteq S /\ f \in [DOMAIN f -> T]
  BY PartialFunction
<1>2. With(f, x, y) \in [DOMAIN f \union {x} -> T]
  BY <1>1 DEF With
<1> QED
  BY <1>1, <1>2 DEF PartialFunctions

LEMMA WithoutIsPartial ==
  ASSUME NEW S, NEW T, NEW f \in PartialFunctions(S, T), NEW x
  PROVE  Without(f, x) \in PartialFunctions(S, T)
<1>1. DOMAIN f \subseteq S /\ f \in [DOMAIN f -> T]
  BY PartialFunction
<1>2. Without(f, x) \in [DOMAIN f \ {x} -> T]
  BY <1>1 DEF Without, Restrict
<1> QED
  BY <1>1, <1>2 DEF PartialFunctions

LEMMA WithIsInjective ==
  ASSUME NEW f, IsInjective(f), NEW x, NEW y, \A z \in DOMAIN f : z # x => f[z] # y
  PROVE  IsInjective(With(f, x, y))
<1> DEFINE g == With(f, x, y)
<1>1. /\ DOMAIN g = DOMAIN f \union {x} /\ g[x] = y
      /\ \A z \in DOMAIN f : z # x => g[z] = f[z]
  BY DEF With
<1> HIDE DEF g
<1>2. ASSUME NEW a \in DOMAIN g, NEW b \in DOMAIN g, g[a] = g[b] PROVE a = b
  <2>1. CASE a # x /\ b # x
    <3>1. a \in DOMAIN f /\ b \in DOMAIN f /\ g[a] = f[a] /\ g[b] = f[b]
      BY <1>1, <2>1
    <3> QED
      BY <3>1, <1>2 DEF IsInjective
  <2>2. CASE a = x /\ b # x
    <3>1. b \in DOMAIN f /\ g[b] = f[b] /\ f[b] # y /\ g[a] = y
      BY <1>1, <2>2
    <3> QED
      BY <3>1, <1>2
  <2>3. CASE a # x /\ b = x
    <3>1. a \in DOMAIN f /\ g[a] = f[a] /\ f[a] # y /\ g[b] = y
      BY <1>1, <2>3
    <3> QED
      BY <3>1, <1>2
  <2> QED
    BY <2>1, <2>2, <2>3
<1> QED
  BY <1>2 DEF IsInjective, g

LEMMA WithoutIsInjective ==
  ASSUME NEW f, IsInjective(f), NEW x
  PROVE  /\ IsInjective(Without(f, x))
         /\ x \in DOMAIN f => \A z \in DOMAIN Without(f, x) : Without(f, x)[z] # f[x]
<1> DEFINE g == Without(f, x)
<1>1. DOMAIN g = DOMAIN f \ {x} /\ \A z \in DOMAIN f \ {x} : g[z] = f[z]
  BY WithoutDomain
<1> HIDE DEF g
<1>2. \A a, b \in DOMAIN g : g[a] = g[b] => a = b
  BY <1>1 DEF IsInjective
<1>3. x \in DOMAIN f => \A z \in DOMAIN g : g[z] # f[x]
  BY <1>1 DEF IsInjective
<1> QED
  BY <1>2, <1>3 DEF IsInjective, g

LEMMA OnFileIsPartial ==
  ASSUME NEW f \in PartialFunctions(Handle, Path)
  PROVE  OnFile(f) \in PartialFunctions(Handle, Path)
<1>1. DOMAIN f \subseteq Handle /\ f \in [DOMAIN f -> Path]
  BY PartialFunction
<1>2. OnFile(f) \in [DOMAIN f -> Path]
  BY <1>1, CutPath DEF OnFile
<1> QED
  BY <1>1, <1>2 DEF PartialFunctions

----------------------------------------------------------------------------
(* Types.  A new material's file is written two steps after its path was   *)
(* checked, so that the invariant must say that the check still holds.     *)

MaterialIsNew ==
  step.at \in {"saving material", "writing material"} =>
    /\ Front(registry[step.asset]) \in dirs
    /\ registry[step.asset] \notin DOMAIN disk

Maps ==
  /\ registry \in PartialFunctions(Handle, Path)
  /\ saved \in PartialFunctions(Handle, Path)
  /\ loaded \in PartialFunctions(Handle, {"main", "watcher"})

Files ==
  /\ dirs \subseteq Dir /\ <<>> \in dirs
  /\ disk \in PartialFunctions(Path, File)
  /\ IsInjective(disk)
  /\ \A e \in (dirs \ {<<>>}) \union DOMAIN disk : Front(e) \in dirs

Threads ==
  /\ step \in [at : Place, asset : Handle \union {NoAsset}]
  /\ watching \in Handle \union {NoAsset}

TInv == Maps /\ Files /\ Threads /\ MaterialIsRegistered /\ MaterialIsNew

LEMMA StepTyped ==
  ASSUME NEW place \in Place, NEW h \in Handle \union {NoAsset}
  PROVE  /\ At(place, h) \in [at : Place, asset : Handle \union {NoAsset}]
         /\ At(place, h).at = place /\ At(place, h).asset = h
BY DEF At

LEMMA IdleTyped ==
  /\ Idle \in [at : Place, asset : Handle \union {NoAsset}]
  /\ Idle.at = "idle"
BY StepTyped DEF Idle, Place

\* The types of the entries.
LEMMA RegisteredPath ==
  ASSUME Maps, NEW h \in Registered
  PROVE  h \in Handle /\ registry[h] \in Path
BY PartialFunction DEF Maps, Registered

LEMMA FilePath ==
  ASSUME Files
  PROVE  /\ DOMAIN disk \subseteq Path
         /\ \A p \in DOMAIN disk : disk[p] \in File
BY PartialFunction DEF Files

LEMMA NewFileStep ==
  ASSUME Files, NEW p \in Path, Front(p) \in dirs, NewFile(p), UNCHANGED dirs
  PROVE  Files'
<1>1. PICK f \in File \ Range(disk) : disk' = With(disk, p, f)
  BY DEF NewFile
<1>2. \A z \in DOMAIN disk : disk[z] # f
  BY <1>1 DEF Range
<1>3. disk' \in PartialFunctions(Path, File)
  BY <1>1, WithIsPartial DEF Files
<1>4. IsInjective(disk)'
  BY <1>1, <1>2, WithIsInjective DEF Files
<1>5. DOMAIN disk' = DOMAIN disk \union {p}
  BY <1>1, WithDomain
<1> QED
  BY <1>3, <1>4, <1>5 DEF Files

LEMMA SetMetadataTyped ==
  ASSUME TInv, NEW h \in Handle, NEW p \in Path, Files', UNCHANGED <<loaded, watching>>,
         \/ SetMetadata(h, p, "saving")
         \/ SetMetadata(h, p, "saving material") /\ Front(p) \in dirs' /\ p \notin DOMAIN disk'
  PROVE  TInv'
<1>1. PICK place \in {"saving", "saving material"} :
        /\ SetMetadata(h, p, place)
        /\ place = "saving material" => Front(p) \in dirs' /\ p \notin DOMAIN disk'
  <2>1. CASE SetMetadata(h, p, "saving")
    BY <2>1
  <2>2. CASE SetMetadata(h, p, "saving material") /\ Front(p) \in dirs' /\ p \notin DOMAIN disk'
    BY <2>2
  <2> QED
    BY <2>1, <2>2
<1>2. /\ registry' = With(registry, h, p) /\ saved' = Nothing /\ step' = At(place, h)
  BY <1>1 DEF SetMetadata
<1>3. Maps'
  BY <1>2, WithIsPartial, NothingIsPartial DEF TInv, Maps
<1>4. step' \in [at : Place, asset : Handle \union {NoAsset}] /\ step'.at = place /\ step'.asset = h
  <2>1. place \in Place
    BY DEF Place
  <2>2. /\ At(place, h) \in [at : Place, asset : Handle \union {NoAsset}]
        /\ At(place, h).at = place /\ At(place, h).asset = h
    BY <2>1, StepTyped
  <2> QED
    BY <1>2, <2>2
<1>5. h \in DOMAIN registry' /\ registry'[h] = p
  BY <1>2 DEF With
<1> QED
  BY <1>1, <1>3, <1>4, <1>5 DEF TInv, Threads, MaterialIsRegistered, MaterialIsNew, Registered

\* While the main thread waits for input there is no unwritten material.
LEMMA TypedWhenIdle ==
  ASSUME Maps', Files', Threads', step'.at \notin {"saving material", "writing material"}
  PROVE  TInv'
BY DEF TInv, MaterialIsRegistered, MaterialIsNew

LEMMA AddFileTyped ==
  ASSUME TInv, NEW h \in Handle, NEW p \in Path, AddFile(h, p)
  PROVE  TInv'
<1>1. Files'
  BY NewFileStep DEF AddFile, TInv
<1> QED
  BY <1>1, SetMetadataTyped DEF AddFile

LEMMA ImportExternalTyped ==
  ASSUME TInv, NEW h \in Handle, NEW p \in Path, ImportExternal(h, p)
  PROVE  TInv'
<1>1. Files'
  <2>1. CASE disk' = disk
    BY <2>1 DEF ImportExternal, TInv, Files
  <2>2. CASE NewFile(p)
    BY <2>2, NewFileStep DEF ImportExternal, TInv
  <2> QED
    BY <2>1, <2>2 DEF ImportExternal
<1> QED
  BY <1>1, SetMetadataTyped DEF ImportExternal

LEMMA NewSceneTyped ==
  ASSUME TInv, NEW h \in Handle, NEW p \in Path, NewScene(h, p)
  PROVE  TInv'
<1>1. Files'
  <2>1. CASE disk' = disk
    BY <2>1 DEF NewScene, TInv, Files
  <2>2. CASE Front(p) \in dirs /\ NewFile(Cut(p))
    <3>1. Cut(p) \in Path /\ Front(Cut(p)) \in dirs
      BY <2>2, CutPath
    <3> QED
      BY <2>2, <3>1, NewFileStep DEF NewScene, TInv
  <2> QED
    BY <2>1, <2>2 DEF NewScene
<1> QED
  BY <1>1, SetMetadataTyped DEF NewScene

LEMMA NewMaterialTyped ==
  ASSUME TInv, NEW h \in Handle, NEW p \in Path, NewMaterial(h, p)
  PROVE  TInv'
<1>1. Files'
  BY DEF NewMaterial, TInv, Files
<1>2. Front(p) \in dirs' /\ p \notin DOMAIN disk'
  BY DEF NewMaterial
<1> QED
  BY <1>1, <1>2, SetMetadataTyped DEF NewMaterial

LEMMA RegistrySavedTyped ==
  ASSUME TInv, RegistrySaved
  PROVE  TInv'
<1>1. /\ UNCHANGED <<registry, loaded, dirs, disk, watching>> /\ saved' = OnFile(registry)
      /\ step.at \in {"saving", "saving material"}
  BY DEF RegistrySaved, SaveDone
<1>2. Maps' /\ Files'
  BY <1>1, OnFileIsPartial DEF TInv, Maps, Files
<1>3. CASE step.at = "saving material"
  <2>1. step' = At("writing material", step.asset)
    BY <1>3 DEF RegistrySaved, SaveDone
  <2>2. step.asset \in Handle \union {NoAsset} /\ "writing material" \in Place
    BY DEF TInv, Threads, Place
  <2>3. step' \in [at : Place, asset : Handle \union {NoAsset}] /\ step'.asset = step.asset
    BY <2>1, <2>2, StepTyped
  <2> QED
    BY <1>1, <1>2, <1>3, <2>3 DEF TInv, Threads, MaterialIsRegistered, MaterialIsNew, Registered
<1>4. CASE step.at = "saving"
  <2>1. step' = Idle
    BY <1>4 DEF RegistrySaved, SaveDone
  <2> QED
    BY <1>1, <1>2, <2>1, IdleTyped, TypedWhenIdle DEF TInv, Threads
<1> QED
  BY <1>1, <1>3, <1>4

LEMMA WriteMaterialTyped ==
  ASSUME TInv, WriteMaterial
  PROVE  TInv'
<1>1. /\ step.at = "writing material" /\ loaded' = With(loaded, step.asset, "main")
      /\ NewFile(registry[step.asset]) /\ step' = Idle
      /\ UNCHANGED <<registry, saved, dirs, watching>>
  BY DEF WriteMaterial
<1>2. step.asset \in Registered /\ Front(registry[step.asset]) \in dirs
  BY <1>1 DEF TInv, MaterialIsRegistered, MaterialIsNew
<1>3. step.asset \in Handle /\ registry[step.asset] \in Path
  BY <1>2, RegisteredPath DEF TInv
<1>4. Files'
  BY <1>1, <1>2, <1>3, NewFileStep DEF TInv
<1>5. Maps'
  BY <1>1, <1>3, WithIsPartial DEF TInv, Maps
<1> QED
  BY <1>1, <1>4, <1>5, IdleTyped, TypedWhenIdle DEF TInv, Threads

LEMMA LoadingTyped ==
  ASSUME TInv, UNCHANGED <<registry, saved, dirs, disk, step>>,
         loaded' \in PartialFunctions(Handle, {"main", "watcher"}),
         watching' \in Handle \union {NoAsset}
  PROVE  TInv'
BY DEF TInv, Maps, Files, Threads, MaterialIsRegistered, MaterialIsNew, Registered

LEMMA GetAssetTyped ==
  ASSUME TInv, NEW h \in Handle, GetAsset(h)
  PROVE  TInv'
<1>1. loaded' \in PartialFunctions(Handle, {"main", "watcher"})
  BY WithIsPartial DEF GetAsset, TInv, Maps
<1> QED
  BY <1>1, LoadingTyped DEF GetAsset, TInv, Threads

LEMMA FileChangedTyped ==
  ASSUME TInv, NEW h \in Handle, FileChanged(h)
  PROVE  TInv'
BY LoadingTyped DEF FileChanged, TInv, Maps

LEMMA ReimportedTyped ==
  ASSUME TInv, Reimported
  PROVE  TInv'
<1>1. watching \in Handle
  BY DEF Reimported, TInv, Threads
<1>2. loaded' \in PartialFunctions(Handle, {"main", "watcher"})
  BY <1>1, WithIsPartial DEF Reimported, TInv, Maps
<1> QED
  BY <1>2, LoadingTyped DEF Reimported

LEMMA DeleteAssetTyped ==
  ASSUME TInv, NEW h \in Handle, DeleteAsset(h)
  PROVE  TInv'
<1>1. Maps'
  BY WithoutIsPartial DEF DeleteAsset, TInv, Maps
<1>2. Files' /\ Threads' /\ step'.at = "idle"
  BY IdleTyped DEF DeleteAsset, TInv, Files, Threads
<1> QED
  BY <1>1, <1>2, TypedWhenIdle

LEMMA RestartTyped ==
  ASSUME TInv, Restart, registry' \in PartialFunctions(Handle, Path),
         saved' \in PartialFunctions(Handle, Path)
  PROVE  TInv'
<1>1. Maps'
  BY NothingIsPartial DEF Restart, Maps
<1>2. Files' /\ Threads' /\ step'.at = "idle"
  BY IdleTyped DEF Restart, TInv, Files, Threads
<1> QED
  BY <1>1, <1>2, TypedWhenIdle

LEMMA ExitTyped ==
  ASSUME TInv, Exit
  PROVE  TInv'
<1>1. "exiting" \in Place
  BY DEF Place
<1>2. step' \in [at : Place, asset : Handle \union {NoAsset}] /\ step'.at = "exiting"
  BY <1>1, StepTyped DEF Exit
<1>3. Maps'
  BY NothingIsPartial DEF Exit, TInv, Maps
<1>4. Files' /\ Threads'
  BY <1>2 DEF Exit, TInv, Files, Threads
<1> QED
  BY <1>2, <1>3, <1>4, TypedWhenIdle

LEMMA NewFolderTyped ==
  ASSUME TInv, NEW d \in Dir, NewFolder(d)
  PROVE  TInv'
<1>1. /\ d \in Seq(Part) /\ Len(d) \in 0..MaxDepth /\ \A i \in 1..Len(d) : d[i] \in Folder
  BY DirParts
<1>2. ASSUME NEW l \in 0..Len(d)
      PROVE  /\ SubSeq(d, 1, l) \in Dir /\ Len(SubSeq(d, 1, l)) = l
             /\ SubSeq(d, 1, l) # <<>> => Front(SubSeq(d, 1, l)) \in Prefixes(d)
  <2> DEFINE s == SubSeq(d, 1, l)
  <2>1. l \in Nat /\ l <= MaxDepth /\ \A i \in 1..l : d[i] \in Folder
    BY <1>1, BoundAssumption
  <2>2. s \in Seq(Folder) /\ Len(s) = l /\ \A i \in 1..l : s[i] = d[i]
    BY <2>1, FirstParts
  <2>3. s \in Dir
    BY <2>1, <2>2, DirSeq
  <2>4. ASSUME s # <<>> PROVE Front(s) = SubSeq(d, 1, l - 1)
    <3>1. l \in Nat \ {0}
      BY <2>1, <2>2, <2>4, EmptySeq
    <3>2. PICK k \in Nat : k = l - 1
      BY <3>1
    <3>3. /\ SubSeq(d, 1, k) \in Seq(Folder) /\ Len(SubSeq(d, 1, k)) = k
          /\ \A i \in 1..k : SubSeq(d, 1, k)[i] = d[i]
      BY <2>1, <3>2, FirstParts
    <3>4. /\ SubSeq(s, 1, k) \in Seq(Folder) /\ Len(SubSeq(s, 1, k)) = k
          /\ \A i \in 1..k : SubSeq(s, 1, k)[i] = s[i]
      <4>1. \A i \in 1..k : s[i] \in Folder
        BY <2>1, <2>2, <3>2
      <4> HIDE DEF s
      <4> QED
        BY <4>1, FirstParts
    <3>5. SubSeq(s, 1, k) = SubSeq(d, 1, k)
      <4>1. \A i \in 1..k : SubSeq(s, 1, k)[i] = SubSeq(d, 1, k)[i]
        BY <2>2, <3>2, <3>3, <3>4
      <4> QED
        BY <4>1, <3>3, <3>4, SeqEqual
    <3> QED
      BY <3>2, <3>5, <2>2 DEF Front
  <2>5. ASSUME s # <<>> PROVE Front(s) \in Prefixes(d)
    <3>1. l - 1 \in 0..Len(d)
      BY <2>1, <2>2, <2>5, <1>1, EmptySeq
    <3> QED
      BY <2>4, <2>5, <3>1 DEF Prefixes
  <2> QED
    BY <2>2, <2>3, <2>5
<1>3. d = SubSeq(d, 1, Len(d)) /\ Len(d) \in 0..Len(d)
  BY <1>1, SubSeqFull
<1>4. dirs' = dirs \union Prefixes(d)
  BY <1>3 DEF NewFolder, Prefixes
<1>5. dirs' \subseteq Dir
  BY <1>2, <1>4 DEF Prefixes, TInv, Files
<1>6. \A e \in Prefixes(d) \ {<<>>} : Front(e) \in Prefixes(d)
  BY <1>2 DEF Prefixes
<1>7. Files'
  BY <1>4, <1>5, <1>6 DEF NewFolder, TInv, Files
<1>8. Maps' /\ Threads' /\ step'.at = "idle"
  BY IdleTyped DEF NewFolder, TInv, Maps, Threads
<1> QED
  BY <1>7, <1>8, TypedWhenIdle

----------------------------------------------------------------------------
(* The renamings *)

LEMMA RenamedPath ==
  ASSUME NEW old \in Path, NEW d \in Dir, NEW n \in Name,
         NEW new, new = Front(old) \o Append(d, n), Len(new) <= MaxDepth + 1
  PROVE  new \in Path
<1> DEFINE p == Append(d, n)
           a == Front(old)
<1>1. p \in Path
  BY DEF Path
<1>2. a \in Seq(Part) /\ \A i \in 1..Len(a) : a[i] \in Folder
  BY PathFront, DirParts
<1>3. new = a \o p
  OBVIOUS
<1> HIDE DEF p, a
<1>4. p \in Seq(Part) /\ 1 \in 1..Len(p) /\ SubSeq(p, 1, Len(p)) = p
  BY <1>1, PathParts, SubSeqFull, BoundAssumption
<1> QED
  BY <1>1, <1>2, <1>3, <1>4, SplicedPath

LEMMA RenameAssetTyped ==
  ASSUME TInv, NEW h \in Handle, NEW d \in Dir, NEW n \in Name, RenameAsset(h, d, n)
  PROVE  TInv'
<1> DEFINE old == registry[h]
           new == Front(old) \o Append(d, n)
<1>1. /\ step = Idle /\ h \in Registered /\ old \in DOMAIN disk
      /\ new \notin DOMAIN disk /\ Len(new) <= MaxDepth + 1
      /\ registry' = [registry EXCEPT ![h] = new]
      /\ \/ disk' = disk
         \/ Front(new) \in dirs /\ disk' = With(Without(disk, old), new, disk[old])
      /\ UNCHANGED <<saved, loaded, dirs, step, watching>>
  BY DEF RenameAsset, Found
<1>2. old \in Path /\ disk[old] \in File
  BY <1>1, FilePath DEF TInv
<1>3. new \in Path
  BY <1>1, <1>2, RenamedPath
<1> HIDE DEF old, new
<1>4. Maps'
  <2>1. registry' \in [DOMAIN registry -> Path] /\ DOMAIN registry \subseteq Handle
    BY <1>1, <1>3, PartialFunction DEF TInv, Maps
  <2>2. registry' \in PartialFunctions(Handle, Path)
    BY <2>1 DEF PartialFunctions
  <2> QED
    BY <2>2, <1>1 DEF TInv, Maps
<1>5. Files'
  <2>1. CASE Front(new) \in dirs /\ disk' = With(Without(disk, old), new, disk[old])
    <3> DEFINE g == Without(disk, old)
    <3>1. g \in PartialFunctions(Path, File)
      BY WithoutIsPartial DEF TInv, Files
    <3>2. IsInjective(g) /\ \A z \in DOMAIN g : g[z] # disk[old]
      BY <1>1, WithoutIsInjective DEF TInv, Files
    <3>3. DOMAIN g = DOMAIN disk \ {old}
      BY WithoutDomain
    <3>4. disk' = With(g, new, disk[old])
      BY <2>1
    <3> HIDE DEF g
    <3>5. disk' \in PartialFunctions(Path, File)
      BY <3>1, <3>4, <1>2, <1>3, WithIsPartial
    <3>6. IsInjective(disk)'
      BY <3>2, <3>4, WithIsInjective
    <3>7. DOMAIN disk' = (DOMAIN disk \ {old}) \union {new}
      BY <3>3, <3>4 DEF With
    <3> QED
      BY <3>5, <3>6, <3>7, <2>1, <1>1 DEF TInv, Files
  <2>2. CASE disk' = disk
    BY <2>2, <1>1 DEF TInv, Files
  <2> QED
    BY <1>1, <2>1, <2>2
<1>6. Threads' /\ step'.at = "idle"
  BY <1>1, IdleTyped DEF TInv, Threads
<1> QED
  BY <1>4, <1>5, <1>6, TypedWhenIdle

\* HasPrefix holds for what is below the folder, and never for a shorter path.
LEMMA PrefixHasPrefix ==
  ASSUME NEW p \in Seq(Part), NEW d \in Seq(Part), d # <<>>, IsPrefix(d, p)
  PROVE  HasPrefix(p, d)
<1>1. Len(d) \in Nat \ {0} /\ Len(p) \in Nat
  BY EmptySeq, LenProperties
<1>2. Len(d) <= Len(p) /\ \A i \in 1..Len(d) : d[i] = p[i]
  BY PrefixParts
<1>3. /\ Front(d) \in Seq(Part) /\ Len(Front(d)) = Len(d) - 1
      /\ \A i \in 1..(Len(d) - 1) : Front(d)[i] = d[i]
  <2>1. \A i \in 1..(Len(d) - 1) : d[i] \in Part
    BY <1>1, ElementOfSeq
  <2> QED
    BY <2>1, <1>1, FrontParts
<1>4. IsPrefix(Front(d), p)
  <2>1. Len(Front(d)) <= Len(p) /\ \A i \in 1..Len(Front(d)) : Front(d)[i] = p[i]
    BY <1>1, <1>2, <1>3
  <2>2. Front(d) \in Seq(Part)
    BY <1>3
  <2> QED
    BY <2>1, <2>2, PrefixParts
<1>5. p[Len(d)] = Last(d)
  BY <1>1, <1>2 DEF Last
<1> QED
  BY <1>2, <1>4, <1>5 DEF HasPrefix

\* A longer path below a folder, and what Repath makes of a path, are paths.
LEMMA MovedPath ==
  ASSUME NEW d \in Dir, NEW new \in Dir, NEW p \in Path, Len(Moved(p, d, new)) <= MaxDepth + 1
  PROVE  Moved(p, d, new) \in Path
<1>1. CASE IsPrefix(d, p)
  <2>1. d \in Seq(Part) /\ p \in Seq(Part) /\ Len(d) \in Nat /\ Len(p) \in Nat
    BY DirParts, PathParts, LenProperties
  <2>2. Len(d) <= Len(p) /\ \A i \in 1..Len(d) : d[i] = p[i]
    BY <2>1, <1>1, PrefixParts
  <2>3. Len(d) # Len(p)
    <3>1. ASSUME Len(d) = Len(p) PROVE FALSE
      <4>1. d = p
        BY <3>1, <2>1, <2>2, SeqEqual
      <4> QED
        BY <4>1, NoDirIsAPath
    <3> QED
      BY <3>1
  <2>4. PICK k : k = Len(d) + 1
    OBVIOUS
  <2>5. k \in 1..Len(p) /\ Moved(p, d, new) = new \o SubSeq(p, k, Len(p))
    BY <2>1, <2>2, <2>3, <2>4, <1>1 DEF Moved
  <2>6. new \in Seq(Part) /\ \A i \in 1..Len(new) : new[i] \in Folder
    BY DirParts
  <2> QED
    BY <2>5, <2>6, SplicedPath
<1>2. CASE ~IsPrefix(d, p)
  BY <1>2 DEF Moved
<1> QED
  BY <1>1, <1>2

LEMMA RepathPath ==
  ASSUME NEW d \in Dir, d # <<>>, NEW new \in Dir, new # <<>>,
         NEW p \in Path, Len(Moved(p, d, new)) <= MaxDepth + 1,
         Len(Repath(p, d, new)) <= MaxDepth + 1
  PROVE  /\ Repath(p, d, new) \in Path
         /\ IsPrefix(d, p) => Repath(p, d, new) = Moved(p, d, new)
<1>1. d \in Seq(Part) /\ p \in Seq(Part) /\ new \in Seq(Part)
  BY DirParts, PathParts
<1>2. CASE IsPrefix(d, p)
  <2>1. HasPrefix(p, d)
    BY <1>1, <1>2, PrefixHasPrefix
  <2>2. Repath(p, d, new) = Moved(p, d, new)
    BY <1>2, <2>1 DEF Repath, Rebased, Moved
  <2> QED
    BY <2>2, MovedPath
<1>3. CASE ~IsPrefix(d, p) /\ HasPrefix(p, d)
  <2>1. Repath(p, d, new) = Front(new) \o SubSeq(p, Len(d), Len(p))
    BY <1>3 DEF Repath, Rebased
  <2>2. Len(d) \in 1..Len(p)
    BY <1>1, <1>3, EmptySeq, LenProperties DEF HasPrefix
  <2>3. Front(new) \in Seq(Part) /\ \A i \in 1..Len(Front(new)) : Front(new)[i] \in Folder
    <3>1. Len(new) \in Nat \ {0} /\ \A i \in 1..(Len(new) - 1) : new[i] \in Folder
      BY <1>1, EmptySeq, DirParts
    <3>2. /\ Front(new) \in Seq(Folder) /\ Len(Front(new)) = Len(new) - 1
          /\ \A i \in 1..(Len(new) - 1) : Front(new)[i] = new[i]
      BY <3>1, FrontParts
    <3>3. Front(new) \in Seq(Part)
      BY <3>2, SeqMonotonic DEF Part
    <3> QED
      BY <3>1, <3>2, <3>3
  <2> QED
    BY <2>1, <2>2, <2>3, <1>3, SplicedPath
<1>4. CASE ~IsPrefix(d, p) /\ ~HasPrefix(p, d)
  BY <1>4 DEF Repath
<1> QED
  BY <1>2, <1>3, <1>4

\* What renaming the folder d to new does to the files and the registered paths.
FolderMoves(d, new, name) ==
  /\ d # <<>> /\ d \in dirs /\ new \in Dir /\ new # <<>> /\ CanMove(d, new)
  /\ Len(new) = (Len(d) - 1) + Len(name)
  /\ \A p \in DOMAIN disk : Moved(p, d, new) \in Path /\ disk'[Moved(p, d, new)] = disk[p]
  /\ DOMAIN disk' = {Moved(p, d, new) : p \in DOMAIN disk}
  /\ dirs' = {Moved(e, d, new) : e \in dirs}
  /\ \A e \in dirs : Len(Moved(e, d, new)) <= MaxDepth
  /\ DOMAIN registry' = Registered
  /\ \A h \in Registered :
       /\ registry'[h] = Repath(registry[h], d, new) /\ registry'[h] \in Path
       /\ IsPrefix(d, registry[h]) => registry'[h] = Moved(registry[h], d, new)

LEMMA FolderRenamed ==
  ASSUME Maps, Files, NEW d \in Dir, NEW name \in Dir \ {<<>>}, RenameFolder(d, name)
  PROVE  FolderMoves(d, Front(d) \o name, name)
<1> DEFINE new == Front(d) \o name
<1>1. /\ d \in dirs \ {<<>>} /\ CanMove(d, new) /\ Shallow(d, new)
      /\ dirs' = {Moved(e, d, new) : e \in dirs}
      /\ disk' = [p \in {Moved(q, d, new) : q \in DOMAIN disk} |->
                    disk[CHOOSE q \in DOMAIN disk : Moved(q, d, new) = p]]
      /\ registry' = [h \in Registered |-> Repath(registry[h], d, new)]
  BY DEF RenameFolder
<1> HIDE DEF new
<1>2. /\ d \in Seq(Part) /\ Len(d) \in Nat \ {0} /\ name \in Seq(Part) /\ Len(name) \in Nat \ {0}
      /\ \A i \in 1..Len(d) : d[i] \in Folder
      /\ \A i \in 1..Len(name) : name[i] \in Folder
  BY <1>1, DirParts, EmptySeq
<1>3. /\ Front(d) \in Seq(Part) /\ Len(Front(d)) = Len(d) - 1
      /\ \A i \in 1..(Len(d) - 1) : Front(d)[i] = d[i]
  <2>1. \A i \in 1..(Len(d) - 1) : d[i] \in Part
    BY <1>2 DEF Part
  <2> QED
    BY <2>1, <1>2, FrontParts
<1>4. /\ new \in Seq(Part) /\ Len(new) = (Len(d) - 1) + Len(name)
      /\ \A i \in 1..Len(new) : new[i] \in Folder
  <2>1. /\ Front(d) \o name \in Seq(Part)
        /\ Len(Front(d) \o name) = Len(Front(d)) + Len(name)
        /\ \A i \in 1..(Len(Front(d)) + Len(name)) : (Front(d) \o name)[i] =
             IF i <= Len(Front(d)) THEN Front(d)[i] ELSE name[i - Len(Front(d))]
    BY <1>2, <1>3, ConcatProperties
  <2>2. /\ new \in Seq(Part) /\ Len(new) = (Len(d) - 1) + Len(name)
        /\ \A i \in 1..((Len(d) - 1) + Len(name)) : new[i] =
             IF i <= Len(d) - 1 THEN Front(d)[i] ELSE name[i - (Len(d) - 1)]
    BY <2>1, <1>3 DEF new
  <2>3. ASSUME NEW i \in 1..Len(new) PROVE new[i] \in Folder
    <3>1. CASE i <= Len(d) - 1
      <4>1. i \in 1..(Len(d) - 1) /\ i \in 1..Len(d)
        BY <3>1, <1>2
      <4> QED
        BY <4>1, <3>1, <2>2, <1>2, <1>3
    <3>2. CASE ~(i <= Len(d) - 1)
      <4>1. i - (Len(d) - 1) \in 1..Len(name)
        BY <3>2, <2>2, <1>2
      <4> QED
        BY <4>1, <3>2, <2>2, <1>2
    <3> QED
      BY <3>1, <3>2
  <2> QED
    BY <2>2, <2>3
<1>5. new # <<>>
  BY <1>2, <1>4, EmptySeq
<1>6. \A e \in dirs : Len(Moved(e, d, new)) <= MaxDepth
  BY <1>1 DEF Shallow
<1>7. new \in Dir
  <2>1. IsPrefix(d, d)
    BY <1>2, PrefixParts
  <2>2. Len(Moved(d, d, new)) = Len(new) + (Len(d) - Len(d))
    BY <2>1, <1>2, <1>4, MovedParts
  <2>3. Len(new) <= MaxDepth
    BY <2>2, <1>1, <1>2, <1>4, <1>6
  <2> QED
    BY <2>3, <1>4, MadeDir
<1>8. DOMAIN disk \subseteq Path /\ dirs \subseteq Dir
  BY FilePath DEF Files
<1>9. ASSUME NEW p \in Path, p \in DOMAIN disk \union Range(registry)
      PROVE  Len(Moved(p, d, new)) <= MaxDepth + 1 /\ Len(Repath(p, d, new)) <= MaxDepth + 1
  <2>1. p \notin dirs
    BY <1>8, NoDirIsAPath
  <2> QED
    BY <2>1, <1>1, <1>9 DEF Shallow
<1>10. \A p \in DOMAIN disk : Moved(p, d, new) \in Path
  BY <1>7, <1>8, <1>9, MovedPath
<1>11. ASSUME NEW p \in DOMAIN disk PROVE disk'[Moved(p, d, new)] = disk[p]
  <2> DEFINE m == Moved(p, d, new)
             q == CHOOSE r \in DOMAIN disk : Moved(r, d, new) = m
  <2>1. q \in DOMAIN disk /\ Moved(q, d, new) = m
    OBVIOUS
  <2>2. disk'[m] = disk[q]
    BY <1>1
  <2> HIDE DEF q
  <2>3. ~IsStrictPrefix(new, p) /\ ~IsStrictPrefix(new, q)
    BY <2>1, <1>1 DEF CanMove
  <2>4. p \in Path /\ q \in Path
    BY <2>1, <1>8
  <2>5. Moved(p, d, new) = Moved(q, d, new)
    BY <2>1
  <2>6. p = q
    BY <2>3, <2>4, <2>5, <1>4, MovedInjective
  <2> QED
    BY <2>2, <2>6
<1>12. ASSUME NEW h \in Registered
       PROVE  /\ registry'[h] = Repath(registry[h], d, new) /\ registry'[h] \in Path
              /\ IsPrefix(d, registry[h]) => registry'[h] = Moved(registry[h], d, new)
  <2>1. registry[h] \in Path
    BY RegisteredPath
  <2>2. registry[h] \in Range(registry)
    BY DEF Range, Registered
  <2>3. registry'[h] = Repath(registry[h], d, new)
    BY <1>1
  <2>4. /\ Len(Moved(registry[h], d, new)) <= MaxDepth + 1
        /\ Len(Repath(registry[h], d, new)) <= MaxDepth + 1
    BY <2>1, <2>2, <1>9
  <2>5. /\ Repath(registry[h], d, new) \in Path
        /\ IsPrefix(d, registry[h]) => Repath(registry[h], d, new) = Moved(registry[h], d, new)
    BY <2>1, <2>4, <1>1, <1>5, <1>7, RepathPath
  <2> QED
    BY <2>3, <2>5
<1>13. DOMAIN disk' = {Moved(p, d, new) : p \in DOMAIN disk} /\ DOMAIN registry' = Registered
  BY <1>1
<1>14. FolderMoves(d, new, name)
  BY <1>1, <1>4, <1>5, <1>6, <1>7, <1>10, <1>11, <1>12, <1>13 DEF FolderMoves
<1> QED
  BY <1>14 DEF new

LEMMA RenameFolderTyped ==
  ASSUME TInv, NEW d \in Dir, NEW name \in Dir \ {<<>>}, RenameFolder(d, name)
  PROVE  TInv'
<1>1. PICK new : new = Front(d) \o name
  OBVIOUS
<1>2. Maps /\ Files
  BY DEF TInv
<1>0. FolderMoves(d, new, name)
  BY <1>1, <1>2, FolderRenamed
<1>3. /\ d # <<>> /\ d \in dirs /\ new \in Dir /\ new # <<>> /\ CanMove(d, new)
      /\ \A p \in DOMAIN disk :
           Moved(p, d, new) \in Path /\ disk'[Moved(p, d, new)] = disk[p]
      /\ DOMAIN disk' = {Moved(p, d, new) : p \in DOMAIN disk}
      /\ dirs' = {Moved(e, d, new) : e \in dirs}
      /\ \A e \in dirs : Len(Moved(e, d, new)) <= MaxDepth
      /\ DOMAIN registry' = Registered
      /\ \A h \in Registered : registry'[h] \in Path
  BY <1>0 DEF FolderMoves
<1>4. UNCHANGED <<saved, loaded, step, watching>> /\ step = Idle
  BY DEF RenameFolder
<1>5. d \in Seq(Part) /\ new \in Seq(Part) /\ \A i \in 1..Len(new) : new[i] \in Folder
  BY <1>3, DirParts
<1>6. ~IsPrefix(d, new) /\ Front(new) \in dirs
  BY <1>3 DEF CanMove
<1>7. Maps'
  <2>1. registry' = [h \in Registered |-> registry'[h]]
    BY DEF RenameFolder
  <2>2. registry' \in [Registered -> Path] /\ Registered \subseteq Handle
    BY <2>1, <1>3, <1>2, RegisteredPath
  <2>3. registry' \in PartialFunctions(Handle, Path)
    BY <2>2 DEF PartialFunctions
  <2> QED
    BY <2>3, <1>2, <1>4 DEF Maps
<1>8. disk' \in PartialFunctions(Path, File)
  <2>1. disk' = [p \in DOMAIN disk' |-> disk'[p]]
    BY DEF RenameFolder
  <2>2. \A p \in DOMAIN disk' : p \in Path /\ disk'[p] \in File
    BY <1>2, <1>3, FilePath
  <2>3. disk' \in [DOMAIN disk' -> File] /\ DOMAIN disk' \subseteq Path
    BY <2>1, <2>2
  <2> QED
    BY <2>3, PartialFunction
<1>9. IsInjective(disk)'
  <2>1. ASSUME NEW a \in DOMAIN disk', NEW b \in DOMAIN disk', disk'[a] = disk'[b] PROVE a = b
    <3>1. PICK p \in DOMAIN disk : a = Moved(p, d, new)
      BY <1>3
    <3>2. PICK q \in DOMAIN disk : b = Moved(q, d, new)
      BY <1>3
    <3>3. disk[p] = disk[q]
      BY <2>1, <3>1, <3>2, <1>3
    <3>4. p = q
      BY <3>3, <1>2 DEF Files, IsInjective
    <3> QED
      BY <3>1, <3>2, <3>4
  <2> QED
    BY <2>1 DEF IsInjective
<1>10. ASSUME NEW e \in Dir, Len(Moved(e, d, new)) <= MaxDepth PROVE Moved(e, d, new) \in Dir
  <2>1. e \in Seq(Part) /\ Len(e) \in Nat /\ \A i \in 1..Len(e) : e[i] \in Folder
    BY DirParts
  <2>2. CASE ~IsPrefix(d, e)
    BY <2>2 DEF Moved
  <2>3. CASE IsPrefix(d, e)
    <3> DEFINE m == Moved(e, d, new)
    <3>1. Len(d) \in Nat /\ Len(new) \in Nat /\ Len(d) <= Len(e)
      BY <2>1, <2>3, <1>5, PrefixParts, LenProperties
    <3>2. /\ m \in Seq(Part) /\ Len(m) = Len(new) + (Len(e) - Len(d))
          /\ \A i \in 1..Len(new) : m[i] = new[i]
          /\ \A i \in (Len(new) + 1)..(Len(new) + (Len(e) - Len(d))) :
               m[i] = e[Len(d) + (i - Len(new))]
      BY <2>1, <2>3, <1>5, MovedParts
    <3> HIDE DEF m
    <3>3. ASSUME NEW i \in 1..Len(m) PROVE m[i] \in Folder
      <4>1. CASE i <= Len(new)
        BY <4>1, <3>1, <3>2, <1>5
      <4>2. CASE i > Len(new)
        <5>1. /\ i \in (Len(new) + 1)..(Len(new) + (Len(e) - Len(d)))
              /\ Len(d) + (i - Len(new)) \in 1..Len(e)
          BY <4>2, <3>1, <3>2, <2>1
        <5> QED
          BY <5>1, <3>2, <2>1
      <4> QED
        BY <4>1, <4>2, <3>1, <3>2
    <3>4. Len(m) <= MaxDepth
      BY <1>10 DEF m
    <3>5. m \in Dir
      BY <3>2, <3>3, <3>4, MadeDir
    <3> QED
      BY <3>5 DEF m
  <2> QED
    BY <2>2, <2>3
<1>11. dirs' \subseteq Dir
  BY <1>2, <1>3, <1>10 DEF Files
<1>12. Moved(<<>>, d, new) = <<>>
  <2>1. ~IsPrefix(d, <<>>)
    BY <1>3, <1>5, EmptySeq DEF IsPrefix
  <2> QED
    BY <2>1 DEF Moved
<1>13. <<>> \in dirs'
  <2>1. <<>> \in dirs
    BY <1>2 DEF Files
  <2> QED
    BY <2>1, <1>3, <1>12
<1>14. ASSUME NEW e \in (dirs \ {<<>>}) \union DOMAIN disk
       PROVE  Front(Moved(e, d, new)) \in dirs'
  <2>1. Front(e) \in dirs
    BY <1>2 DEF Files
  <2>2. e \in Seq(Part) /\ e # <<>>
    BY <1>2, DirParts, PathParts, PathFront, FilePath DEF Files
  <2>3. \/ Front(Moved(e, d, new)) = Moved(Front(new), d, new)
        \/ Front(Moved(e, d, new)) = Moved(Front(e), d, new)
    BY <2>2, <1>3, <1>5, <1>6, MovedFront
  <2> QED
    BY <2>1, <2>3, <1>3, <1>6
<1>15. \A e \in (dirs' \ {<<>>}) \union DOMAIN disk' : Front(e) \in dirs'
  <2>1. ASSUME NEW e \in dirs', e # <<>> PROVE Front(e) \in dirs'
    <3>1. PICK g \in dirs : e = Moved(g, d, new)
      BY <1>3
    <3>2. g # <<>>
      BY <3>1, <2>1, <1>12
    <3> QED
      BY <3>1, <3>2, <1>14
  <2>2. ASSUME NEW e \in DOMAIN disk' PROVE Front(e) \in dirs'
    BY <1>3, <1>14
  <2> QED
    BY <2>1, <2>2
<1>16. Files'
  BY <1>8, <1>9, <1>11, <1>13, <1>15 DEF Files
<1>17. Threads' /\ step'.at = "idle"
  BY <1>4, IdleTyped DEF TInv, Threads
<1> QED
  BY <1>7, <1>16, <1>17, TypedWhenIdle

LEMMA NextTyped == TInv /\ [Next]_vars => TInv'
<1> SUFFICES ASSUME TInv, [Next]_vars PROVE TInv'
  OBVIOUS
<1>1. CASE \E h \in Handle, p \in PlainPath :
             AddFile(h, p) \/ ImportExternal(h, p) \/ NewMaterial(h, p)
  BY <1>1, PlainCut, AddFileTyped, ImportExternalTyped, NewMaterialTyped
<1>11. CASE \E h \in Handle, p \in Path \ PlainPath : NewScene(h, p)
  BY <1>11, NewSceneTyped
<1>2. CASE RegistrySaved \/ WriteMaterial \/ Reimported
  BY <1>2, RegistrySavedTyped, WriteMaterialTyped, ReimportedTyped
<1>3. CASE \E h \in Handle : GetAsset(h) \/ DeleteAsset(h) \/ FileChanged(h)
  BY <1>3, GetAssetTyped, DeleteAssetTyped, FileChangedTyped
<1>4. CASE \E h \in Handle, d \in Dir, n \in PlainName : RenameAsset(h, d, n)
  BY <1>4, RenameAssetTyped DEF PlainName
<1>5. CASE \E d \in Dir, name \in Dir \ {<<>>} : RenameFolder(d, name)
  BY <1>5, RenameFolderTyped
<1>6. CASE \E d \in Dir : NewFolder(d)
  BY <1>6, NewFolderTyped
<1>7. CASE Crash
  BY <1>7, RestartTyped DEF Crash, TInv, Maps
<1>8. CASE Exit
  BY <1>8, ExitTyped
<1>9. CASE ExitDone
  BY <1>9, RestartTyped, OnFileIsPartial DEF ExitDone, TInv, Maps
<1>10. CASE UNCHANGED vars
  BY <1>10 DEF vars, TInv, Maps, Files, Threads, MaterialIsRegistered, MaterialIsNew, Registered
<1> QED
  BY <1>1, <1>2, <1>3, <1>4, <1>5, <1>6, <1>7, <1>8, <1>9, <1>10, <1>11 DEF Next

LEMMA InitTyped == Init => TInv
<1> SUFFICES ASSUME Init PROVE TInv
  OBVIOUS
<1>1. Maps
  BY NothingIsPartial DEF Init, Maps
<1>2. <<>> \in Dir
  <2>1. <<>> \in Seq(Folder) /\ Len(<<>>) = 0
    BY EmptySeq
  <2>2. Len(<<>>) <= MaxDepth
    BY <2>1, BoundAssumption
  <2> QED
    BY <2>1, <2>2, DirSeq
<1>3. Files
  BY <1>2, NothingIsPartial, NothingLoaded DEF Init, Files
<1> QED
  BY <1>1, <1>3, IdleTyped DEF Init, TInv, Threads, MaterialIsRegistered, MaterialIsNew

----------------------------------------------------------------------------
(* What a step does to the files *)

LEMMA FileStays ==
  ASSUME NEW p \in DOMAIN disk, NEW q \in DOMAIN disk', disk'[q] = disk[p]
  PROVE  disk[p] \in Range(disk')
BY DEF Range

LEMMA FileIsAdded ==
  ASSUME NEW p, NewFile(p)
  PROVE  /\ DOMAIN disk' = DOMAIN disk \union {p}
         /\ \A q \in DOMAIN disk : q # p => disk'[q] = disk[q]
BY DEF NewFile, With

LEMMA RegistryGrows ==
  ASSUME NEW h, NEW p, NEW place, SetMetadata(h, p, place)
  PROVE  /\ DOMAIN registry' = Registered \union {h} /\ registry'[h] = p
         /\ \A k \in Registered : k # h => registry'[k] = registry[k]
BY DEF SetMetadata, With, Registered

\* The file at old is given the path new, or os.rename fails, and the asset h
\* that names the file is given it anyway.
AssetMoves(h, old, new) ==
  /\ h \in Registered /\ old = registry[h] /\ old \in DOMAIN disk /\ new \notin DOMAIN disk
  /\ DOMAIN registry' = Registered /\ registry'[h] = new
  /\ \A k \in Registered : k # h => registry'[k] = registry[k]
  /\ dirs' = dirs
  /\ \/ /\ new \in DOMAIN disk' /\ disk'[new] = disk[old]
        /\ \A q \in DOMAIN disk : q # old => q \in DOMAIN disk' /\ disk'[q] = disk[q]
     \/ disk' = disk

LEMMA AssetRenamed ==
  ASSUME NEW h, NEW d, NEW n, RenameAsset(h, d, n)
  PROVE  \E old, new : AssetMoves(h, old, new)
<1> DEFINE old == registry[h]
           new == Front(old) \o Append(d, n)
<1>1. /\ h \in Registered /\ old \in DOMAIN disk /\ new \notin DOMAIN disk
      /\ registry' = [registry EXCEPT ![h] = new] /\ dirs' = dirs
      /\ \/ disk' = disk
         \/ Front(new) \in dirs /\ disk' = With(Without(disk, old), new, disk[old])
  BY DEF RenameAsset, Found
<1>5. old = registry[h]
  OBVIOUS
<1> HIDE DEF old, new
<1>2. /\ DOMAIN registry' = Registered /\ registry'[h] = new
      /\ \A k \in Registered : k # h => registry'[k] = registry[k]
  BY <1>1 DEF Registered
<1>3. CASE disk' = With(Without(disk, old), new, disk[old])
  <2>1. disk' = With(Without(disk, old), new, disk[old])
    BY <1>3
  <2>2. new \in DOMAIN disk' /\ disk'[new] = disk[old]
    BY <2>1 DEF With
  <2>3. ASSUME NEW q \in DOMAIN disk, q # old PROVE q \in DOMAIN disk' /\ disk'[q] = disk[q]
    BY <2>1, <2>3, <1>1 DEF With, Without, Restrict
  <2> QED
    BY <1>1, <1>2, <1>5, <2>2, <2>3 DEF AssetMoves
<1>4. CASE disk' = disk
  BY <1>1, <1>2, <1>4, <1>5 DEF AssetMoves
<1> QED
  BY <1>1, <1>3, <1>4

\* The file of a new material is not there before it is written.
LEMMA MaterialWritten ==
  ASSUME TInv, WriteMaterial
  PROVE  \A q \in DOMAIN disk : q \in DOMAIN disk' /\ disk'[q] = disk[q]
<1>1. NewFile(registry[step.asset]) /\ registry[step.asset] \notin DOMAIN disk
  BY DEF WriteMaterial, TInv, MaterialIsNew
<1> QED
  BY <1>1, FileIsAdded

\* One more file, and its asset.
LEMMA FileRegistered ==
  ASSUME NEW h, h \notin Registered, NEW q \in Path, NEW place, SetMetadata(h, q, place),
         disk' = disk \/ NewFile(Cut(q)), NEW p \in DOMAIN disk
  PROVE  disk[p] \in Range(disk') \/ WrittenOver(p)
<1>1. DOMAIN registry' = Registered \union {h} /\ registry'[h] = q
  BY RegistryGrows
<1>2. CASE disk' = disk
  BY <1>2, FileStays
<1>3. CASE NewFile(Cut(q)) /\ p # Cut(q)
  BY <1>3, FileIsAdded, FileStays
<1>4. CASE NewFile(Cut(q)) /\ p = Cut(q)
  BY <1>1, <1>4, FileIsAdded DEF WrittenOver, Registered
<1> QED
  BY <1>2, <1>3, <1>4

LEMMA NoFileLostStep ==
  ASSUME TInv, Next, NEW p \in DOMAIN disk
  PROVE  disk[p] \in Range(disk') \/ WrittenOver(p)
<1>1. ASSUME NEW h \in Handle, NEW q \in PlainPath, AddFile(h, q) \/ ImportExternal(h, q)
      PROVE  disk[p] \in Range(disk') \/ WrittenOver(p)
  <2>1. q \in Path /\ Cut(q) = q
    BY PlainCut
  <2>2. h \notin Registered /\ (disk' = disk \/ NewFile(q)) /\ SetMetadata(h, q, "saving")
    BY <1>1 DEF AddFile, ImportExternal, Fresh
  <2> QED
    BY <2>1, <2>2, FileRegistered
<1>2. ASSUME NEW h \in Handle, NEW q \in Path, NewScene(h, q)
      PROVE  disk[p] \in Range(disk') \/ WrittenOver(p)
  <2>1. h \notin Registered /\ (disk' = disk \/ NewFile(Cut(q))) /\ SetMetadata(h, q, "saving")
    BY <1>2 DEF NewScene, Fresh
  <2> QED
    BY <2>1, FileRegistered
<1>3. CASE WriteMaterial
  BY <1>3, MaterialWritten, FileStays
<1>4. ASSUME NEW h \in Handle, NEW d \in Dir, NEW n \in PlainName, RenameAsset(h, d, n)
      PROVE  disk[p] \in Range(disk')
  <2>1. PICK old, new : AssetMoves(h, old, new)
    BY <1>4, AssetRenamed
  <2>2. \/ /\ new \in DOMAIN disk' /\ disk'[new] = disk[old]
           /\ \A q \in DOMAIN disk : q # old => q \in DOMAIN disk' /\ disk'[q] = disk[q]
        \/ disk' = disk
    BY <2>1 DEF AssetMoves
  <2> QED
    BY <2>2, FileStays
<1>5. ASSUME NEW d \in Dir, NEW name \in Dir \ {<<>>}, RenameFolder(d, name)
      PROVE  disk[p] \in Range(disk')
  <2>1. PICK new : new = Front(d) \o name
    OBVIOUS
  <2>2. FolderMoves(d, new, name)
    BY <1>5, <2>1, FolderRenamed DEF TInv
  <2>3. Moved(p, d, new) \in DOMAIN disk' /\ disk'[Moved(p, d, new)] = disk[p]
    BY <2>2 DEF FolderMoves
  <2> QED
    BY <2>3, FileStays
<1>6. ASSUME UNCHANGED disk PROVE disk[p] \in Range(disk')
  BY <1>6, FileStays
<1>7. \/ \E h \in Handle, q \in PlainPath :
            AddFile(h, q) \/ ImportExternal(h, q) \/ NewMaterial(h, q)
      \/ \E h \in Handle, q \in Path \ PlainPath : NewScene(h, q)
      \/ WriteMaterial
      \/ \E h \in Handle, d \in Dir, n \in PlainName : RenameAsset(h, d, n)
      \/ \E d \in Dir, name \in Dir \ {<<>>} : RenameFolder(d, name)
      \/ UNCHANGED disk
  BY DEF Next, RegistrySaved, GetAsset, DeleteAsset, FileChanged, NewFolder, Reimported,
         Crash, Exit, ExitDone, Restart
<1>8. ASSUME NEW h \in Handle, NEW q \in PlainPath, NewMaterial(h, q) PROVE UNCHANGED disk
  BY <1>8 DEF NewMaterial
<1> QED
  BY <1>1, <1>2, <1>3, <1>4, <1>5, <1>6, <1>7, <1>8

\* For any files and folders: only an import or a new scene over a file of the
\* same name loses it.
THEOREM OnlyOverwritesLoseFiles == Spec => NoFileIsLost
<1> DEFINE Kept == \A p \in DOMAIN disk : disk[p] \in Range(disk') \/ WrittenOver(p)
<1>1. TInv /\ [Next]_vars => [Kept]_vars
  BY NoFileLostStep
<1> QED
  BY <1>1, InitTyped, NextTyped, PTL DEF Spec, NoFileIsLost

----------------------------------------------------------------------------
(* The files have plain names, so that the registry file keeps the path of *)
(* every asset whose file is there.                                        *)

FilesArePlain == \A p \in DOMAIN disk : Plain(p)

MaterialIsPlain ==
  step.at \in {"saving material", "writing material"} => Plain(registry[step.asset])

PInv == TInv /\ FilesArePlain /\ MaterialIsPlain

LEMMA PlainWhenIdle ==
  ASSUME FilesArePlain, DOMAIN disk' = DOMAIN disk,
         step'.at \notin {"saving material", "writing material"}
  PROVE  FilesArePlain' /\ MaterialIsPlain'
BY DEF FilesArePlain, MaterialIsPlain

LEMMA PlainCreated ==
  ASSUME FilesArePlain, NEW h, NEW q \in Path, NEW place, SetMetadata(h, q, place),
         disk' = disk \/ NewFile(Cut(q)), place = "saving material" => Plain(q),
         place # "writing material"
  PROVE  FilesArePlain' /\ MaterialIsPlain'
<1>1. Plain(Cut(q))
  BY CutPath
<1>2. DOMAIN disk' \subseteq DOMAIN disk \union {Cut(q)}
  BY FileIsAdded
<1>3. step' = [at |-> place, asset |-> h] /\ registry'[h] = q
  BY RegistryGrows DEF SetMetadata, At
<1>4. FilesArePlain'
  BY <1>1, <1>2 DEF FilesArePlain
<1>5. step'.at = place /\ step'.asset = h
  BY <1>3
<1> QED
  BY <1>3, <1>4, <1>5 DEF MaterialIsPlain

LEMMA MovedLast ==
  ASSUME NEW d \in Dir, NEW new \in Dir, NEW p \in Path
  PROVE  Last(Moved(p, d, new)) = Last(p)
<1>1. CASE ~IsPrefix(d, p)
  BY <1>1 DEF Moved
<1>2. CASE IsPrefix(d, p)
  <2>1. /\ d \in Seq(Part) /\ p \in Seq(Part) /\ new \in Seq(Part)
        /\ Len(d) \in Nat /\ Len(p) \in Nat /\ Len(new) \in Nat
    BY DirParts, PathParts, LenProperties
  <2>2. Len(d) <= Len(p) /\ \A i \in 1..Len(d) : d[i] = p[i]
    BY <2>1, <1>2, PrefixParts
  <2>3. Len(d) # Len(p)
    <3>1. ASSUME Len(d) = Len(p) PROVE FALSE
      <4>1. d = p
        BY <3>1, <2>1, <2>2, SeqEqual
      <4> QED
        BY <4>1, NoDirIsAPath
    <3> QED
      BY <3>1
  <2>4. PICK q : q = Moved(p, d, new)
    OBVIOUS
  <2>5. /\ Len(q) = Len(new) + (Len(p) - Len(d))
        /\ \A i \in (Len(new) + 1)..(Len(new) + (Len(p) - Len(d))) :
             q[i] = p[Len(d) + (i - Len(new))]
    <3>1. d \in Seq(Part) /\ p \in Seq(Part) /\ new \in Seq(Part)
      BY <2>1
    <3>2. /\ Moved(p, d, new) \in Seq(Part)
          /\ Len(Moved(p, d, new)) = Len(new) + (Len(p) - Len(d))
          /\ \A i \in 1..Len(new) : Moved(p, d, new)[i] = new[i]
          /\ \A i \in (Len(new) + 1)..(Len(new) + (Len(p) - Len(d))) :
               Moved(p, d, new)[i] = p[Len(d) + (i - Len(new))]
      BY <3>1, <1>2, MovedParts
    <3> QED
      BY <2>4, <3>2
  <2>6. Len(q) \in (Len(new) + 1)..(Len(new) + (Len(p) - Len(d)))
    BY <2>1, <2>2, <2>3, <2>5
  <2>7. Len(d) + (Len(q) - Len(new)) = Len(p)
    BY <2>1, <2>5
  <2> QED
    BY <2>4, <2>5, <2>6, <2>7 DEF Last
<1> QED
  BY <1>1, <1>2

LEMMA RenamedLast ==
  ASSUME NEW a \in Dir, NEW d \in Dir, NEW n \in Name
  PROVE  Last(a \o Append(d, n)) = n
<1>1. /\ a \in Seq(Part) /\ d \in Seq(Part) /\ n \in Part
      /\ Len(a) \in Nat /\ Len(d) \in Nat
  BY DirParts, LenProperties DEF Part
<1>2. PICK p : p = Append(d, n)
  OBVIOUS
<1>3. p \in Seq(Part) /\ Len(p) = Len(d) + 1 /\ p[Len(d) + 1] = n
  BY <1>1, <1>2, AppendProperties
<1>4. PICK q : q = a \o p
  OBVIOUS
<1>5. /\ Len(q) = Len(a) + Len(p)
      /\ \A i \in 1..(Len(a) + Len(p)) : q[i] = IF i <= Len(a) THEN a[i] ELSE p[i - Len(a)]
  BY <1>1, <1>3, <1>4, ConcatProperties
<1>6. /\ Len(q) \in 1..(Len(a) + Len(p)) /\ ~(Len(q) <= Len(a))
      /\ Len(q) - Len(a) = Len(d) + 1
  BY <1>1, <1>3, <1>5
<1>7. q[Len(q)] = n
  BY <1>3, <1>5, <1>6
<1> QED
  BY <1>2, <1>4, <1>7 DEF Last

LEMMA PlainStep == PInv /\ [Next]_vars => PInv'
<1> SUFFICES ASSUME PInv, [Next]_vars PROVE FilesArePlain' /\ MaterialIsPlain'
  BY NextTyped DEF PInv
<1>0. TInv /\ FilesArePlain /\ MaterialIsPlain
  BY DEF PInv
<1>1. ASSUME NEW h \in Handle, NEW q \in PlainPath,
             AddFile(h, q) \/ ImportExternal(h, q) \/ NewMaterial(h, q)
      PROVE  FilesArePlain' /\ MaterialIsPlain'
  <2>1. q \in Path /\ Plain(q) /\ Cut(q) = q
    BY PlainCut
  <2>2. PICK place \in {"saving", "saving material"} : SetMetadata(h, q, place)
    BY <1>1 DEF AddFile, ImportExternal, NewMaterial
  <2>3. disk' = disk \/ NewFile(Cut(q))
    BY <1>1, <2>1 DEF AddFile, ImportExternal, NewMaterial
  <2>4. place # "writing material"
    OBVIOUS
  <2> QED
    BY <1>0, <2>1, <2>2, <2>3, <2>4, PlainCreated
<1>2. ASSUME NEW h \in Handle, NEW q \in Path, NewScene(h, q)
      PROVE  FilesArePlain' /\ MaterialIsPlain'
  <2>1. SetMetadata(h, q, "saving") /\ (disk' = disk \/ NewFile(Cut(q)))
    BY <1>2 DEF NewScene
  <2> QED
    BY <1>0, <2>1, PlainCreated
<1>3. CASE RegistrySaved
  <2>1. registry' = registry /\ disk' = disk
    BY <1>3 DEF RegistrySaved
  <2>2. \/ step.at = "saving material" /\ step' = [at |-> "writing material", asset |-> step.asset]
        \/ step' = [at |-> "idle", asset |-> NoAsset]
    BY <1>3 DEF RegistrySaved, SaveDone, Idle, At
  <2>3. CASE step.at = "saving material" /\ step' = [at |-> "writing material", asset |-> step.asset]
    <3>1. step'.asset = step.asset /\ Plain(registry[step.asset])
      BY <1>0, <2>3 DEF MaterialIsPlain
    <3> QED
      BY <1>0, <2>1, <3>1 DEF FilesArePlain, MaterialIsPlain
  <2>4. CASE step' = [at |-> "idle", asset |-> NoAsset]
    <3>1. step'.at = "idle"
      BY <2>4
    <3> QED
      BY <1>0, <2>1, <3>1, PlainWhenIdle
  <2> QED
    BY <2>2, <2>3, <2>4
<1>4. CASE WriteMaterial
  <2>1. /\ NewFile(registry[step.asset]) /\ step' = Idle
        /\ Plain(registry[step.asset])
    BY <1>0, <1>4 DEF WriteMaterial, MaterialIsPlain
  <2>2. DOMAIN disk' = DOMAIN disk \union {registry[step.asset]}
    BY <2>1, FileIsAdded
  <2>3. FilesArePlain'
    BY <1>0, <2>1, <2>2 DEF FilesArePlain
  <2> QED
    BY <2>1, <2>3, IdleTyped DEF MaterialIsPlain
<1>5. ASSUME NEW h \in Handle, NEW d \in Dir, NEW n \in PlainName, RenameAsset(h, d, n)
      PROVE  FilesArePlain' /\ MaterialIsPlain'
  <2>1. PICK old : old = registry[h]
    OBVIOUS
  <2>2. PICK new : new = Front(old) \o Append(d, n)
    OBVIOUS
  <2>3. /\ old \in DOMAIN disk /\ step' = Idle
        /\ disk' = disk \/ disk' = With(Without(disk, old), new, disk[old])
    BY <1>5, <2>1, <2>2 DEF RenameAsset, Found
  <2>4. Front(old) \in Dir
    BY <1>0, <2>3, FilePath, PathFront DEF TInv
  <2>5. Last(new) = n /\ Shown[n] = n
    BY <2>2, <2>4, RenamedLast DEF PlainName
  <2>6. DOMAIN disk' \subseteq DOMAIN disk \union {new}
    <3>1. DOMAIN Without(disk, old) = DOMAIN disk \ {old}
      BY WithoutDomain
    <3>2. DOMAIN With(Without(disk, old), new, disk[old]) = DOMAIN Without(disk, old) \union {new}
      BY WithDomain
    <3> QED
      BY <2>3, <3>1, <3>2
  <2>7. FilesArePlain'
    BY <1>0, <2>5, <2>6 DEF FilesArePlain, Plain
  <2> QED
    BY <2>3, <2>7, IdleTyped DEF MaterialIsPlain
<1>6. ASSUME NEW d \in Dir, NEW name \in Dir \ {<<>>}, RenameFolder(d, name)
      PROVE  FilesArePlain' /\ MaterialIsPlain'
  <2>1. PICK new : new = Front(d) \o name
    OBVIOUS
  <2>2. FolderMoves(d, new, name)
    BY <1>0, <1>6, <2>1, FolderRenamed DEF TInv
  <2>3. new \in Dir /\ DOMAIN disk' = {Moved(p, d, new) : p \in DOMAIN disk}
    BY <2>2 DEF FolderMoves
  <2>4. \A p \in DOMAIN disk : Plain(Moved(p, d, new))
    BY <1>0, <2>3, FilePath, MovedLast DEF TInv, FilesArePlain, Plain
  <2>5. FilesArePlain'
    BY <2>3, <2>4 DEF FilesArePlain
  <2>6. step' = Idle
    BY <1>6 DEF RenameFolder
  <2> QED
    BY <2>5, <2>6, IdleTyped DEF MaterialIsPlain
<1>7. ASSUME UNCHANGED <<registry, disk, step>> PROVE FilesArePlain' /\ MaterialIsPlain'
  BY <1>0, <1>7 DEF FilesArePlain, MaterialIsPlain
<1>8. ASSUME UNCHANGED disk, step' = Idle \/ step' = At("exiting", NoAsset)
      PROVE  FilesArePlain' /\ MaterialIsPlain'
  <2>1. step'.at \in {"idle", "exiting"}
    BY <1>8 DEF Idle, At
  <2> QED
    BY <1>0, <1>8, <2>1, PlainWhenIdle
<1>9. \/ \E h \in Handle, q \in PlainPath :
            AddFile(h, q) \/ ImportExternal(h, q) \/ NewMaterial(h, q)
      \/ \E h \in Handle, q \in Path \ PlainPath : NewScene(h, q)
      \/ RegistrySaved \/ WriteMaterial
      \/ \E h \in Handle, d \in Dir, n \in PlainName : RenameAsset(h, d, n)
      \/ \E d \in Dir, name \in Dir \ {<<>>} : RenameFolder(d, name)
      \/ UNCHANGED <<registry, disk, step>>
      \/ UNCHANGED disk /\ (step' = Idle \/ step' = At("exiting", NoAsset))
  BY DEF Next, vars, GetAsset, DeleteAsset, FileChanged, NewFolder, Reimported,
         Crash, Exit, ExitDone, Restart
<1> QED
  BY <1>1, <1>2, <1>3, <1>4, <1>5, <1>6, <1>7, <1>8, <1>9

LEMMA InitPlain == Init => PInv
<1> SUFFICES ASSUME Init PROVE FilesArePlain /\ MaterialIsPlain
  BY InitTyped DEF PInv
<1> QED
  BY NothingLoaded, IdleTyped DEF Init, FilesArePlain, MaterialIsPlain

\* The registries name paths, every file has a plain name and lies in a folder
\* that is there, and the half-written material refers to what exists, for
\* folders nested to any depth.
THEOREM AssetTypesAreKept == Spec => []AssetTypeOK
<1>1. PInv => AssetTypeOK
  <2> SUFFICES ASSUME PInv PROVE AssetTypeOK
    OBVIOUS
  <2>1. TInv /\ FilesArePlain
    BY DEF PInv
  <2>2. disk \in PartialFunctions(PlainPath, File)
    <3>1. DOMAIN disk \subseteq Path /\ disk \in [DOMAIN disk -> File]
      BY <2>1, PartialFunction DEF TInv, Files
    <3>2. DOMAIN disk \subseteq PlainPath
      BY <2>1, <3>1, PlainPaths DEF FilesArePlain
    <3> QED
      BY <3>1, <3>2 DEF PartialFunctions
  <2> QED
    BY <2>1, <2>2 DEF TInv, Maps, Files, Threads, MaterialIsRegistered, AssetTypeOK
<1> QED
  BY <1>1, InitPlain, PlainStep, PTL DEF Spec

----------------------------------------------------------------------------
(* What a step does to the assets *)

\* The conclusion of AssetsFollowTheirFiles for one asset.
Follows(h) ==
  \/ FileOf(h)' = FileOf(h)
  \/ RenameFailed(h)
  \/ SiblingMoved(h)
  \/ WrittenOver(registry[h])

LEMMA SameFile ==
  ASSUME NEW h, Found(h), h \in DOMAIN registry',
         registry'[h] \in DOMAIN disk', disk'[registry'[h]] = disk[registry[h]]
  PROVE  Follows(h)
BY DEF Follows, FileOf, Found, Registered

LEMMA FollowsInCreation ==
  ASSUME NEW h, Found(h), NEW k, NEW p, NEW place, SetMetadata(k, p, place), k \notin Registered,
         disk' = disk \/ NewFile(Cut(p))
  PROVE  Follows(h)
<1>1. /\ DOMAIN registry' = Registered \union {k} /\ registry'[k] = p
      /\ registry'[h] = registry[h] /\ h \in Registered /\ registry[h] \in DOMAIN disk
  BY RegistryGrows DEF Found
<1>2. CASE disk' = disk
  BY <1>1, <1>2, SameFile
<1>3. CASE NewFile(Cut(p)) /\ Cut(p) # registry[h]
  <2>1. registry[h] \in DOMAIN disk' /\ disk'[registry[h]] = disk[registry[h]]
    BY <1>1, <1>3, FileIsAdded
  <2> QED
    BY <1>1, <2>1, SameFile
<1>4. CASE NewFile(Cut(p)) /\ Cut(p) = registry[h]
  <2>1. Cut(p) \in DOMAIN disk'
    BY <1>4, FileIsAdded
  <2>2. WrittenOver(registry[h])
    BY <1>1, <1>4, <2>1 DEF WrittenOver, Registered
  <2> QED
    BY <2>2 DEF Follows
<1> QED
  BY <1>2, <1>3, <1>4

LEMMA FollowsRenamedAsset ==
  ASSUME NEW k, NEW old, NEW new, AssetMoves(k, old, new),
         NEW h, Found(h), Alone(h)
  PROVE  Follows(h)
<1>1. h \in Registered /\ registry[h] \in DOMAIN disk /\ h \in DOMAIN registry'
  BY DEF Found, AssetMoves
<1>2. CASE h = k /\ disk' = disk
  <2>1. registry'[h] # registry[h] /\ dirs' = dirs
    BY <1>1, <1>2 DEF AssetMoves
  <2> QED
    BY <1>2, <2>1 DEF Follows, RenameFailed
<1>3. CASE h = k /\ disk' # disk
  <2>1. registry'[h] = new /\ new \in DOMAIN disk' /\ disk'[new] = disk[registry[h]]
    BY <1>3 DEF AssetMoves
  <2> QED
    BY <1>1, <2>1, SameFile
<1>4. CASE h # k
  <2>1. registry'[h] = registry[h] /\ registry[h] # old
    BY <1>1, <1>4 DEF AssetMoves, Alone
  <2>2. registry[h] \in DOMAIN disk' /\ disk'[registry[h]] = disk[registry[h]]
    BY <1>1, <2>1 DEF AssetMoves
  <2> QED
    BY <1>1, <2>1, <2>2, SameFile
<1> QED
  BY <1>2, <1>3, <1>4

LEMMA FollowsRenamedFolder ==
  ASSUME Maps, Files, NEW d \in Dir, NEW name \in Dir \ {<<>>}, RenameFolder(d, name),
         NEW h, Found(h)
  PROVE  Follows(h)
<1>1. PICK new : new = Front(d) \o name
  OBVIOUS
<1>2. FolderMoves(d, new, name)
  BY <1>1, FolderRenamed
<1>3. PICK p : p = registry[h]
  OBVIOUS
<1>4. h \in Registered /\ p \in DOMAIN disk /\ p \in Path /\ h \in DOMAIN registry'
  BY <1>2, <1>3, FilePath DEF Found, FolderMoves
<1>5. /\ registry'[h] = Repath(p, d, new)
      /\ IsPrefix(d, p) => registry'[h] = Moved(p, d, new)
      /\ Moved(p, d, new) \in DOMAIN disk' /\ disk'[Moved(p, d, new)] = disk[p]
      /\ new \in Dir /\ new # <<>> /\ d # <<>> /\ Len(new) = (Len(d) - 1) + Len(name)
  BY <1>2, <1>3, <1>4 DEF FolderMoves
<1>6. CASE IsPrefix(d, p)
  BY <1>3, <1>4, <1>5, <1>6, SameFile
<1>7. CASE ~IsPrefix(d, p)
  <2>1. p \in DOMAIN disk' /\ disk'[p] = disk[p]
    BY <1>5, <1>7 DEF Moved
  <2>2. CASE ~HasPrefix(p, d)
    <3>1. registry'[h] = p
      BY <1>5, <2>2 DEF Repath
    <3> QED
      BY <1>3, <1>4, <2>1, <3>1, SameFile
  <2>3. CASE HasPrefix(p, d)
    <3>1. /\ p \in Seq(Part) /\ d \in Seq(Part) /\ new \in Seq(Part)
          /\ Len(p) \in Nat /\ Len(d) \in Nat \ {0} /\ Len(new) \in Nat \ {0}
          /\ name \in Seq(Part) /\ Len(name) \in Nat \ {0}
      BY <1>4, <1>5, PathParts, DirParts, EmptySeq, LenProperties
    <3>2. Len(d) <= Len(p) /\ IsPrefix(Front(d), p)
      BY <2>3 DEF HasPrefix
    <3>3. PICK a : a = Front(new)
      OBVIOUS
    <3>4. registry'[h] = a \o SubSeq(p, Len(d), Len(p))
      BY <1>5, <1>7, <2>3, <3>3 DEF Repath, Rebased
    <3>5. /\ a \in Seq(Part) /\ Len(a) = Len(new) - 1
          /\ \A i \in 1..(Len(new) - 1) : a[i] = new[i]
      <4>1. \A i \in 1..(Len(new) - 1) : new[i] \in Part
        BY <3>1, ElementOfSeq
      <4> QED
        BY <4>1, <3>1, <3>3, FrontParts
    <3>6. PICK q : q = registry'[h]
      OBVIOUS
    <3>7. /\ q \in Seq(Part) /\ Len(q) = Len(a) + Len(p) - Len(d) + 1
          /\ \A i \in 1..Len(a) : q[i] = a[i]
          /\ \A i \in (Len(a) + 1)..Len(q) : q[i] = p[Len(d) + (i - Len(a)) - 1]
      <4>1. Len(d) <= Len(p) + 1 /\ q = a \o SubSeq(p, Len(d), Len(p))
        BY <3>1, <3>2, <3>4, <3>6
      <4>2. a \in Seq(Part) /\ p \in Seq(Part) /\ Len(d) \in Nat \ {0}
        BY <3>1, <3>5
      <4>3. PICK k \in Nat \ {0} : k = Len(d)
        BY <4>2
      <4>4. /\ q \in Seq(Part) /\ Len(q) = Len(a) + Len(p) - k + 1
            /\ \A i \in 1..Len(a) : q[i] = a[i]
            /\ \A i \in (Len(a) + 1)..Len(q) : q[i] = p[k + (i - Len(a)) - 1]
        <5>1. k <= Len(p) + 1 /\ q = a \o SubSeq(p, k, Len(p))
          BY <4>1, <4>3
        <5>2. a \in Seq(Part) /\ p \in Seq(Part)
          BY <4>2
        <5>3. IsSplice(a \o SubSeq(p, k, Len(p)), a, p, k)
          BY <5>1, <5>2, Spliced
        <5> QED
          BY <5>1, <5>3 DEF IsSplice
      <4> QED
        BY <4>3, <4>4
    <3>8. CASE Len(name) > 1
      <4>1. Len(q) > Len(p)
        BY <1>5, <3>1, <3>5, <3>7, <3>8
      <4>2. SiblingMoved(h)
        BY <4>1, <2>1, <1>3, <3>6 DEF SiblingMoved
      <4> QED
        BY <4>2 DEF Follows
    <3>9. CASE Len(name) = 1
      <4>1. /\ Front(d) \in Seq(Part) /\ Len(Front(d)) = Len(d) - 1
            /\ \A i \in 1..(Len(d) - 1) : Front(d)[i] = d[i]
        <5>1. \A i \in 1..(Len(d) - 1) : d[i] \in Part
          BY <3>1, ElementOfSeq
        <5> QED
          BY <5>1, <3>1, FrontParts
      <4>2. \A i \in 1..(Len(d) - 1) : Front(d)[i] = p[i]
        <5>1. Front(d) \in Seq(Part)
          BY <4>1
        <5>2. \A i \in 1..Len(Front(d)) : Front(d)[i] = p[i]
          BY <5>1, <3>1, <3>2, PrefixParts
        <5> QED
          BY <5>2, <4>1
      <4>3. Len(new) = Len(d) /\ \A i \in 1..(Len(d) - 1) : new[i] = Front(d)[i]
        <5>1. \A i \in 1..(Len(Front(d)) + Len(name)) : (Front(d) \o name)[i] =
                IF i <= Len(Front(d)) THEN Front(d)[i] ELSE name[i - Len(Front(d))]
          <6>1. Front(d) \in Seq(Part) /\ name \in Seq(Part)
            BY <3>1, <4>1
          <6> QED
            BY <6>1, ConcatProperties
        <5>2. \A i \in 1..Len(d) : new[i] =
                IF i <= Len(d) - 1 THEN Front(d)[i] ELSE name[i - (Len(d) - 1)]
          BY <5>1, <1>1, <3>1, <3>9, <4>1
        <5> QED
          BY <5>2, <1>5, <3>1, <3>9
      <4>4. Len(q) = Len(p) /\ Len(a) = Len(d) - 1
        BY <3>1, <3>5, <3>7, <4>3
      <4>5. ASSUME NEW i \in 1..Len(p) PROVE q[i] = p[i]
        <5>1. CASE i <= Len(a)
          <6>1. i \in 1..(Len(d) - 1) /\ i \in 1..Len(a) /\ i \in 1..(Len(new) - 1)
            BY <5>1, <4>3, <4>4, <3>1
          <6> QED
            BY <6>1, <3>5, <3>7, <4>2, <4>3
        <5>2. CASE i > Len(a)
          <6>1. i \in (Len(a) + 1)..Len(q) /\ Len(d) + (i - Len(a)) - 1 = i
            BY <5>2, <4>4, <3>1
          <6> QED
            BY <6>1, <3>7
        <5> QED
          BY <5>1, <5>2, <4>4, <3>1
      <4>6. q = p
        BY <4>4, <4>5, <3>1, <3>7, SeqEqual
      <4> QED
        BY <4>6, <3>6, <2>1, <1>3, <1>4, SameFile
    <3>10. Len(name) > 1 \/ Len(name) = 1
      <4>1. PICK l \in Nat \ {0} : l = Len(name)
        BY <3>1
      <4> QED
        BY <4>1
    <3> QED
      BY <3>8, <3>9, <3>10
  <2> QED
    BY <2>2, <2>3
<1> QED
  BY <1>6, <1>7

LEMMA FollowsStep ==
  ASSUME PInv, Next, ~Crash, NEW h \in Registered, h \in DOMAIN registry', Found(h), Alone(h)
  PROVE  Follows(h)
<1>0. TInv /\ FilesArePlain
  BY DEF PInv
<1>1. ASSUME NEW k \in Handle, NEW p \in PlainPath,
             AddFile(k, p) \/ ImportExternal(k, p) \/ NewMaterial(k, p)
      PROVE  Follows(h)
  <2>1. Cut(p) = p
    BY PlainCut
  <2>2. k \notin Registered /\ (disk' = disk \/ NewFile(Cut(p)))
    BY <1>1, <2>1 DEF AddFile, ImportExternal, NewMaterial, Fresh
  <2>3. PICK place : SetMetadata(k, p, place)
    BY <1>1 DEF AddFile, ImportExternal, NewMaterial
  <2> QED
    BY <2>2, <2>3, FollowsInCreation
<1>2. ASSUME NEW k \in Handle, NEW p \in Path, NewScene(k, p) PROVE Follows(h)
  <2>1. k \notin Registered /\ (disk' = disk \/ NewFile(Cut(p))) /\ SetMetadata(k, p, "saving")
    BY <1>2 DEF NewScene, Fresh
  <2> QED
    BY <2>1, FollowsInCreation
<1>4. ASSUME registry'[h] = registry[h],
             \A q \in DOMAIN disk : q \in DOMAIN disk' /\ disk'[q] = disk[q]
      PROVE  Follows(h)
  BY <1>4, SameFile DEF Found
<1>5. CASE WriteMaterial
  BY <1>0, <1>4, <1>5, MaterialWritten DEF WriteMaterial
<1>6. ASSUME NEW k \in Handle, DeleteAsset(k) PROVE Follows(h)
  <2>1. registry' = Without(registry, k) /\ disk' = disk
    BY <1>6 DEF DeleteAsset
  <2>2. registry'[h] = registry[h]
    BY <2>1 DEF Without, Restrict
  <2> QED
    BY <2>1, <2>2, <1>4
<1>7. ASSUME NEW k \in Handle, NEW d \in Dir, NEW n \in PlainName, RenameAsset(k, d, n)
      PROVE  Follows(h)
  BY <1>7, AssetRenamed, FollowsRenamedAsset
<1>8. ASSUME NEW d \in Dir, NEW name \in Dir \ {<<>>}, RenameFolder(d, name) PROVE Follows(h)
  BY <1>0, <1>8, FollowsRenamedFolder DEF TInv
<1>9. ASSUME UNCHANGED <<registry, disk>> PROVE Follows(h)
  BY <1>4, <1>9
<1>3. CASE ExitDone
  <2>1. disk' = disk /\ registry' = OnFile(registry)
    BY <1>3 DEF ExitDone, Restart
  <2>2. registry[h] \in DOMAIN disk /\ registry[h] \in Path /\ Plain(registry[h])
    BY <1>0, RegisteredPath DEF Found, FilesArePlain, TInv
  <2>3. registry'[h] = Cut(registry[h])
    BY <2>1 DEF OnFile, Registered
  <2>4. Cut(registry[h]) = registry[h]
    BY <2>2, CutPath
  <2> QED
    BY <2>1, <2>3, <2>4, <1>4
<1>10. \/ \E k \in Handle, p \in PlainPath :
            AddFile(k, p) \/ ImportExternal(k, p) \/ NewMaterial(k, p)
       \/ \E k \in Handle, p \in Path \ PlainPath : NewScene(k, p)
       \/ WriteMaterial \/ ExitDone
       \/ \E k \in Handle : DeleteAsset(k)
       \/ \E k \in Handle, d \in Dir, n \in PlainName : RenameAsset(k, d, n)
       \/ \E d \in Dir, name \in Dir \ {<<>>} : RenameFolder(d, name)
       \/ UNCHANGED <<registry, disk>>
  BY DEF Next, RegistrySaved, GetAsset, FileChanged, NewFolder, Reimported, Exit
<1> QED
  BY <1>1, <1>2, <1>3, <1>5, <1>6, <1>7, <1>8, <1>9, <1>10

\* For any folders, nested to any depth: an asset that alone names its file
\* names it after every step of the editor but those that lose it: a failing
\* os.rename, a sibling taken along, a file written over.
THEOREM AssetsKeepTheirFiles == Spec => AssetsFollowTheirFiles
<1> DEFINE Kept == ~Crash => \A h \in Registered \intersect DOMAIN registry' :
                     Found(h) /\ Alone(h) =>
                       \/ FileOf(h)' = FileOf(h)
                       \/ RenameFailed(h)
                       \/ SiblingMoved(h)
                       \/ WrittenOver(registry[h])
<1>1. PInv /\ [Next]_vars => [Kept]_vars
  BY FollowsStep DEF Follows
<1> QED
  BY <1>1, InitPlain, PlainStep, PTL DEF Spec, AssetsFollowTheirFiles

=============================================================================
