---------------------------- MODULE AssetRegistry ----------------------------
(***************************************************************************)
(* The editor's asset manager: the registry that gives each asset the path *)
(* of its file, the copy of the registry in the project, the files in the  *)
(* assets folder and the loaded assets.  The content browser creates,      *)
(* imports, renames and deletes; the file watcher imports again from a     *)
(* thread of its own; the editor exits or crashes and is started again.    *)
(* A path is the sequence of its folders and the name of the file.         *)
(***************************************************************************)
EXTENDS Naturals, FiniteSets, Functions, SequencesExt

CONSTANTS
  Handle,    \* asset handles (a bound: the code draws a UUID each time)
  NoAsset,   \* handle 0
  File,      \* the identities of files (a bound)
  Folder,    \* names of folders
  Name,      \* names of files, with their extensions
  Shown,     \* what of a name comes before its first zero byte
  Extends,   \* pairs <<folder, longer>> of names whose text begins alike
  MaxDepth,  \* bounds of the model on nested folders
  MaxFolders \* and on their number

Dir  == BoundedSeq(Folder, MaxDepth)
Path == {Append(d, n) : d \in Dir, n \in Name}

\* The names without a zero byte: those that the files have, and every name
\* but the one that New > Scene makes of its text field.
PlainName == {n \in Name : Shown[n] = n}
PlainPath == {Append(d, n) : d \in Dir, n \in PlainName}

\* A path as the file system and Lua read it.
Cut(p) == Append(Front(p), Shown[Last(p)])

ASSUME HandleAssumption == NoAsset \notin Handle
ASSUME BoundAssumption  == MaxDepth \in Nat /\ MaxFolders \in Nat
ASSUME NameAssumption   == Folder \intersect Name = {}
ASSUME ShownAssumption  == Shown \in [Name -> Name] /\ \A n \in Name : Shown[Shown[n]] = Shown[n]
ASSUME ExtendsAssumption == Extends \subseteq Folder \X (Folder \union Name)

VARIABLES
  registry,  \* path of each registered asset
  saved,     \* the registry file
  loaded,    \* which thread has stored each loaded asset
  dirs,      \* the folders under Assets
  disk,      \* the files, by path
  step,      \* where the main thread is between two writes of files
  watching   \* the script that the watcher's thread is importing

vars == <<registry, saved, loaded, dirs, disk, step, watching>>

Nothing == [x \in {} |-> x]
PartialFunctions(S, T) == UNION {[D -> T] : D \in SUBSET S}

At(place, h) == [at |-> place, asset |-> h]
Idle == At("idle", NoAsset)

Init ==
  /\ registry = Nothing /\ saved = Nothing /\ loaded = Nothing
  /\ dirs = {<<>>} /\ disk = Nothing
  /\ step = Idle /\ watching = NoAsset

----------------------------------------------------------------------------
Registered == DOMAIN registry
Found(h) == h \in Registered /\ registry[h] \in DOMAIN disk

\* generate_uuid: no handle that anything still names.
Fresh(h) == h \notin Registered \union DOMAIN saved \union DOMAIN loaded \union {watching}

With(f, x, y) == [z \in DOMAIN f \union {x} |-> IF z = x THEN y ELSE f[z]]
Without(f, x) == Restrict(f, DOMAIN f \ {x})

NewFile(p) == \E f \in File \ Range(disk) : disk' = With(disk, p, f)

\* The registry as its file keeps it.
OnFile(r) == [h \in DOMAIN r |-> Cut(r[h])]

(***************************************************************************)
(* registry_set_metadata writes the whole registry; the file is truncated  *)
(* first.  What comes of a file that is cut short is an empty registry     *)
(* (serialize_init_file leaves the mode at Serialize).                     *)
(***************************************************************************)
SetMetadata(h, p, place) ==
  /\ registry' = With(registry, h, p)
  /\ saved' = Nothing
  /\ step' = At(place, h)

----------------------------------------------------------------------------
(* Creating assets *)

\* A new script, or the cube of New > Primitives: the file, then its handle.
AddFile(h, p) ==
  /\ step = Idle /\ Fresh(h)
  /\ p \notin DOMAIN disk /\ Front(p) \in dirs
  /\ NewFile(p)
  /\ SetMetadata(h, p, "saving")
  /\ UNCHANGED <<loaded, dirs, watching>>

\* Import registers a new handle also for a path that has one, and does not
\* ask whether the file could be copied: onto a file of the same name Windows
\* does not copy, and Linux writes over it.
ImportExternal(h, p) ==
  /\ step = Idle /\ Fresh(h) /\ Front(p) \in dirs
  /\ disk' = disk \/ NewFile(p)
  /\ SetMetadata(h, p, "saving")
  /\ UNCHANGED <<loaded, dirs, watching>>

\* New > Scene does not ask whether a file has the name, nor whether its own
\* could be written.  The name is the whole text field, zero bytes included,
\* with ".scene" behind them: the file gets what comes before them, and the
\* registry the rest too until it has been saved and read.
NewScene(h, p) ==
  /\ step = Idle /\ Fresh(h)
  /\ disk' = disk \/ (Front(p) \in dirs /\ NewFile(Cut(p)))
  /\ SetMetadata(h, p, "saving")
  /\ UNCHANGED <<loaded, dirs, watching>>

\* create_new_asset: the handle first; save_asset then loads and writes it.
NewMaterial(h, p) ==
  /\ step = Idle /\ Fresh(h)
  /\ p \notin DOMAIN disk /\ Front(p) \in dirs
  /\ SetMetadata(h, p, "saving material")
  /\ UNCHANGED <<loaded, dirs, disk, watching>>

\* Planted bug: the asset is registered after the registry has been written.
SavedTooEarly ==
  /\ saved' = OnFile(Without(registry, step.asset))
  /\ step' = IF step.at = "saving material" THEN At("writing material", step.asset) ELSE Idle

SaveDone ==
  /\ saved' = OnFile(registry)
  /\ step' = IF step.at = "saving material" THEN At("writing material", step.asset) ELSE Idle

RegistrySaved ==
  /\ step.at \in {"saving", "saving material"}
  /\ SaveDone
  /\ UNCHANGED <<registry, loaded, dirs, disk, watching>>

WriteMaterial ==
  /\ step.at = "writing material"
  /\ loaded' = With(loaded, step.asset, "main")
  /\ NewFile(registry[step.asset])
  /\ step' = Idle
  /\ UNCHANGED <<registry, saved, dirs, watching>>

\* get_asset: a material without a file is loaded too, with the defaults.
GetAsset(h) ==
  /\ step = Idle /\ h \in Registered \ DOMAIN loaded
  /\ loaded' = With(loaded, h, "main")
  /\ UNCHANGED <<registry, saved, dirs, disk, step, watching>>

----------------------------------------------------------------------------
(* Renaming and deleting.  The content browser lists the assets whose file *)
(* it finds; none of this writes the registry file.                        *)

\* Planted bug: the file that has the new name is overwritten.
RenameOver(h, d, n) ==
  LET old == registry[h]
      new == Front(old) \o Append(d, n)
  IN /\ step = Idle /\ Found(h) /\ new # old /\ Len(new) <= MaxDepth + 1
     /\ registry' = [registry EXCEPT ![h] = new]
     /\ \/ disk' = disk
        \/ Front(new) \in dirs /\ disk' = With(Without(disk, old), new, disk[old])
     /\ UNCHANGED <<saved, loaded, dirs, step, watching>>

\* The new name may lead into another folder.  The path changes before
\* os.rename is called, which may fail: the folder is not there, the file is
\* open elsewhere, the system does not accept the name.
RenameAsset(h, d, n) ==
  LET old == registry[h]
      new == Front(old) \o Append(d, n)
  IN /\ step = Idle /\ Found(h)
     /\ new \notin DOMAIN disk /\ Len(new) <= MaxDepth + 1
     /\ registry' = [registry EXCEPT ![h] = new]
     /\ \/ disk' = disk
        \/ Front(new) \in dirs /\ disk' = With(Without(disk, old), new, disk[old])
     /\ UNCHANGED <<saved, loaded, dirs, step, watching>>

\* has_prefix compares text: a name that only begins with the folder's counts.
HasPrefix(p, d) ==
  /\ Len(d) <= Len(p)
  /\ IsPrefix(Front(d), p)
  /\ p[Len(d)] = Last(d) \/ <<Last(d), p[Len(d)]>> \in Extends

\* Planted bug: the folders above are left out of the new path.
RebasedAtTheRoot(p, d, new) ==
  IF IsPrefix(d, p) THEN <<Last(new)>> \o SubSeq(p, Len(d) + 1, Len(p))
                    ELSE Front(new) \o SubSeq(p, Len(d), Len(p))

\* Planted bug: one part too many is cut off the path.
RebasedTooShort(p, d, new) ==
  IF IsPrefix(d, p) THEN new \o SubSeq(p, Len(d) + 2, Len(p))
                    ELSE Front(new) \o SubSeq(p, Len(d), Len(p))

\* join(new, rel(d, p)): outside d the relative path starts with "..".
Rebased(p, d, new) ==
  IF IsPrefix(d, p) THEN new \o SubSeq(p, Len(d) + 1, Len(p))
                    ELSE Front(new) \o SubSeq(p, Len(d), Len(p))

Moved(p, d, new) == IF IsPrefix(d, p) THEN new \o SubSeq(p, Len(d) + 1, Len(p)) ELSE p

\* os.rename: into a folder that is there, not below d, over nothing but an
\* empty folder.
CanMove(d, new) ==
  /\ Front(new) \in dirs /\ ~IsPrefix(d, new)
  /\ \A e \in dirs \union DOMAIN disk : ~IsStrictPrefix(new, e)

Repath(p, d, new) == IF HasPrefix(p, d) THEN Rebased(p, d, new) ELSE p

\* Within the bound on depth.
Shallow(d, new) ==
  \A p \in dirs \union DOMAIN disk \union Range(registry) :
    /\ Len(Moved(p, d, new)) <= IF p \in dirs THEN MaxDepth ELSE MaxDepth + 1
    /\ p \notin dirs => Len(Repath(p, d, new)) <= MaxDepth + 1

RenameFolder(d, name) ==
  LET new == Front(d) \o name
  IN /\ step = Idle /\ d \in dirs \ {<<>>} /\ CanMove(d, new) /\ Shallow(d, new)
     /\ dirs' = {Moved(e, d, new) : e \in dirs}
     /\ disk' = [p \in {Moved(q, d, new) : q \in DOMAIN disk} |->
                   disk[CHOOSE q \in DOMAIN disk : Moved(q, d, new) = p]]
     /\ registry' = [h \in Registered |-> Repath(registry[h], d, new)]
     /\ UNCHANGED <<saved, loaded, step, watching>>

NewFolder(d) ==
  /\ step = Idle /\ d \notin dirs
  /\ dirs' = dirs \union Prefixes(d) \union {d}
  /\ Cardinality(dirs') <= MaxFolders + 1
  /\ UNCHANGED <<registry, saved, loaded, disk, step, watching>>

\* Planted bug: a deleted asset stays loaded.
DeleteKeepingTheAsset(h) ==
  /\ step = Idle /\ Found(h)
  /\ registry' = Without(registry, h)
  /\ UNCHANGED <<saved, loaded, dirs, disk, step, watching>>

\* delete_asset: the file stays.
DeleteAsset(h) ==
  /\ step = Idle /\ Found(h)
  /\ registry' = Without(registry, h)
  /\ loaded' = Without(loaded, h)
  /\ UNCHANGED <<saved, dirs, disk, step, watching>>

----------------------------------------------------------------------------
(* The watcher's thread: reimport_asset without a lock *)

FileChanged(h) ==
  /\ watching = NoAsset /\ Found(h)
  /\ watching' = h
  /\ UNCHANGED <<registry, saved, loaded, dirs, disk, step>>

\* The script compiles and is stored, or it does not.
Reimported ==
  /\ watching # NoAsset
  /\ loaded' \in {loaded, With(loaded, watching, "watcher")}
  /\ watching' = NoAsset
  /\ UNCHANGED <<registry, saved, dirs, disk, step>>

----------------------------------------------------------------------------
(* The end of the process and the next start, which reads the registry file *)

Restart ==
  /\ loaded' = Nothing /\ step' = Idle /\ watching' = NoAsset
  /\ UNCHANGED <<dirs, disk>>

\* A registry file left empty makes the next start read below Lua's stack and
\* most likely abort; the start that follows here is the one after that file
\* has been removed, with an empty registry.
Crash == registry' = saved /\ saved' = saved /\ Restart

Exit ==
  /\ step = Idle
  /\ saved' = Nothing /\ step' = At("exiting", NoAsset)
  /\ UNCHANGED <<registry, loaded, dirs, disk, watching>>

ExitDone ==
  /\ step.at = "exiting"
  /\ saved' = OnFile(registry) /\ registry' = saved'
  /\ Restart

Next ==
  \/ \E h \in Handle, p \in PlainPath :
       AddFile(h, p) \/ ImportExternal(h, p) \/ NewMaterial(h, p)
  \/ \E h \in Handle, p \in Path \ PlainPath : NewScene(h, p)
  \/ RegistrySaved \/ WriteMaterial
  \/ \E h \in Handle : GetAsset(h) \/ DeleteAsset(h) \/ FileChanged(h)
  \/ \E h \in Handle, d \in Dir, n \in PlainName : RenameAsset(h, d, n)
  \/ \E d \in Dir, name \in Dir \ {<<>>} : RenameFolder(d, name)
  \/ \E d \in Dir : NewFolder(d)
  \/ Reimported \/ Crash \/ Exit \/ ExitDone

Spec == Init /\ [][Next]_vars

----------------------------------------------------------------------------
(* Properties *)

Place == {"idle", "saving", "saving material", "writing material", "exiting"}

\* The registries name paths, the loaded assets the thread that stored them,
\* and every file has a plain name and lies in a folder that is there.
AssetTypeOK ==
  /\ registry \in PartialFunctions(Handle, Path)
  /\ saved \in PartialFunctions(Handle, Path)
  /\ loaded \in PartialFunctions(Handle, {"main", "watcher"})
  /\ dirs \subseteq Dir /\ <<>> \in dirs
  /\ disk \in PartialFunctions(PlainPath, File)
  /\ IsInjective(disk)
  /\ \A e \in (dirs \ {<<>>}) \union DOMAIN disk : Front(e) \in dirs
  /\ step \in [at : Place, asset : Handle \union {NoAsset}]
  /\ step.at \in {"saving material", "writing material"} => step.asset \in Registered
  /\ watching \in Handle \union {NoAsset}

\* Each registered asset is also in the registry file, except while that is
\* being written: a crash at any other moment forgets no asset
\* (registry_set_metadata saves at once, rename and delete never need to).
RegisteredIsSaved ==
  step.at \in {"idle", "writing material"} => Registered \subseteq DOMAIN saved

\* An asset that the main thread has loaded is registered: delete_asset takes
\* it out of both maps.  Only the watcher can store an asset that is deleted
\* while it is being imported again.
LoadedIsRegistered ==
  \A h \in DOMAIN loaded : loaded[h] = "main" => h \in Registered

FileOf(h) == IF Found(h) THEN disk[registry[h]] ELSE NoAsset
Alone(h)  == \A k \in Registered : registry[k] = registry[h] => k = h

\* The path was rewritten although the file stayed: a sibling whose name
\* begins with the folder's, when the new name has several parts.
SiblingMoved(h) ==
  /\ registry[h] \in DOMAIN disk' /\ disk'[registry[h]] = disk[registry[h]]
  /\ Len(registry'[h]) > Len(registry[h])

\* os.rename failed after rename_asset had changed the path.
RenameFailed(h) == registry'[h] # registry[h] /\ disk' = disk /\ dirs' = dirs

\* A file of the same name is imported, or a scene created, where p is.
WrittenOver(p) ==
  p \in DOMAIN disk' /\ \E h \in Registered' \ Registered : Cut(registry'[h]) = p

\* While the editor runs, an asset that alone names its file goes on naming
\* it through every rename of assets and folders, unless rename_asset's own
\* os.rename fails, rename_folder takes a sibling along, or an import or a
\* new scene is written over the file.
AssetsFollowTheirFiles ==
  [][~Crash => \A h \in Registered \intersect DOMAIN registry' :
       Found(h) /\ Alone(h) =>
         \/ FileOf(h)' = FileOf(h)
         \/ RenameFailed(h)
         \/ SiblingMoved(h)
         \/ WrittenOver(registry[h])]_vars

\* The content browser loses a file only by importing one of its name or
\* creating a scene of its name over it: renaming asks first whether the new
\* name is taken, and deleting leaves the file.
NoFileIsLost ==
  [][\A p \in DOMAIN disk : disk[p] \in Range(disk') \/ WrittenOver(p)]_vars

\* "Returns the asset handle of the asset located at `path`"
\* (get_asset_handle_from_path): a path has one asset.
OneHandlePerPath == \A h \in Registered : Alone(h)
=============================================================================
