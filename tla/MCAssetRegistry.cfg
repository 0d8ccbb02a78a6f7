SPECIFICATION Spec
CONSTANTS
  h1 = h1
  h2 = h2
  f1 = f1
  f2 = f2
  Handle <- MCHandle
  NoAsset = NoAsset
  File <- MCFile
  Folder = {"a", "ab"}
  Name <- MCName
  Shown <- MCShown
  Extends <- MCExtends
  MaxDepth = 2
  MaxFolders = 2
SYMMETRY MCSymmetry
INVARIANTS
  AssetTypeOK
  RegisteredIsSaved
  LoadedIsRegistered
PROPERTIES
  AssetsFollowTheirFiles
  NoFileIsLost
