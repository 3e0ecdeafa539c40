CONSTANTS
  a = a
  aSlash = aSlash
  b = b
  sa = sa
  sb = sb
  user = user
  p1 = p1
  p2 = p2
  Writer = {p1, p2}
  Content <- MCContent
  Original = user
  Generations = 2
  Oldest = 2
  Faults = TRUE
  URL = {a, aSlash}
  ServerOf <- MCServerOf
  MaxListing = 2
  Pages = 2
  MaxToolPages = 2
  Kinds = {"dynamic", "doctor", "init"}
SPECIFICATION CatalogSpec
INVARIANTS CatalogTypeOK WholeCatalog ServesACatalog NoPlaceholder RestorePoint BackupsBounded
PROPERTY KnownCatalogKept
SYMMETRY MCSymmetry
VIEW MCView
