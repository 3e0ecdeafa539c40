CONSTANTS
  a = a
  aSlash = aSlash
  b = b
  sa = sa
  sb = sb
  user = user
  p1 = p1
  p2 = p2
  Writer = {p1, p2}
  Content <- MCContent
  Original = user
  Generations = 2
  Oldest = 2
  Faults = FALSE
  URL = {a, b}
  ServerOf <- MCServerOf
  MaxListing = 1
  Pages = 1
  MaxToolPages = 1
  Kinds = {"call", "sync"}
SPECIFICATION CatalogSpec
PROPERTY GoodCatalogKept
