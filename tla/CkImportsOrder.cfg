\* A model is needed twice, in two versions.
SPECIFICATION Spec
CONSTANTS
  Name <- LayeredNames
  Managed = {}
  Catalogs <- Layered
  Installs <- Nothing
  Withdrawn = {}
  Broken = {}
  Roots <- OnlyA
INVARIANTS DependenciesFirst
