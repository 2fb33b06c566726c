\* One import after another of a tenant, while others import, too.
SPECIFICATION Spec
CONSTANTS
  Name <- Names
  Managed = {"System"}
  Catalogs <- Small
  Installs <- SmallInstalls
  Withdrawn <- WithdrawnA
  Broken <- BrokenB
  Roots <- SmallRoots
PROPERTY GuardSpec
INVARIANTS TypeOK OffersRaise NothingIsMissing BlueprintAgrees SatisfiedStaySatisfied
