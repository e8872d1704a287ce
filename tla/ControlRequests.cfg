SPECIFICATION FairSpec
CONSTANT
  Requests = {r1, r2}
INVARIANTS
  TypeOK
  DescriptorMatchesStructures
  DescribedFeaturesServed
  StringInBuffer
PROPERTIES
  DestroysConstructed
  RegisterSpec
  EverythingCompletes
