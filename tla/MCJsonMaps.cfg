\* Safety and liveness: every small object, every map before.
CONSTANTS
  NULL = NULL
  FAIL = FAIL
  Names <- SomeNames
  Keys <- SomeKeys
  KeyOf <- SomeKeyOf
  Place <- SomePlace
  Numbers = {0, 1}
  Documents <- SomeDocuments
SPECIFICATION FairSpec
INVARIANTS
  TypeOK
  MergedUpToFailure
  RoundTrip
PROPERTY ConversionReturns
