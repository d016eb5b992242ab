\* Two bullets, one of which may be blank, and both structured rules.
SPECIFICATION DetectSpec
CONSTANTS
  Length = 4
  Rules = 2
  premium = premium
  country = country
  licence = licence
  Keys = {premium, country, licence}
  Products <- AnyProduct
  CountryKey = country
  LicenceKey = licence
  IncludeStructured = TRUE
INVARIANTS
  ClaimsDisjoint
  OnlyDisplacedDropped
  OneClaimPerKey
  NothingLost
  BestWordingKept
\* Detect returns.
CHECK_DEADLOCK FALSE
