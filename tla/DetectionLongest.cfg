\* Two matches of which the longer one starts later.
SPECIFICATION DetectSpec
CONSTANTS
  Length = 4
  Rules = 2
  premium = premium
  country = country
  licence = licence
  Keys = {premium, country, licence}
  Products <- AnyProduct
  CountryKey = country
  LicenceKey = licence
  IncludeStructured = TRUE
INVARIANT LongestWins
CHECK_DEADLOCK FALSE
