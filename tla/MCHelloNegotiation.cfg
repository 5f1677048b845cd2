SPECIFICATION HelloSpec
CONSTANTS
  NotSent = NotSent
  Curves <- MCCurves
  Profiles <- MCProfiles
  Offers <- MCOffers
  MaxLosses = 2
INVARIANT FlightFourIsConsistent
PROPERTY Negotiates
