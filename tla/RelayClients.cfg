SPECIFICATION FairSpec
CONSTANTS
  MaxChunks = 4
INVARIANTS TypeOK UpstreamIntact DownstreamIntact NeverRefused AbandonedCarriesNothing
PROPERTIES OpenSettles AbandonedReleased BridgeReleasesBoth
