CONSTANTS
  Branch = {b1, b2}
  Home = b1
  Handler = {h1, h2}
  Nobody = Nobody
  MaxRequests = 4

SPECIFICATION CatalogSpec

SYMMETRY Symmetry

INVARIANTS
  SellsInScope
  ReplacedStaysOff
  LiveIsMarked

PROPERTIES
  PublishedWithRecipe

CHECK_DEADLOCK FALSE
