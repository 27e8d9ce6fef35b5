SPECIFICATION FairSpec
CONSTANTS
  bread = bread  milk = milk  q1 = q1
  Skus = {bread, milk}
  Prices = {1, 2}
  Categories = {"food", "drink"}
  Malformed = Malformed
  Feeds <- MCFeeds
  Scope = {"food"}
  Syncs = {s1, s2}
  Quotes = {q1}
  Basket <- MCBasket
  MaxChanges = 2
  MaxFailures = 1
INVARIANTS
  CatalogInv
  FeedsNeverMix
  QuotesNeverMix
PROPERTY CatalogConverges
