SPECIFICATION Spec
CONSTANTS
  u1 = u1
  u2 = u2
  c1 = c1
  c2 = c2
  p1 = p1
  p2 = p2
  p3 = p3
  d1 = d1
  d2 = d2
  h1 = h1
  h2 = h2
  Account = {u1, u2}
  Granter = u1
  Contract = {c1, c2}
  Denom = {d1, d2}
  Payload = {p1, p2, p3}
  Keys <- MCKeys
  Checksum = {h1, h2}
  Wildcard = any
  Nil = nil
  Offers <- MCOffers
  CodeOffers <- MCCodeOffers
  Coins <- MCCoins
  Permissions <- MCPermissions
  Default = "Everybody"
  MaxGrants = 3
  MaxCodes = 1
  MaxUses = 3
  MaxDepth = 2
  MaxMessages = 2
INVARIANTS WithinBudget SanityChecksIdle CodeAsGranted
