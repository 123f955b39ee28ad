SPECIFICATION Spec
CONSTANTS
  slotA = slotA
  slotB = slotB
  other = other
  Accounts = {slotA, slotB, other}
  Slots <- TwoSlots
  Capacity = 2
  OnTikTok = {}
  Rosters <- NoRosters
  HashIndex <- OneHash
  Followed = {slotB}
  ByHand = TRUE
  NoAccount = NoAccount
INVARIANTS DistinctDevices StraysToLegacyOnly RefusedOnlyWhenFull
PROPERTIES AssignedStay
