SPECIFICATION Spec
CONSTANTS
  People = {alice, bob}
  Symbols = {"ETH", "USDT_ERC20"}
  Calls = {c1, c2, c3}
  Nobody = Nobody
  MaxSeq = 2
  MaxRestarts = 1
  Saved = TRUE
SYMMETRY MCSymmetry
INVARIANTS OneAddressPerKey AddressLeadsBack
CHECK_DEADLOCK FALSE
