\* A settlement whose receipt is lost to one fault.
SPECIFICATION Spec
CONSTANTS
  Executors = {"x1"}
  Nodes = {"n1", "n2"}
  NodeList <- OneList
  MinFee <- NoFees
  Orders = {"ask", "bid", "bid2"}
  Size <- MCSize
  Trader <- MCTrader
  Auths = {"aA", "aAx", "aB", "aC"}
  Grantor <- MCGrantor
  OrderCopies = {"cA", "cAx", "cB", "cC"}
  CopyOf <- MCCopyOf
  Fills = {"f1", "f1x", "f2"}
  FillOf <- MCFillOf
  Revocations = {"rA", "rB", "rS", "rF"}
  Revokes <- MCRevokes
  Forged <- MCForged
  EarlyObjects <- MCEarlyObjects
  EarlyReceipts <- MCEarlyReceipts
  LateObjects = {}
  Cancellable = {}
  Expiring = {}
  Poorly = {}
  MaxFaults = 1
  Addresses <- MCAddresses
  Hexes <- MCHexes
  Hashes <- MCHashes
  Numerals <- MCNumerals
  Amounts <- MCAmounts
  ZeroHash = "0x0"
  Unit = 2
  Absent = Absent
  Lower <- MCLower
  Checksum <- MCChecksum
  Text <- MCText
  Big <- MCBig
  LegsHash <- MCLegsHash
  ObjectHash <- MCObjectHash
  Proves <- MCProves
PROPERTY
  SettlementsGetReceipts
