SPECIFICATION Spec
CONSTANTS
  Outpoints = {o1, o2}
  NoCoin = NoCoin
  Blocks = {b1, b2}
  small = small
  large = large
  burnt = burnt
  Coins <- MCCoins
  Unspendable <- MCUnspendable
  ScriptLen <- MCScriptLen
  Overhead = 2
  MAX_RETAINED_BYTES = 7
  UsageModulus = 32
INVARIANT FlagsRight
PROPERTIES Transparent EachCallLands
