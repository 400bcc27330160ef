CONSTANTS
  Lower <- MCLower
  Basis = 0
  Mix <- MCMix
  Hex <- MCHex
  NameMax = 8
  ExtMax = 3
  FirstPatterns <- MCFirst
  LaterPatterns <- MCLater
  Batch <- MCBatch
  Numeral <- MCNumeral
  Allowlist <- MCAllowlist
  Fallback <- MCFallback
  DefaultPattern <- MCDefault
  PatternSize = 14
  ValueSize = 12
  RenderSize = 20
  MaxCalls = 2
  MaxSaveFaults = 1
SPECIFICATION PatternSpec
INVARIANT RenderedIsMeaning
INVARIANT NameIsSafe
INVARIANT ExtensionIsKept
INVARIANT DefaultIsUsable
CHECK_DEADLOCK FALSE
