SPECIFICATION Spec
CONSTANTS
  RsaLen = 2
  EdLen = 2
  Hex <- MCHex
  Base64 <- MCBase64
  UpperOf <- MCUpper
  BridgeAddrs = {"h", "other"}
  BridgeIds <- MCBridgeIds
  ProxySchemes <- MCProxySchemes
  Max8 = 7
  Max16 = 3
  Width = 3
  Blobs <- MCBlobs
  Countries = {"", "de"}
  Fds <- MCFds
  Masks <- MCMasks
  MaxRestarts = 1
INVARIANTS StartedAsMeant AcceptedIffUsable OneTun LostOnlyIfEarly
