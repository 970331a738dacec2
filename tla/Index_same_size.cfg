SPECIFICATION Spec
CONSTANTS
  None = none
  Files = {"f"}
  Subs = {}
  Contents <- ThreeContents
  Algos = {"md5", "blake3"}
  Options <- CheckAndUpdate
  Budget <- OneLive
  LiveWrites <- AnyRewrite
INVARIANTS HashMatchesMtime
