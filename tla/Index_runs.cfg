SPECIFICATION Spec
CONSTANTS
  None = none
  Files = {"f"}
  d = d
  e = e
  Subs = {d, e}
  Contents <- TwoSizes
  Algos = {"md5", "blake3"}
  Options <- Everything
  Budget <- Three
  LiveWrites <- SizeChanging
SYMMETRY SubSymmetry
INVARIANTS TypeOK HashMatchesMtime NoFalseDamage DamageReported RepeatIsQuiet NoSilentAmnesia
