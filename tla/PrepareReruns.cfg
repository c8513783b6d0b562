CONSTANTS
  r1 = r1
  r2 = r2
  Missing = Missing
  Cut = Cut
  Broken = Broken
  Runs = {r1, r2}
  TWRP16_LIBS <- MCLibs
  DT_OVERLAY_RCS <- MCRcs
  STAGING_OVERLAY_FILES <- MCOverlay
  Stocks <- MCStocks
  Cis <- FullCi
  Validateds <- GoodVal
  Stagings <- NoStaging
  DeviceTree <- OverlayTree
  F1Required <- MCF1Required
  ToolsFail = TRUE
SYMMETRY RunSymmetry
SPECIFICATION Spec
INVARIANTS
  NoMixedPair
  VerifiedIsOnePair
