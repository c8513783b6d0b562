CONSTANTS
  r1 = r1
  r2 = r2
  Missing = Missing
  Cut = Cut
  Broken = Broken
  Runs = {r1}
  TWRP16_LIBS <- MCLibs
  DT_OVERLAY_RCS <- MCRcs
  STAGING_OVERLAY_FILES <- MCOverlay
  Stocks <- GoodStock
  Cis <- FullCi
  Validateds <- GoodVal
  Stagings <- MCStagings
  DeviceTree <- RepoTree
  F1Required <- MCF1Required
  ToolsFail = FALSE
SPECIFICATION Spec
INVARIANT F1CarriesTreeRc
