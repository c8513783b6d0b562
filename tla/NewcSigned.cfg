CONSTANTS
  Blobs <- SignedBlobs
  NEWC_MAGICS = {"070701", "070702"}
  Names <- MCNames
  Sizes = {0}
SPECIFICATION ParserSpec
PROPERTY Progress
