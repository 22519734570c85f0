SPECIFICATION Spec
CONSTANTS
  upload = upload
  download = download
  Streams = {upload, download}
  Window = 1
  ReqChunks <- Uploads
  RespChunks <- Downloads
  ChanCap = 1
  MaxLosses = 0
INVARIANTS NobodyWaitsForTheDead
CHECK_DEADLOCK FALSE
