SPECIFICATION PacketsSpec
CONSTANTS
  Parts = {"jbuf"}
  SeqSize = 16
  MinDelay = 1
  MaxDelay = 2
  LossLimit = 3
  LateLimit = 2
  Source <- MCOneSource
  FirstSeq <- MCFirstSeq
  Reorder = 3
  Ssrc = {"x", "y"}
  RtpSeqs = 8
  MaxDropout = 3
  MaxMisorder = 2
  MaxMembers = 1
  FirstRtp = {0, 6}
  MaxSent = 17
  MaxGot = 5
  Key = {"k1", "k2"}
  DigitMin = 4
  EndMin = 3
  MaxLoss = 2
  MaxKeys = 3
  MaxRtp = 4
  UnitSize = {4, 5}
  MaxUnits = 2
  MaxPics = 2
  PicDim = {"s", "l"}
  AuCodec = {"g711", "g722", "speex", "celt", "ilbc", "opus", "silk", "amr_wb", "amr_nb",
             "g7221", "gsm", "bv32", "l16", "isac"}
  SizeT = 65536
  MaxCalls = 6
  MaxFrames = 5
  Ptimes = {20, 30}
  MaxWords = 7
  MaxExtra = 9
  MaxAttr = 2
  MaxMsgs = 2
  Counts = {0, 1, 2}
  Texts = {0, 1, 5}
  Lengths = {0, 1, 3, 7}
  Sizes = {0, 4, 7, 12, 30, 61}
  MaxBfcpAttr = 2
  MaxBfcpHdr = 8
  Floors = {0, 2}
  StrLens = {3}
  Rrs <- MCRrs
  Headers <- MCHeaders
  MaxRr = 3
  Starts = {0, 2}
  OffsetMask = 63
  CompLoop = 4
  NameBuf = 8
  CnameMax = 4
  TtlOffs = 1
  ForeignLen = 6
  ForeignOctets = {0, 1, 2, 3, 4, 192}
  ChangedOctets = {0, 1, 3, 12, 15, 64, 192, 255}
  MaxDatagrams = 2
CHECK_DEADLOCK FALSE
PROPERTIES
  PlayedInOrder
