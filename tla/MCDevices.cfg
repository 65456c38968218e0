SPECIFICATION Spec
CONSTANTS
  Parts = {"dev", "wave", "disp", "rst", "aumix", "vidmix", "aubuf", "audio", "video"}
  WaveBufs = 3
  WaveFails = 3
  Win = {1, 2}
  PicSize = {4, 6}
  Interval = {0, 1, 2}
  HeadLen = 3
  TitleLen = {0, 1, 3}
  MaxPiece = 6
  Asrc = {"u", "v"}
  MixPtime = 2
  MaxNow = 4
  MaxPut = 1
  FileLen = 1
  Vsrc = {1, 2}
  Viewers = {1}
  Crowds = {0, 5}
  RxSize = {1, 2}
  TxSize = 24
  WishSz = 3
  MaxSz = 6
  WriteSz = {2, 3}
  ReadSz = {2, 4}
  Ptime = 2
  MaxSamples = 12
  MaxClock = 4
  Codec = {"pcmu", "pcma", "opus"}
  Srate <- MCSrate
  AudioMode = {"poll", "thread", "tmr"}
  SrcFirst = FALSE
  Filters = TRUE
  VidCodec = {"a", "b"}
  MaxMuted = 3
CHECK_DEADLOCK FALSE
INVARIANTS
  DriversSound
  MixersSound
  MediaFits
