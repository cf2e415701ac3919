SPECIFICATION Spec
CONSTANTS
  p1 = p1
  p2 = p2
  telegram = telegram
  whatsapp = whatsapp
  id1 = id1
  NoKey = NoKey
  NoConv = NoConv
  Procs <- TwoProcs
  Convs <- OneConv
  Positions <- FourMoments
  Providers <- OneChannel
  ChannelIds <- OneId
  Window = 2
  ClockSteps = FALSE
INVARIANTS LastIsNewest
