SPECIFICATION Spec
CONSTANTS
  p1 = p1
  p2 = p2
  telegram = telegram
  whatsapp = whatsapp
  id1 = id1
  NoKey = NoKey
  NoConv = NoConv
  Procs <- OneProc
  Convs <- TwoConvs
  Positions <- FiveMoments
  Providers <- OneChannel
  ChannelIds <- OneId
  Window = 2
  ClockSteps = FALSE
INVARIANTS TypeOK LastIsNewest ContextEndsWithTrigger DroppedIsExact
PROPERTIES ResumesTheNewest ImplementsTranscript
