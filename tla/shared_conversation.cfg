SPECIFICATION Spec
CONSTANTS
  p1 = p1
  p2 = p2
  telegram = telegram
  whatsapp = whatsapp
  id1 = id1
  NoKey = NoKey
  NoConv = NoConv
  Procs <- TwoProcs
  Convs <- OneConv
  Positions <- FiveMoments
  Providers <- TwoChannels
  ChannelIds <- OneId
  Window = 2
  ClockSteps = FALSE
SYMMETRY Symmetry
INVARIANTS AnsweredOnce ReplyFollowsItsMessage DroppedIsBounded TriggerIsShown
