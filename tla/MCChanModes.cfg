SPECIFICATION Spec
CONSTANTS
  Announced <- MCAnnounced
  PfxLetter = {"o"}
  Change <- MCChange
  Bursts <- MCBursts
  NoArg = "none"
  Star = "*"
  Topics = {"", "t"}
  Members = {"x"}
  FirstSlots = 2
  MayFail = TRUE
  MaxNet = 2
INVARIANTS ModesTypeOK ParsedRight ModesMatch TopicMatches
CHECK_DEADLOCK FALSE
