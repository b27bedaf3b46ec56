\* What becomes of a client that asks for corrections.
SPECIFICATION Spec
CONSTANTS
  java = java  bedrock = bedrock
  Players = {java, bedrock}
  Bedrock = {bedrock}
  MaxStrikes = 3
  MaxPending = 2
  NotOpen = NotOpen
INVARIANT
  HonestNeverMuted
