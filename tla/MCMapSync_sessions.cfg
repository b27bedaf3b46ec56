\* HELLOs, garbage, correction requests, leaves and reloads in any order.
SPECIFICATION Spec
CONSTANTS
  java = java  bedrock = bedrock
  Players = {java, bedrock}
  Bedrock = {bedrock}
  MaxStrikes = 3
  MaxPending = 2
  NotOpen = NotOpen
INVARIANTS
  TypeOK
  DepartedForgotten
  NothingEarly
  SessionKnowsGrants
  LateOnce
PROPERTY
  MutedIsIgnored
