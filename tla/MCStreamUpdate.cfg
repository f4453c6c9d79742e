CONSTANTS
  StBytes = {1, 2}
  StNewline = 2
  StBehind = 1
  StSizes = {2}
  StWrites <- MCWrites
  StReads = {1, 3}
  StZero = 1
  StUnix = {TRUE, FALSE}
  StMaxFile = 3
  StFaults = {}
  StUses = {"readfwrite"}
SPECIFICATION StSpec
PROPERTY StImplements
CHECK_DEADLOCK FALSE
