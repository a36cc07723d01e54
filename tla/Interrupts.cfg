SPECIFICATION Spec
CONSTANTS
  Exceptions = {0, 1, 6, 13, 14}
  Requests = {32, 50, 255}
  Tags = {0, 1}
INVARIANTS FrameMatches StackBalanced ResumesButRax OneDeviceAtATime
