\* Two consumers of one queue, messages sent either way.
CONSTANTS
  Consumers = {c1, c2}
  Messages = {m1, m2}
  Published = {m1}
SPECIFICATION FairSpec
INVARIANTS
  ControlIsPrompt
PROPERTIES
  ImplementsFifo
  PushedAreTaken
  StoppedEnds
