SPECIFICATION FairMixedSpec
CONSTANTS
  Threads = {t1, t2, t3}
  Nodes = {1}
  Slots = {s1}
PROPERTIES
  SleepersAnswered
  HipriWriterServed
