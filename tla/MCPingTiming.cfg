CONSTANTS
  N = 2
  Favourites = {1}
  Interval = 2
  WaitInterval = 1
  Burst = 1
  Ratio = 4
  Word = 16
  Late = 0
  MaxRtt = 1
SPECIFICATION Spec
INVARIANTS TypeOK AnswersShown
PROPERTY EveryPinged
