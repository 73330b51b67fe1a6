SPECIFICATION HLiveSpec
CONSTANTS
  h1 = h1  h2 = h2
  Thread = {h1, h2}
  MaxVersion = 3
INVARIANTS
  OnlyPublishedIsShown
  ReturnedToIT
  AnswerIsFinal
PROPERTY OfferIsSettled
