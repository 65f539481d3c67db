SPECIFICATION Spec
CONSTANT MaxLen = 2
INVARIANTS
  TypeOK
  CallbackStateMatches
  CallbackOnLiveContext
  EventMeansSettled
PROPERTY StepSpec
