\* Every kind of model, converted and then run beside its source.
SPECIFICATION Spec
CONSTANTS
  Prime = 7
  Tokens = 3
  Hidden = 2
  Settings <- AllSettings
  Prompts <- TwoPrompts
  Draws <- SomeDraws
  VocabularyKeys <- CyclicVocabulary
  Seeds = {1, 4}
  Source <- Weights
  Angle <- SomeAngle
  Scale <- SomeScale
  Randperm <- SomeOrder
  ValueMap <- SomeMap
  RopeStep <- SomeStep
  Silu <- SomeSilu
  Rsqrt <- SomeRsqrt
  Exp <- SomeExp
  Sigmoid <- SomeSigmoid
CHECK_DEADLOCK FALSE
INVARIANTS
  ComputesPlainModel
  CacheStaysPrivate
  StreamedIsLoaded
