SPECIFICATION Spec
CHECK_DEADLOCK FALSE
CONSTANTS
  LastRound = 3
  DefaultLimits <- MCDefaultLimits
  Limits <- MCLimits
  MaxTargetsPerBatch = 2
  MaxReasonLength = 3
  MaxGroundingSources = 2
  MaxSourcesPerResult = 1
  WebUrls = {"u1", "u2", "u3"}
  MaxOverallReason = 3
  MaxFeedback = 3
  SilentCases <- MCSilentCases
  Uuid <- MCUuid
  AnalyzerAnswers <- MCAnalyzerAnswers
  GroundingAnswers <- MCGroundingAnswers
  SynthesisAnswers <- MCSynthesisAnswers
  JudgeAnswers <- MCJudgeAnswers
  Speakers <- MCSpeakers
INVARIANTS
  GraphIsSound
  FactCheckInputAccepted
  JudgeInputAccepted
  PromptIsPrefix
  EvidenceIsFaithful
  AcceptedIsMappable
