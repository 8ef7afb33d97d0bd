CONSTANTS
  MaxTargets = 3
  MaxEntries = 3
  Room = 4
  Types = {"A", "B"}
  Files = {"A0", "A1", "B0"}
  Series = {"0.2", "1.4"}
  Bundled = {"A0", "B0"}
  DefaultPlan <- MCDefaultPlan
  Plans <- MCPlans
  FileFor <- MCFileFor
  BaseFile <- MCBaseFile
  Content <- MCContent
  Config <- MCConfig
  SyncOn = TRUE
  Fitted <- MCFitted
  Limit <- MCLimit
  MaxEvents = 5
SPECIFICATION Spec
INVARIANTS CacheSound ConfirmedIsTrue BannerRead NothingUnlessAll
PROPERTY ImageFits
CHECK_DEADLOCK FALSE
