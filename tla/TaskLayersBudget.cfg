SPECIFICATION Spec
CONSTANTS
  RawNames = {"a", "A", "b", "c"}
  Clean <- MCClean
  PromptTokens = 2
  ContextTokens = 4
  MaxParallelSubtasks = 2
  RuleClasses <- MCRuleClasses
  CloudTypes = {"RESEARCH", "TRANSLATION"}
  RawReplies <- MCRawReplies
  QuestionCounts = {3}
  Speeds <- MCSpeeds
  Budgets <- MCBudgets
  Unset = unset
  ENABLE_VERIFICATION = TRUE
INVARIANT IneligibleNeverChosen
