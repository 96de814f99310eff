SPECIFICATION Spec
CONSTANTS
  s1 = s1
  s2 = s2
  Turns = {t1, t2, t3}
  NoTurn = NoTurn
  Sources = {s1, s2}
  HistoryTurns = 2
  Conversations = {"c"}
  NoConversation = "none"
  NoSources = NoSources
  Requests <- MCRequests
  NoView = NoView
  Views <- MCViews
  MaxDeltas = 0
  MaxPublications = 1
SYMMETRY TurnSymmetry
INVARIANTS
  TypeOK
  NewestQuestionSurvives
  TurnsAlternate
  OnlyAnswersAreRemembered
  NarrowingMatchesHistory
  RetrievalMatchesConversation
  RetrievalScopeIsSound
