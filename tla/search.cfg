SPECIFICATION Spec
CONSTANTS
    Episodes <- MCEpisodes
    Facts <- MCFacts
    Mine <- MCMine
    ParentOf <- MCParentOf
    Nodes <- MCNodes
    Scorings <- MCScorings
    TopKs <- MCTopKs
    Radii = {99, 4}
    MinScores = {99, 40}
    NoScore = 99
    Cap = 3
    Multiplier = 2
    DefaultRadius = 4
    FactMultiplier = 2
    FactsPerEpisode = 2
    MaxRounds = 2
    MaxChanges = 1
INVARIANTS AnswersAreAllowed AnswerIsRanked BestFactsSurvive
