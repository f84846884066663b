SPECIFICATION Spec
CONSTANTS
    Calls = {1, 2}
    Size <- MCSize
    MaxTurns = 2
    MaxSeqLen = 8
    Prompt = 1
    Generated = {3}
    Observed = {0, 2}
    VerifyWorkers = 2
    Evaluations <- MCEvaluations
    MaxRestarts = 1
INVARIANTS NoResultLost OutcomeOfItsTurns ScoreOfEveryPrompt
PROPERTY RolloutsEnd
