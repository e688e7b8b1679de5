----------------------------- MODULE MCDailyLog -----------------------------
\* DailyLog for TLC: three tasks, one of them of reflection.
EXTENDS DailyLog, TLC

CONSTANTS memorizeA, memorizeB, reflection, service, strategy

\* service/memorize.py and reflect_episodes.py each build their own EpisodeWriter.
WriterPerModule == [t \in Tasks |-> IF t = reflection THEN strategy ELSE service]

CONSTANT MaxEntries  \* bound: entries in the file and asked for

\* TLC does not go beyond a state with more of them: four writes of one entry
\* each, or fewer of two.
FewEntries ==
    Len(file.entries) + FoldFunction(+, 0, [t \in Tasks |-> task[t].job.items])
        <= MaxEntries

\* The two memorize tasks are alike.
MemorizeTasks == Permutations({memorizeA, memorizeB})
=============================================================================
