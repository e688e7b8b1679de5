SPECIFICATION DailySpec
CONSTANTS
    memorizeA = memorizeA
    memorizeB = memorizeB
    reflection = reflection
    service = service
    strategy = strategy
    Tasks = {memorizeA, memorizeB, reflection}
    Writers = {service, strategy}
    Writer <- WriterPerModule
    Cancelled = {memorizeA, memorizeB}
    Nobody = none
    MaxJobs = 4
    MaxItems = 2
    MaxEntries = 4
CONSTRAINT
    FewEntries
SYMMETRY MemorizeTasks
INVARIANTS
    DailyTypeOK
PROPERTIES
    OnlyPassedWritesDrop
    ImplementsEntryLog
