\* Up to three documents under three ids, so that an id may be ingested twice;
\* over-fetching by two, so that it cuts.
CONSTANTS
    ChunkIds = {c1, c2, c3}
    Ingests = {i1, i2, i3}
    NoText = NoText
    NoChunk = NoChunk
    NoAnswer = NoAnswer
    MaxScore = 1
    MaxTopK = 2
    Overfetch = 2
SPECIFICATION Spec
SYMMETRY IdSymmetry
INVARIANTS
    TypeOK
    IndexesAgree
    AnswerIsBest
\* Every ingest runs once, so the system stops when all are over.
CHECK_DEADLOCK FALSE
