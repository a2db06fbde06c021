CONSTANTS
    Lower <- MCLower
    Rank <- MCRank
    Canon <- MCCanon
    BadData <- MCBadData
    RawZones <- FlatZones
    RawRecords <- SectionRecords
    InitStores <- SectionStores
    InitZones = {}
    InitRevision = 10
    Writers = {w1}
    MaxCalls = 0
    Readers = {r1}
    Questions <- SectionQuestions
    MaxCNAMEChain = 3
    Capacity = 1
    Shards = 2
    ShardOf <- MCShardOf
    MaxCacheTTL = 4
    NegativeTTL = 2
SPECIFICATION Spec
INVARIANTS CacheExact AnswerExact TTLAfterLastZero ServedWithinTTL ServedWithinBound
