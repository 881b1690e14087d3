\* Every text of up to five units judged; trees of up to four levels searched and iterated over.
SPECIFICATION Spec
CONSTANTS
  MaxDepth = 3
  MaxIndex = 19
  Documents <- MCDocuments
  Gaps <- MCGaps
  Queries <- MCQueries
INVARIANTS StaysInText JudgesExactly FindsMembers
