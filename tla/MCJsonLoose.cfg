\* JSON_Validate accepts collections without the comma or the key before them.
SPECIFICATION Spec
CONSTANTS
  MaxDepth = 3
  MaxIndex = 19
  Documents <- MCDocuments
  Gaps <- MCGaps
  Queries <- MCQueries
INVARIANTS AcceptsOnlyJson
