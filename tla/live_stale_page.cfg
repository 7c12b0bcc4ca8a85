SPECIFICATION FairSpec
CONSTANTS
  Pages = {p}
  Limit = 1
  MaxChanges = 2
PROPERTY ResultShown
