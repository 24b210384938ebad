SPECIFICATION Spec
CONSTANTS
  Names <- MCNames
  Grammar <- MCGrammar
  Texts <- MCTexts
  Others <- MCOthers
  CacheSizes = {0, 3, 16}
  MaxParses = 1
  TokenIds = {t1, t2, t3}
  NameIds = {n1, n2}
  MaxEdits = 4
  MaxLen = 2
INVARIANTS CacheSound  SplitRejoins 
PROPERTIES ScanProgress
CHECK_DEADLOCK FALSE
