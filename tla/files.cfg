SPECIFICATION Spec
CONSTANTS
  None = None  NL = NL
  e1 = e1  e2 = e2  w = w  d = d  r = r
  Calls = {e1, e2, w, d, r}
  OpOf <- Ops
  Chars <- Letters
  Texts <- ShortTexts
CHECK_DEADLOCK FALSE
INVARIANT FileTypeOK
 
 
PROPERTY OkMeansDone
