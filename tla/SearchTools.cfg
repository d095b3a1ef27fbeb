\* Two image searches, one without an image, and a text search at once.
SPECIFICATION Spec
CONSTANTS
  ImageCalls = {i1, i2}
  EmptyCalls = {e1}
  TextCalls = {t1}
  SerpApi = TRUE
  TopK = 2
  NoCall = NoCall
INVARIANTS
  SearchTypeOK
  OneIndex
PROPERTIES
  CallsEnd
