SPECIFICATION StoreSpec
CONSTANTS
  Absent = Absent
  i1 = i1
  i2 = i2
  e1 = e1
  e2 = e2
  Ids <- TwoIds
  Slots <- TwoSlots
  Clauses <- TwoKinds
  Subjects <- OneSubject
  GivenFields <- NoneOrAll
  Rewraps = FALSE
INVARIANTS RaisedDetailShows DetailsComplete ReportMatchesErrors
SYMMETRY Symmetry
