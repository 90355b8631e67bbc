SPECIFICATION FairSpec
CONSTANTS
  calendar = calendar
  batch = batch
  Page = Page
  Unreadable = Unreadable
  Names = {calendar, batch}
  Expected = {calendar, batch}
  Responses = {1, 2}
  MaxRichness = 2
INVARIANTS
  NoLostWakeup
  RichestIsKept
  GapsAreExplained
PROPERTY RunEndsOrBrowserHangs
CHECK_DEADLOCK FALSE
