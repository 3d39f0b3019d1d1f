SPECIFICATION Spec
CONSTANTS
  Pictures = 5
  Options <- DefaultOptions
  Projects <- EmptyProject
  FileBookmarks <- TwoBookmarks
  Aspect <- AspectInner
  SceneChanges = {2, 4}
  ChapterInterval = 2
  ChapterMinimum = 1
  ChapterTolerance = 0
  MaxItems = 4
INVARIANTS ChaptersMatch
CHECK_DEADLOCK FALSE
