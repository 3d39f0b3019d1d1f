SPECIFICATION Spec
CONSTANTS
  Pictures = 5
  Options <- MostOptions
  Projects <- SavedProject
  FileBookmarks <- TwoBookmarks
  Aspect <- AspectOuter
  SceneChanges = {2, 4}
  ChapterInterval = 1
  ChapterMinimum = 1
  ChapterTolerance = 2
  MaxItems = 4
INVARIANTS TypeOK TableIsSelection GoBack ChaptersMatchIfCut
PROPERTIES ConvertsCuts AutoChaptersFit
CHECK_DEADLOCK FALSE
