CONSTANTS
  Number <- MCNumber
  Fraction <- MCFraction
  Texts = {"", "8", "999", "x", "0.9207"}
  Dirs = {"g", "h"}
  Patterns = {"", " ", "p"}
  DefaultPattern = "default"
  Files <- MCFiles
  MaxEdits = 3
  MaxLaunches = 2
  MaxFaults = 1
SPECIFICATION SettingsSpec
INVARIANT LaunchShowsWhatWasLeft
PROPERTY SavingIsEnough
PROPERTY TasksRunOnWhatIsShown
CHECK_DEADLOCK FALSE
