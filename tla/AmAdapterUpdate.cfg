SPECIFICATION MCDownloadSpec
CONSTANTS
    UserIds = {"x"}
    Objects <- MCObjects
    MaxId = 2
    MaxBuffer = 1
PROPERTIES ChecksKeep
