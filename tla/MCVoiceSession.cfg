SPECIFICATION VoiceSpec
CONSTANTS
    SettingsSet <- AllSettings
    MaxRecs = 2
    MaxTurns = 2
    MaxWaiting = 1
    MaxCalls = 1
INVARIANTS ListeningRecords RoutedOnce
PROPERTIES OpensWithConsent TurnsEnd
CHECK_DEADLOCK FALSE
