CONSTANTS
    Settings <- CallersSettings
SPECIFICATION BuilderSpec
PROPERTY DefaultsOnlyForUnset
CHECK_DEADLOCK FALSE
