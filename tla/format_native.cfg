SPECIFICATION Spec
CONSTANTS
    Adapters <- MCAdapters
    Formats <- MCFormats
    Rates <- MCRates
INVARIANT AskedIsNative
CHECK_DEADLOCK FALSE
