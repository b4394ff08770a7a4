SPECIFICATION MCSpec
CONSTANTS
    WordBits <- mcWordBits
    WideAlign <- mcWideAlign
INVARIANTS LowersBack CommonProves ScopedSuffices
