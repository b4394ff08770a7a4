\* All four targets.
CONSTANT mcTargets = {"x86_64", "i686", "armv7", "aarch64"}
SPECIFICATION CallSpec
INVARIANTS ValuesArrive CallerKeepsArguments PiecesCover NeverTorn ClassifiersAgree
