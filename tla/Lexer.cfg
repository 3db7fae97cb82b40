SPECIFICATION FairSpec
CONSTANTS
    Texts <- SomeTexts
    Letters <- SomeLetters
    Digits = {"7"}
    LineFeed = "LF"
    Blanks = {" "}
    ExtraCalls = 1
INVARIANTS
    LocationsAreExact
    TokensAreLongestLexemes
    TokensCoverText
PROPERTIES
    EndIsReached
