\* The shortest description that starts with a list is one star.
CONSTANTS
    Words = {"guitar"}
    MaxTokens = 3
SPECIFICATION TextSpec
INVARIANTS
    FirstParagraphReturned
