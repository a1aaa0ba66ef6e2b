SPECIFICATION Spec
CONSTANTS
    VGA_WIDTH = 3
    VGA_HEIGHT = 3
    MAX_LEN = 5
    NL = "n"
    BS = "b"
    SPACE = " "
    NUL = "0"
    Keys = {"n", "b", " ", "c", "e", "x"}
    Prompt <- ShortPrompt
    Texts <- SomeTexts
    Clear <- ClearName
    Echo <- EchoName
    Setcolor <- SetcolorName
    Halts <- HaltNames
INVARIANTS TypeOK EchoMatches CommandIsLine
