SPECIFICATION FairSpec
CONSTANTS
    KBD_BUFFER_SIZE = 4
    Scancodes <- SomeCodes
    kbd_us <- UsTable
    kbd_us_shifted <- UsShiftedTable
INVARIANTS TypeOK FetchedIsOldest
PROPERTIES QueueSpec WaitingIsTaken
