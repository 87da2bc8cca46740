SPECIFICATION Spec
CONSTANTS
    GlIsos = {"a", "b"}
    GlNoName = none
    GlFolder <- Folder
    GlVersions <- Versions
    GlFileSize <- FileSize
    GlSects <- Sects
    GlNoSfo <- NoSfo
    GlHead = 1
    GlSfo = 1
    GlSlots = 1
    GlMaxList = 2
    GlMaxFds = 2
    GlReads = {1, 3, 5}
    PlStart <- PlSticks
    PlNames <- Names
    PlEmpty = empty
    PlJunk = junk
    PlMaxFails = 1
    IrImages = {"z", "y", "p", "x"}
    IrNone = none
    IrSize <- IrSizes
    IrPlain <- IrPlains
    IrPacked = {"z", "y", "x"}
    IrValid = {"z", "y", "p"}
    IrSector = 4
    IrEntries = 2
    IrDescriptor = 5
    IrNoSize = 8
    IrRoot <- IrRoots
    IrRecords <- IrTables
    IrMaxLevel = 1
    IrPaths <- IrSought
    IrRequests <- IrAskeds
INVARIANTS EntryFresh PbpReadRight DirsTracked StickRestored MenuCodeLoaded ConfKept PluginsRight IsoReadRight PathFound
PROPERTY DeletesAsked
