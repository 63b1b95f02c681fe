SPECIFICATION Spec
CONSTANTS
    Kinds = {"text", "elua", "lua", "test", "info", "jpeg", "png", "jp2", "tiff", "html", "file", "copy", "hit", "blob"}
    Sizes = {0, 1, 3, 4}
    RangesOf <- AllRanges
    BufLen = 3
    SizeMod = 1024
    MaxRequests = 2
INVARIANTS InStep BodiesDelivered Answered CacheMirrorsBody
