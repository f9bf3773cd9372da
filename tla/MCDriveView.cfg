\* Two drives with a file of the same path.
CONSTANTS
    Drive = {mine, group}
    Folder = {root, sub}
    Root = root
    Name = {a}
SPECIFICATION Spec
INVARIANT DeletesWhatWasSeen
CHECK_DEADLOCK FALSE
