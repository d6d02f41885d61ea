CONSTANT Commands <- TextCommands
CONSTANT Disks <- EmptyDisk
CONSTANT Replacements <- Changes
CONSTANT MaxChanges = 0
CONSTANT Faults = {}
CONSTANT BufferCapacity = 4
SPECIFICATION Spec
INVARIANT ResultsNotEmpty
