CONSTANT Commands <- JsonCommands
CONSTANT Disks <- OneDisk
CONSTANT Replacements <- Changes
CONSTANT MaxChanges = 0
CONSTANT Faults = {"disk"}
CONSTANT BufferCapacity = 4
SPECIFICATION Spec
INVARIANT AnnouncedJsonComplete
