CONSTANT Commands <- JsonCommands
CONSTANT Disks <- OneDisk
CONSTANT Replacements <- Changes
CONSTANT MaxChanges = 0
CONSTANT Faults = {}
CONSTANT BufferCapacity = 4
SPECIFICATION Spec
INVARIANT JsonIsAdditional
