\* Buffers smaller than the JSON of the larger tops, larger than that of the smallest.
CONSTANT Commands <- AllCommands
CONSTANT Disks <- AnyDisk
CONSTANT Replacements <- Changes
CONSTANT MaxChanges = 2
CONSTANT Faults = {"slurp", "metadata", "create", "disk", "stdout"}
CONSTANT BufferCapacity = 4
SPECIFICATION Spec
INVARIANT TypeOK
INVARIANT ReportFaithful
INVARIANT JsonAgreesWithText
INVARIANT DiffExact
INVARIANT NetIsSumOfDeltas
INVARIANT ExitTellsReport
INVARIANT JsonSizeFresh
PROPERTY Terminates
