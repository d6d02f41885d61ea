\* One era of 400 years, and the leap day of 2400 after it.
CONSTANT LastDay = 157200
SPECIFICATION CalendarSpec
INVARIANT DateIsCivil
INVARIANT ErasRepeat
