----------------------------- MODULE CalendarMC -----------------------------
EXTENDS Calendar

\* Days before a change of month, of February in a leap and in a common year and of
\* the year, the first and the last day, and dates that are refused
SomeDates == {<<2000, 1, 1>>, <<2024, 2, 28>>, <<2026, 7, 29>>, <<2099, 12, 31>>,
              <<2023, 2, 29>>, <<2100, 1, 1>>}
SomeSeconds == {0, SecPerDay - 2, SecPerDay - 1}
=============================================================================
