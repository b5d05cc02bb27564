SPECIFICATION FairSpec
INVARIANTS FilesCounted ThreadsSafe ShellParses ShellCleansUp ExercisesSafe BurstsAddUp
PROPERTIES ProgramsFinish
CHECK_DEADLOCK FALSE
