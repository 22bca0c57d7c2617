CONSTANTS
    Cmds <- MCCmds
    Accounts = {"open", "password", "other"}
    Tries = 3
SPECIFICATION Spec
INVARIANTS
    PasswordOnlyAtPrompt
    CommandsOnlyInShell
    LoginFailsOnlyLate
PROPERTIES
    ExecEnds
    CommandsAllRun
CHECK_DEADLOCK FALSE
