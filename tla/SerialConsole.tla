--------------------------- MODULE SerialConsole ---------------------------
(***************************************************************************)
(* scripts/serial_console.py exec of the serial-ssh-debug skill: it logs   *)
(* in over a serial line and types commands.  What the board prints comes  *)
(* in pieces cut anywhere and arbitrarily late: every wait of the host may *)
(* run into its timeout, and what the board then prints is read later.     *)
(*                                                                         *)
(* The board is external: getty, login and a shell that read typed lines   *)
(* one after the other.  What it prints is a sequence of tokens; a prompt  *)
(* is "~", " #", " ", and "hash" is a banner with a # in it.               *)
(***************************************************************************)
EXTENDS Naturals, Sequences, SequencesExt

CONSTANTS Cmds,         \* the commands to type, in order
          Accounts,     \* what root needs to log in: "open", "password", "other"
          Tries         \* 3

ASSUME ExecTyped == Cmds \in Seq(STRING) /\ Tries \in Nat \ {0}

\* A command is typed behind "echo ===BEGIN===;": no line of login is one.
ASSUME CmdsMarked == Range(Cmds) \cap {"", "root", "openEuler@2021"} = {}

VARIABLES
    pc, out, try, sent,         \* the host: where, what it read, how far
    wire, typed,                \* printed and not read; typed and not read
    board, account, ran,        \* the state of the board, the commands it ran
    misread,                    \* lines that other programs than meant read
    late                        \* a timeout came before the answer

host == <<pc, out, try, sent>>
vars == <<host, wire, typed, board, account, ran, misread, late>>

Prompt == <<"~", " #", " ">>

Init ==
    /\ pc = "drain" /\ out = <<>> /\ try = 0 /\ sent = 0
    /\ typed = <<>> /\ ran = <<>> /\ misread = {} /\ late = FALSE
    /\ account \in Accounts
    /\ \/ board = "login" /\ wire \in {<<>>, <<"hash", "login:">>}
       \/ board = "password" /\ account # "open" /\ wire = <<>>
       \/ board = "shell" /\ wire \in {<<>>, Prompt}

-----------------------------------------------------------------------------
(* The host *)

\* A plausible bug: any # is taken for a prompt.
AnyHash(o) == \E i \in DOMAIN o : o[i] \in {"hash", " #"}

\* A plausible bug: only "~#" is taken for a prompt.
TildeHash(o) == \E i \in DOMAIN o : o[i] = "~#"

\* PROMPT_PATS: "~ #" or "# "
AtPrompt(o) ==
    \E i \in 1 .. Len(o) - 1 : SubSeq(o, i, i + 1) \in {<<"~", " #">>, <<" #", " ">>}

Holds(o, t) == t \in Range(o)

\* The patterns each read_until waits for; drain waits for none.
Matches(where, o) ==
    CASE where = "look"   -> AtPrompt(o) \/ Holds(o, "login:")
      [] where = "login"  -> Holds(o, "login:")
      [] where = "user"   -> Range(o) \cap {"Password:", "hash", " #", "~"} # {}
      [] where = "pass"   -> AtPrompt(o) \/ Holds(o, "incorrect")
      [] where = "output" -> Holds(o, "END")
      [] OTHER            -> FALSE

\* A plausible bug: a try that ends early is not counted.
SameTry == try

NextTry == try + 1

\* The next turn of the loop of login, or its end.
Retry ==
    IF try = Tries THEN pc' = "failed" /\ UNCHANGED <<typed, try>>
    ELSE pc' = "login" /\ typed' = Append(typed, "") /\ try' = NextTry

Type(line, where) == typed' = Append(typed, line) /\ pc' = where /\ UNCHANGED try

Go(where) == pc' = where /\ UNCHANGED <<typed, try>>

\* A plausible bug: the password follows whatever the board answers.
AnyAnswer(o) == o # <<>>

AsksPassword(o) == Holds(o, "Password:")

\* What follows a read_until or drain that returned o.
Return(o) ==
    /\ \/ pc = "drain" /\ Go("look")
       \/ /\ pc = "look"
          /\ IF AtPrompt(o) THEN Go("exec")
             ELSE typed' = typed \o <<"", "">> /\ pc' = "drain2" /\ UNCHANGED try
       \/ /\ pc = "drain2"
          /\ IF AtPrompt(o) THEN Go("exec") ELSE Retry
       \/ /\ pc = "login"
          /\ IF Holds(o, "login:") THEN Type("root", "user") ELSE Retry
       \/ /\ pc = "user"
          /\ IF AsksPassword(o) THEN Type("openEuler@2021", "pass")
             ELSE IF AtPrompt(o) THEN Go("exec") ELSE Retry
       \/ /\ pc = "pass"
          /\ IF AtPrompt(o) THEN Go("exec") ELSE Retry
       \/ pc = "output" /\ Go("exec")
       \/ pc = "last" /\ Go("closed")
    /\ out' = <<>>

Reading == {"drain", "look", "drain2", "login", "user", "pass", "output", "last"}

Receive ==
    /\ pc \in Reading
    /\ \E n \in 1 .. Len(wire) :
         LET o == out \o SubSeq(wire, 1, n)
         IN  /\ wire' = SubSeq(wire, n + 1, Len(wire))
             /\ IF Matches(pc, o) THEN Return(o)
                ELSE out' = o /\ UNCHANGED <<pc, typed, try>>
    /\ UNCHANGED <<sent, board, account, ran, misread, late>>

Silent == wire = <<>> /\ typed = <<>> /\ board # "running"

Timeout ==
    /\ pc \in Reading
    /\ Return(out)
    /\ late' = (late \/ ~Silent)
    /\ UNCHANGED <<sent, wire, board, account, ran, misread>>

TypeCmd ==
    /\ pc = "exec"
    /\ IF sent < Len(Cmds)
       THEN Type(Cmds[sent + 1], "output") /\ sent' = sent + 1
       ELSE Type("", "last") /\ UNCHANGED sent
    /\ UNCHANGED <<out, wire, board, account, ran, misread, late>>

-----------------------------------------------------------------------------
(* The board *)

IsCmd(line) == line \in Range(Cmds)

Prints(tokens) == wire' = wire \o tokens

Misread(line, kinds) == misread' = misread \cup ({line} \cap kinds)

Secret == {"openEuler@2021"}

ReadLogin(line) ==
    /\ board = "login"
    /\ \/ line = "" /\ Prints(<<"login:">>) /\ UNCHANGED board
       \/ /\ line = "root" /\ account = "open"
          /\ board' = "shell" /\ Prints(<<"hash">> \o Prompt)
       \/ /\ line # "" /\ ~(line = "root" /\ account = "open")
          /\ board' = "password" /\ Prints(<<"Password:">>)
    /\ Misread(line, Secret \cup Range(Cmds))
    /\ UNCHANGED ran

ReadPassword(line) ==
    /\ board = "password"
    /\ IF line \in Secret /\ account = "password"
       THEN board' = "shell" /\ Prints(<<"hash">> \o Prompt)
       ELSE board' = "login" /\ Prints(<<"incorrect", "login:">>)
    /\ Misread(line, Range(Cmds))
    /\ UNCHANGED ran

\* The shell shows the line it reads, and runs it.
ReadShell(line) ==
    /\ board = "shell"
    /\ IF IsCmd(line)
       THEN board' = "running" /\ Prints(<<"BEGIN", "END">>) /\ ran' = Append(ran, line)
       ELSE Prints(Prompt) /\ UNCHANGED <<board, ran>>
    /\ Misread(line, Secret)

BoardReads ==
    /\ typed # <<>> /\ typed' = Tail(typed)
    /\ \/ ReadLogin(Head(typed)) \/ ReadPassword(Head(typed)) \/ ReadShell(Head(typed))
    /\ UNCHANGED <<host, account, late>>

CmdEnds ==
    /\ board = "running" /\ board' = "shell"
    /\ Prints(<<"BEGIN", "END">> \o Prompt)
    /\ UNCHANGED <<host, typed, account, ran, misread, late>>

Host == Receive \/ Timeout \/ TypeCmd
Board == BoardReads \/ CmdEnds
Next == Host \/ Board

\* The waits of the host are bounded by the clock, and the board keeps
\* reading what was typed.
Fairness == WF_vars(Host) /\ WF_vars(Timeout) /\ WF_vars(Board)

Spec == Init /\ [][Next]_vars /\ Fairness

-----------------------------------------------------------------------------
(***************************************************************************)
(* The password is read by the password prompt only, as long as the board  *)
(* answers before the timeouts: at the login prompt or in the shell it     *)
(* would be shown and logged.                                              *)
(***************************************************************************)
PasswordOnlyAtPrompt == ~late => misread \cap Secret = {}

(***************************************************************************)
(* However late the answers come, no command is read as a user name or a   *)
(* password, and the shell runs the commands in their order, each one      *)
(* once, though the next one is typed before the one before it has ended   *)
(* (its echo holds the end mark).                                          *)
(***************************************************************************)
CommandsOnlyInShell == misread \cap Range(Cmds) = {} /\ IsPrefix(ran, Cmds)

(***************************************************************************)
(* Login is given up only if an answer was late, the password is another,  *)
(* or there is none: then a piece that ends within the prompt, or a banner *)
(* with a #, ends the wait for the prompt.                                 *)
(***************************************************************************)
LoginFailsOnlyLate == pc = "failed" => late \/ account # "password"

\* exec ends: logged in or not, every wait is bounded and so are the tries.
ExecEnds == <>(pc \in {"closed", "failed"})

\* After a login, the board runs all the commands.
CommandsAllRun == pc = "closed" ~> ran = Cmds
=============================================================================
