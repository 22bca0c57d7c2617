----------------------- MODULE SerialConsole_proofs -----------------------
(***************************************************************************)
(* Whatever the commands, and however late the board's answers come: every *)
(* command is read by the shell, in the order given.  As long as no answer *)
(* comes late, the password is read by the password prompt only, and login *)
(* fails only where it must.                                               *)
(***************************************************************************)
EXTENDS SerialConsole, SequenceTheorems, TLAPS

Inside == {"exec", "output", "last", "closed"}
Places == {"drain", "look", "drain2", "login", "user", "pass", "failed"} \cup Inside

\* What the board prints, the lines login types, and all lines.
Token == {"~", " #", " ", "hash", "login:", "Password:", "incorrect", "BEGIN", "END"}
LoginLines == {"", "root", "openEuler@2021"}
Line == LoginLines \cup Range(Cmds)

Types ==
    /\ pc \in Places /\ board \in {"login", "password", "shell", "running"}
    /\ out \in Seq(Token) /\ wire \in Seq(Token)
    /\ typed \in Seq(Line) /\ ran \in Seq(Line)
    /\ sent \in 0 .. Len(Cmds) /\ try \in Nat /\ late \in BOOLEAN

\* What the host has read in this wait and what it can still read.
Stream == out \o wire

LEMMA LinesApart == \A x \in LoginLines : x \in Line /\ ~IsCmd(x)
  BY CmdsMarked, Zenon DEF LoginLines, Line, IsCmd

LEMMA CmdLines == Len(Cmds) \in Nat /\ \A i \in 1 .. Len(Cmds) : Cmds[i] \in Line /\ IsCmd(Cmds[i])
  BY ExecTyped, LenProperties DEF Line, IsCmd, Range

\* The provers follow a concatenation of three better by a name.
Cat(a, b) == a \o b

LEMMA CatLaw ==
    \A S : \A a, b, c \in Seq(S) : Cat(a, Cat(b, c)) = Cat(Cat(a, b), c)
  BY ConcatAssociative DEF Cat

(***************************************************************************)
(* read_until returns a part of what was printed, and leaves the rest.     *)
(***************************************************************************)
LEMMA Cut ==
    ASSUME NEW o \in Seq(Token), NEW w \in Seq(Token)
    PROVE  /\ o \o w \in Seq(Token) /\ Len(o \o w) = Len(o) + Len(w)
           /\ \A i \in 1 .. Len(o) : (o \o w)[i] = o[i]
           /\ \A i \in 1 .. Len(w) : (o \o w)[Len(o) + i] = w[i]
           /\ \A i \in 1 .. Len(o) + Len(w) :
                (o \o w)[i] = IF i <= Len(o) THEN o[i] ELSE w[i - Len(o)]
  BY ConcatProperties

LEMMA Piece ==
    ASSUME Types, NEW n \in 1 .. Len(wire)
    PROVE  /\ out \o SubSeq(wire, 1, n) \in Seq(Token)
           /\ SubSeq(wire, n + 1, Len(wire)) \in Seq(Token)
           /\ Stream = (out \o SubSeq(wire, 1, n)) \o SubSeq(wire, n + 1, Len(wire))
  <1> DEFINE o == SubSeq(wire, 1, n)
             w == SubSeq(wire, n + 1, Len(wire))
  <1>1. out \in Seq(Token) /\ wire \in Seq(Token) /\ Len(wire) \in Nat
    BY DEF Types
  <1>2. o \in Seq(Token) /\ w \in Seq(Token)
    BY <1>1, SubSeqProperties
  <1>3. wire = o \o w
    <2>1. SubSeq(wire, 1, n) \o SubSeq(wire, n + 1, Len(wire)) = SubSeq(wire, 1, Len(wire))
      BY <1>1, ConcatAdjacentSubSeq
    <2>2. SubSeq(wire, 1, Len(wire)) = wire  BY <1>1, SubSeqFull
    <2> QED  BY <2>1, <2>2
  <1> HIDE DEF o, w
  <1>4. out \o wire = (out \o o) \o w
    <2>1. Cat(out, Cat(o, w)) = Cat(Cat(out, o), w)  BY <1>1, <1>2, CatLaw
    <2> QED  BY <1>3, <2>1 DEF Cat
  <1>5. out \o o \in Seq(Token)  BY <1>1, <1>2, ConcatProperties
  <1> QED  BY <1>2, <1>3, <1>4, <1>5 DEF o, w, Stream

LEMMA HoldsAt ==
    ASSUME NEW o \in Seq(Token), NEW t
    PROVE  Holds(o, t) <=> \E i \in 1 .. Len(o) : o[i] = t
  BY DEF Holds, Range

LEMMA PromptAt ==
    ASSUME NEW o \in Seq(Token)
    PROVE  AtPrompt(o) <=> \E i \in 1 .. Len(o) - 1 :
             \/ o[i] = "~" /\ o[i + 1] = " #"
             \/ o[i] = " #" /\ o[i + 1] = " "
  <1>1. \A i \in 1 .. Len(o) - 1 : \A a, b : SubSeq(o, i, i + 1) = <<a, b>>
                                           <=> o[i] = a /\ o[i + 1] = b
    <2> SUFFICES ASSUME NEW i \in 1 .. Len(o) - 1, NEW a, NEW b
                 PROVE  SubSeq(o, i, i + 1) = <<a, b>> <=> o[i] = a /\ o[i + 1] = b
      OBVIOUS
    <2> DEFINE u == SubSeq(o, i, i + 1)
    <2>1. Len(o) \in Nat /\ \A k \in i .. i + 1 : o[k] \in Token
      BY LenProperties, ElementOfSeq
    <2>2. u \in Seq(Token) /\ Len(u) = 2 /\ \A k \in 1 .. 2 : u[k] = o[i + k - 1]
      BY <2>1, SubSeqProperties
    <2>3. u[1] = o[i] /\ u[2] = o[i + 1]  BY <2>1, <2>2
    <2> HIDE DEF u
    <2>4. u = <<u[1], u[2]>>  BY <2>2
    <2> QED  BY <2>3, <2>4 DEF u
  <1> QED  BY <1>1 DEF AtPrompt

LEMMA PrintedTokens ==
    /\ Prompt \in Seq(Token) /\ Len(Prompt) = 3
    /\ <<"hash">> \o Prompt \in Seq(Token)
    /\ <<"login:">> \in Seq(Token) /\ <<"Password:">> \in Seq(Token)
    /\ <<"incorrect", "login:">> \in Seq(Token)
    /\ <<"BEGIN", "END">> \in Seq(Token) /\ <<"BEGIN", "END">> \o Prompt \in Seq(Token)
  BY DEF Prompt, Token

(***************************************************************************)
(* What the steps of login and exec_cmds have in common.                   *)
(***************************************************************************)
LEMMA ReturnShape ==
    ASSUME Types, NEW o, Return(o)
    PROVE  /\ out' = <<>> /\ pc' \in Places /\ try' \in Nat
           /\ \E u \in Seq(LoginLines) : typed' = typed \o u
           /\ pc \in Inside => /\ typed' = typed
                               /\ \/ pc = "output" /\ pc' = "exec"
                                  \/ pc = "last" /\ pc' = "closed"
           /\ pc \notin Inside => pc' \in (Places \ Inside) \cup {"exec"}
           /\ pc \notin Inside /\ pc' = "exec" => AtPrompt(o)
  <1>1. pc \in Places /\ try \in Nat /\ typed \in Seq(Line)  BY DEF Types
  <1>2. \A x \in LoginLines : /\ Append(typed, x) = typed \o <<x>>
                               /\ <<x>> \in Seq(LoginLines)
    <2>1. \A x \in LoginLines : x \in Line  BY LinesApart
    <2> QED  BY <1>1, <2>1, AppendIsConcat
  <1>3. Retry => /\ pc' \in {"failed", "login"} /\ try' \in Nat
                 /\ \/ typed' = typed
                    \/ typed' = Append(typed, "")
    <2>1. NextTry \in Nat  BY <1>1 DEF NextTry
    <2> QED  BY <1>1, <2>1, Zenon DEF Retry
  <1>4. out' = <<>>  BY DEF Return
  <1>5. \E u \in Seq(LoginLines) : typed' = typed \o u
    <2>1. \/ typed' = typed
          \/ \E x \in LoginLines : typed' = Append(typed, x)
          \/ typed' = typed \o <<"", "">>
      <3>1. "" \in LoginLines /\ "root" \in LoginLines /\ "openEuler@2021" \in LoginLines
        BY DEF LoginLines
      <3> QED  BY <1>3, <3>1, Zenon DEF Return, Go, Type
    <2>2. <<>> \in Seq(LoginLines) /\ typed \o <<>> = typed  BY <1>1, ConcatEmptySeq
    <2>3. <<"", "">> \in Seq(LoginLines)  BY DEF LoginLines
    <2>4. CASE typed' = typed  BY <2>2, <2>4
    <2>5. CASE \E x \in LoginLines : typed' = Append(typed, x)
      <3>1. PICK x \in LoginLines : typed' = Append(typed, x)  BY <2>5
      <3>2. typed' = typed \o <<x>> /\ <<x>> \in Seq(LoginLines)  BY <1>2, <3>1
      <3> QED  BY <3>2
    <2>6. CASE typed' = typed \o <<"", "">>  BY <2>3, <2>6
    <2> QED  BY <2>1, <2>4, <2>5, <2>6
  <1>6. pc' \in Places /\ try' \in Nat
    BY <1>1, <1>3 DEF Return, Go, Type, Places, Inside
  <1>7. pc \in Inside => /\ typed' = typed
                        /\ \/ pc = "output" /\ pc' = "exec"
                           \/ pc = "last" /\ pc' = "closed"
    BY DEF Return, Go, Inside
  <1>8. /\ pc \notin Inside => pc' \in (Places \ Inside) \cup {"exec"}
        /\ pc \notin Inside /\ pc' = "exec" => AtPrompt(o)
    BY <1>1, <1>3 DEF Return, Go, Type, Places, Inside
  <1> QED  BY <1>4, <1>5, <1>6, <1>7, <1>8, Zenon

LEMMA ReturnTypes ==
    ASSUME Types, NEW o, Return(o), wire' \in Seq(Token), late' \in BOOLEAN,
           UNCHANGED <<sent, board, account, ran, misread>>
    PROVE  Types'
  <1>1. typed' \in Seq(Line)
    <2>1. typed \in Seq(Line) /\ LoginLines \subseteq Line /\ "" \in LoginLines
      BY DEF Types, Line, LoginLines
    <2>2. PICK u \in Seq(LoginLines) : typed' = typed \o u  BY ReturnShape
    <2>3. u \in Seq(Line)  BY <2>1, SeqMonotonic
    <2> QED  BY <2>1, <2>2, <2>3, ConcatProperties
  <1>2. out' = <<>> /\ pc' \in Places /\ try' \in Nat  BY ReturnShape
  <1> QED  BY <1>1, <1>2 DEF Types

LEMMA TypesNext == Types /\ [Next]_vars => Types'
  <1> SUFFICES ASSUME Types, [Next]_vars PROVE Types'  OBVIOUS
  <1>1. CASE Receive
    <2>1. PICK n \in 1 .. Len(wire) :
            LET o == out \o SubSeq(wire, 1, n)
            IN  /\ wire' = SubSeq(wire, n + 1, Len(wire))
                /\ IF Matches(pc, o) THEN Return(o)
                   ELSE out' = o /\ UNCHANGED <<pc, typed, try>>
      BY <1>1 DEF Receive
    <2>2. out \o SubSeq(wire, 1, n) \in Seq(Token) /\ wire' \in Seq(Token)
      BY <2>1, Piece
    <2>3. UNCHANGED <<sent, board, account, ran, misread, late>>  BY <1>1 DEF Receive
    <2>4. late' \in BOOLEAN  BY <2>3 DEF Types
    <2>5. CASE Return(out \o SubSeq(wire, 1, n))  BY <2>2, <2>3, <2>4, <2>5, ReturnTypes
    <2>6. CASE out' = out \o SubSeq(wire, 1, n) /\ UNCHANGED <<pc, typed, try>>
      BY <2>2, <2>3, <2>6 DEF Types
    <2> QED  BY <2>1, <2>5, <2>6
  <1>2. CASE Timeout
    <2>1. late' \in BOOLEAN  BY <1>2 DEF Timeout, Types
    <2>2. Return(out) /\ UNCHANGED <<sent, wire, board, account, ran, misread>>
      BY <1>2 DEF Timeout
    <2>3. wire' \in Seq(Token)  BY <2>2 DEF Types
    <2> QED  BY <2>1, <2>2, <2>3, ReturnTypes
  <1>3. CASE TypeCmd
    <2>1. sent \in 0 .. Len(Cmds) /\ Len(Cmds) \in Nat /\ typed \in Seq(Line)
      BY CmdLines DEF Types
    <2>2. "" \in Line  BY DEF Line, LoginLines
    <2>3. sent < Len(Cmds) => Cmds[sent + 1] \in Line  BY <2>1, CmdLines
    <2>4. \A x \in Line : Append(typed, x) \in Seq(Line)  BY <2>1, AppendProperties
    <2>5. CASE sent < Len(Cmds)
      <3>1. typed' = Append(typed, Cmds[sent + 1])  BY <1>3, <2>5, Zenon DEF TypeCmd, Type
      <3>2. typed' \in Seq(Line)  BY <2>3, <2>4, <2>5, <3>1, Zenon
      <3>3. sent' = sent + 1 /\ pc' = "output" /\ try' = try
        BY <1>3, <2>5, Zenon DEF TypeCmd, Type
      <3> QED  BY <1>3, <2>1, <2>5, <3>2, <3>3 DEF TypeCmd, Types, Places, Inside
    <2>6. CASE ~(sent < Len(Cmds))
      <3>1. typed' = Append(typed, "")  BY <1>3, <2>6, Zenon DEF TypeCmd, Type
      <3>2. typed' \in Seq(Line)  BY <2>2, <2>4, <3>1, Zenon
      <3>3. sent' = sent /\ pc' = "last" /\ try' = try
        BY <1>3, <2>6, Zenon DEF TypeCmd, Type
      <3> QED  BY <1>3, <3>2, <3>3 DEF TypeCmd, Types, Places, Inside
    <2> QED  BY <2>5, <2>6
  <1>4. CASE BoardReads
    <2>1. typed \in Seq(Line) /\ typed # <<>> /\ wire \in Seq(Token) /\ ran \in Seq(Line)
      BY <1>4 DEF BoardReads, Types
    <2>2. Head(typed) \in Line /\ typed' \in Seq(Line)
      BY <1>4, <2>1, HeadTailProperties DEF BoardReads
    <2>3. \A u \in Seq(Token) : wire \o u \in Seq(Token)  BY <2>1, ConcatProperties
    <2>4. Append(ran, Head(typed)) \in Seq(Line)  BY <2>1, <2>2, AppendProperties
    <2>5. CASE ReadLogin(Head(typed))
      BY <1>4, <2>1, <2>2, <2>3, <2>5, PrintedTokens
      DEF BoardReads, ReadLogin, Prints, Types, host
    <2>6. CASE ReadPassword(Head(typed))
      BY <1>4, <2>1, <2>2, <2>3, <2>6, PrintedTokens
      DEF BoardReads, ReadPassword, Prints, Types, host
    <2>7. CASE ReadShell(Head(typed))
      BY <1>4, <2>1, <2>2, <2>3, <2>4, <2>7, PrintedTokens
      DEF BoardReads, ReadShell, Prints, Types, host
    <2> QED  BY <1>4, <2>5, <2>6, <2>7 DEF BoardReads
  <1>5. CASE CmdEnds
    <2>1. wire' \in Seq(Token)
      BY <1>5, PrintedTokens, ConcatProperties DEF CmdEnds, Prints, Types
    <2> QED  BY <1>5, <2>1 DEF CmdEnds, Types, host
  <1>6. CASE UNCHANGED vars  BY <1>6 DEF vars, host, Types
  <1> QED  BY <1>1, <1>2, <1>3, <1>4, <1>5, <1>6 DEF Next, Host, Board

(***************************************************************************)
(* What is never untrue, however late the answers come: a board that waits *)
(* for a login printed no prompt, so the host is not past login; and the   *)
(* commands that are typed and not read are the next ones, in a row.       *)
(***************************************************************************)
BoardQuiet == board \in {"login", "password"} => ~Holds(Stream, " #")

HostInside == pc \in Inside => board \in {"shell", "running"}

\* t is p other lines, commands n+1 to s, and others only behind the last wait.
Laid(where, s, t, n, p) ==
    /\ p + (s - n) <= Len(t)
    /\ where \notin {"last", "closed"} => p + (s - n) = Len(t)
    /\ \A i \in 1 .. Len(t) :
         IF i > p /\ i <= p + (s - n) THEN t[i] = Cmds[n + i - p] ELSE ~IsCmd(t[i])

Ordered(where, s, t, r) ==
    /\ Len(r) <= s
    /\ \A i \in 1 .. Len(r) : r[i] = Cmds[i]
    /\ where \notin Inside => s = 0
    /\ \E p \in 0 .. Len(t) : Laid(where, s, t, Len(r), p)

CmdsKept == misread \cap Range(Cmds) = {}

ShellInv ==
    Types /\ BoardQuiet /\ HostInside /\ Ordered(pc, sent, typed, ran) /\ CmdsKept

LEMMA RestOf ==
    ASSUME NEW o \in Seq(Token), NEW w \in Seq(Token), NEW t
    PROVE  (Holds(o, t) \/ Holds(w, t)) <=> Holds(o \o w, t)
  <1>1. /\ o \o w \in Seq(Token) /\ Len(o \o w) = Len(o) + Len(w)
        /\ Len(o) \in Nat /\ Len(w) \in Nat
        /\ \A i \in 1 .. Len(o) : (o \o w)[i] = o[i]
        /\ \A i \in 1 .. Len(w) : (o \o w)[Len(o) + i] = w[i]
        /\ \A i \in 1 .. Len(o) + Len(w) :
             (o \o w)[i] = IF i <= Len(o) THEN o[i] ELSE w[i - Len(o)]
    BY Cut, LenProperties
  <1> DEFINE ow == o \o w
  <1> HIDE DEF ow
  <1>2. ow \in Seq(Token)  BY <1>1 DEF ow
  <1>3. (\E i \in 1 .. Len(o) : o[i] = t) \/ (\E i \in 1 .. Len(w) : w[i] = t)
          <=> \E i \in 1 .. Len(ow) : ow[i] = t
    <2>1. ASSUME NEW i \in 1 .. Len(o), o[i] = t PROVE \E j \in 1 .. Len(ow) : ow[j] = t
      BY <1>1, <2>1 DEF ow
    <2>2. ASSUME NEW i \in 1 .. Len(w), w[i] = t PROVE \E j \in 1 .. Len(ow) : ow[j] = t
      <3>1. Len(o) + i \in 1 .. Len(ow) /\ ow[Len(o) + i] = t  BY <1>1, <2>2 DEF ow
      <3> QED  BY <3>1
    <2>3. ASSUME NEW i \in 1 .. Len(ow), ow[i] = t
          PROVE  \/ \E j \in 1 .. Len(o) : o[j] = t
                 \/ \E j \in 1 .. Len(w) : w[j] = t
      <3>1. CASE i <= Len(o)  BY <1>1, <2>3, <3>1 DEF ow
      <3>2. CASE i > Len(o)
        <4>1. i - Len(o) \in 1 .. Len(w) /\ w[i - Len(o)] = t  BY <1>1, <2>3, <3>2 DEF ow
        <4> QED  BY <4>1
      <3> QED  BY <1>1, <3>1, <3>2
    <2> QED  BY <2>1, <2>2, <2>3
  <1>4. Holds(o, t) <=> \E i \in 1 .. Len(o) : o[i] = t  BY HoldsAt
  <1>5. Holds(w, t) <=> \E i \in 1 .. Len(w) : w[i] = t  BY HoldsAt
  <1>6. Holds(ow, t) <=> \E i \in 1 .. Len(ow) : ow[i] = t  BY <1>2, HoldsAt
  <1> QED  BY <1>3, <1>4, <1>5, <1>6 DEF ow

LEMMA PromptHolds ==
    ASSUME NEW o \in Seq(Token), AtPrompt(o) PROVE Holds(o, " #")
  <1>1. PICK i \in 1 .. Len(o) - 1 : o[i] = " #" \/ o[i + 1] = " #"  BY PromptAt
  <1>2. Len(o) \in Nat  BY LenProperties
  <1>3. i \in 1 .. Len(o) /\ i + 1 \in 1 .. Len(o)  BY <1>2
  <1> QED  BY <1>1, <1>3, HoldsAt

LEMMA NoneTyped ==
    ASSUME Types, Ordered(pc, sent, typed, ran), pc \notin Inside
    PROVE  /\ sent = 0 /\ Len(ran) = 0
           /\ \A i \in 1 .. Len(typed) : ~IsCmd(typed[i])
  <1>1. sent = 0 /\ Len(ran) = 0
    BY LenProperties DEF Ordered, Types
  <1> QED  BY <1>1, LenProperties DEF Ordered, Laid, Types

LEMMA OrderedTypesMore ==
    ASSUME NEW where, NEW next, NEW t \in Seq(Line), NEW u \in Seq(LoginLines), NEW r,
           Ordered(where, 0, t, r), where \notin Inside, Len(r) = 0,
           \A i \in 1 .. Len(t) : ~IsCmd(t[i])
    PROVE  Ordered(next, 0, t \o u, r)
  <1>1. LoginLines \subseteq Line  BY DEF Line
  <1>2. u \in Seq(Line) /\ Len(u) \in Nat /\ Len(t) \in Nat
    BY <1>1, SeqMonotonic, LenProperties
  <1>3. /\ Len(t \o u) = Len(t) + Len(u)
        /\ \A i \in 1 .. Len(t) + Len(u) :
             (t \o u)[i] = IF i <= Len(t) THEN t[i] ELSE u[i - Len(t)]
    BY <1>2, ConcatProperties
  <1>4. \A i \in 1 .. Len(u) : ~IsCmd(u[i])
    BY LinesApart, ElementOfSeq
  <1>5. ASSUME NEW i \in 1 .. Len(t \o u) PROVE ~IsCmd((t \o u)[i])
    <2>1. CASE i <= Len(t)  BY <1>2, <1>3, <2>1
    <2>2. CASE i > Len(t)
      <3>1. i - Len(t) \in 1 .. Len(u)  BY <1>2, <1>3, <2>2
      <3> QED  BY <1>2, <1>3, <1>4, <2>2, <3>1
    <2> QED  BY <1>2, <1>3, <2>1, <2>2
  <1> HIDE DEF IsCmd
  <1>6. Laid(next, 0, t \o u, Len(r), Len(t \o u))
    <2> DEFINE tu == t \o u
    <2>1. Len(tu) \in Nat /\ \A i \in 1 .. Len(tu) : ~IsCmd(tu[i])  BY <1>2, <1>3, <1>5
    <2> HIDE DEF tu
    <2>2. Laid(next, 0, tu, 0, Len(tu))  BY <2>1 DEF Laid
    <2> QED  BY <2>2 DEF tu
  <1>7. Len(t \o u) \in 0 .. Len(t \o u)  BY <1>2, <1>3
  <1> QED  BY <1>6, <1>7 DEF Ordered

LEMMA ReturnShell ==
    ASSUME ShellInv, Types', NEW o \in Seq(Token), Return(o), wire' \in Seq(Token),
           Stream = o \o wire', UNCHANGED <<sent, board, account, ran, misread>>
    PROVE  ShellInv'
  <1>1. Types /\ BoardQuiet /\ HostInside /\ Ordered(pc, sent, typed, ran) /\ CmdsKept
    BY DEF ShellInv
  <1>2. Stream' = wire'
    <2>1. out' = <<>>  BY <1>1, ReturnShape
    <2> QED  BY <2>1, ConcatEmptySeq DEF Stream
  <1>3. BoardQuiet'
    <2>1. Holds(Stream', " #") => Holds(Stream, " #")  BY <1>2, RestOf
    <2> QED  BY <1>1, <2>1 DEF BoardQuiet
  <1>4. HostInside'
    <2>1. CASE pc \in Inside  BY <1>1, <2>1 DEF HostInside
    <2>2. CASE pc \notin Inside
      <3>1. pc' \in Inside => AtPrompt(o)
        <4>1. pc' \in (Places \ Inside) \cup {"exec"}  BY <1>1, <2>2, ReturnShape
        <4>2. pc' = "exec" => AtPrompt(o)  BY <1>1, <2>2, ReturnShape
        <4> QED  BY <4>1, <4>2
      <3>2. AtPrompt(o) => Holds(Stream, " #")  BY PromptHolds, RestOf
      <3>3. AtPrompt(o) => board \in {"shell", "running"}
        BY <1>1, <3>2 DEF BoardQuiet, Types
      <3> QED  BY <3>1, <3>3 DEF HostInside
    <2> QED  BY <2>1, <2>2
  <1>5. Ordered(pc', sent', typed', ran')
    <2>1. CASE pc \in Inside
      <3>1. typed' = typed /\ pc' \in {"exec", "closed"} /\ (pc' = "exec" => pc = "output")
        BY <1>1, <2>1, ReturnShape
      <3> QED  BY <1>1, <2>1, <3>1 DEF Ordered, Laid, Inside
    <2>2. CASE pc \notin Inside
      <3>1. PICK u \in Seq(LoginLines) : typed' = typed \o u  BY <1>1, ReturnShape
      <3>2. /\ sent = 0 /\ Len(ran) = 0 /\ \A i \in 1 .. Len(typed) : ~IsCmd(typed[i])
        BY <1>1, <2>2, NoneTyped
      <3>3. Ordered(pc, 0, typed, ran) /\ typed \in Seq(Line)  BY <1>1, <3>2 DEF Types
      <3>4. Ordered(pc', 0, typed \o u, ran)  BY <2>2, <3>2, <3>3, OrderedTypesMore
      <3> QED  BY <3>1, <3>2, <3>4
    <2> QED  BY <2>1, <2>2
  <1>6. CmdsKept'  BY <1>1 DEF CmdsKept
  <1> QED  BY <1>3, <1>4, <1>5, <1>6 DEF ShellInv

\* The host reads more and goes on waiting: all that was printed is still there.
LEMMA ReadsOn ==
    ASSUME Types, NEW n \in 1 .. Len(wire), out' = out \o SubSeq(wire, 1, n),
           wire' = SubSeq(wire, n + 1, Len(wire))
    PROVE  Stream' = Stream
  <1>1. Stream = (out \o SubSeq(wire, 1, n)) \o SubSeq(wire, n + 1, Len(wire))  BY Piece
  <1> QED  BY <1>1 DEF Stream

LEMMA ReceiveShell ==
    ASSUME ShellInv, Types', Receive
    PROVE  ShellInv'
  <1>1. PICK n \in 1 .. Len(wire) :
          LET o == out \o SubSeq(wire, 1, n)
          IN  /\ wire' = SubSeq(wire, n + 1, Len(wire))
              /\ IF Matches(pc, o) THEN Return(o)
                 ELSE out' = o /\ UNCHANGED <<pc, typed, try>>
    BY DEF Receive
  <1>2. Types /\ UNCHANGED <<sent, board, account, ran, misread>>
    BY DEF ShellInv, Receive
  <1>3. CASE Return(out \o SubSeq(wire, 1, n))
    <2>1. /\ out \o SubSeq(wire, 1, n) \in Seq(Token) /\ wire' \in Seq(Token)
          /\ Stream = (out \o SubSeq(wire, 1, n)) \o wire'
      BY <1>1, <1>2, Piece
    <2> QED  BY <1>2, <1>3, <2>1, ReturnShell
  <1>4. CASE out' = out \o SubSeq(wire, 1, n) /\ UNCHANGED <<pc, typed, try>>
    <2>1. Stream' = Stream  BY <1>1, <1>2, <1>4, ReadsOn
    <2> QED
      BY <1>2, <1>4, <2>1 DEF ShellInv, BoardQuiet, HostInside, Ordered, Laid, CmdsKept
  <1> QED  BY <1>1, <1>3, <1>4

\* A line is typed behind the others: the next command, or another line.
LEMMA LaidMore ==
    ASSUME NEW s \in Nat, NEW n \in 0 .. s, NEW t, NEW m, Len(t) \in Nat,
           NEW p \in 0 .. Len(t), Laid("exec", s, t, n, p),
           Len(m) = Len(t) + 1, \A i \in 1 .. Len(t) : m[i] = t[i]
    PROVE  /\ m[Len(t) + 1] = Cmds[s + 1] => Laid("output", s + 1, m, n, p)
           /\ ~IsCmd(m[Len(t) + 1]) => Laid("last", s, m, n, p)
  <1> DEFINE k == Len(t)
             l == Len(m)
  <1>1. /\ p + (s - n) = k /\ k \in Nat /\ l = k + 1
        /\ \A i \in 1 .. k : IF i > p /\ i <= p + (s - n) THEN t[i] = Cmds[n + i - p]
                             ELSE ~IsCmd(t[i])
    BY DEF Laid
  <1> HIDE DEF k, l
  <1>2. \A i \in 1 .. k : IF i > p /\ i <= p + (s - n) THEN m[i] = Cmds[n + i - p]
                          ELSE ~IsCmd(m[i])
    BY <1>1 DEF k
  <1>3. \A i \in 1 .. l : i \in 1 .. k \/ i = k + 1  BY <1>1
  <1>4. ASSUME m[k + 1] = Cmds[s + 1], NEW i \in 1 .. l
        PROVE  IF i > p /\ i <= p + ((s + 1) - n) THEN m[i] = Cmds[n + i - p]
               ELSE ~IsCmd(m[i])
    <2>1. CASE i \in 1 .. k  BY <1>1, <1>2, <2>1
    <2>2. CASE i = k + 1  
      <3>1. i > p /\ i <= p + ((s + 1) - n) /\ n + i - p = s + 1  BY <1>1, <2>2
      <3> QED  BY <1>4, <2>2, <3>1
    <2> QED  BY <1>3, <2>1, <2>2
  <1>5. ASSUME ~IsCmd(m[k + 1]), NEW i \in 1 .. l
        PROVE  IF i > p /\ i <= p + (s - n) THEN m[i] = Cmds[n + i - p]
               ELSE ~IsCmd(m[i])
    <2>1. CASE i \in 1 .. k  BY <1>2, <2>1
    <2>2. CASE i = k + 1
      <3>1. ~(i <= p + (s - n))  BY <1>1, <2>2
      <3> QED  BY <1>5, <2>2, <3>1
    <2> QED  BY <1>3, <2>1, <2>2
  <1>6. m[k + 1] = Cmds[s + 1] => Laid("output", s + 1, m, n, p)
    BY <1>1, <1>4 DEF Laid, l
  <1>7. ~IsCmd(m[k + 1]) => Laid("last", s, m, n, p)
    BY <1>1, <1>5 DEF Laid, l
  <1> QED  BY <1>6, <1>7 DEF k

\* The first line is read: the next command, or another line.
LEMMA LaidLess ==
    ASSUME NEW where, NEW s \in Nat, NEW n \in 0 .. s, NEW t, NEW m, Len(t) \in Nat \ {0},
           NEW p \in 0 .. Len(t), Laid(where, s, t, n, p),
           Len(m) = Len(t) - 1, \A i \in 1 .. Len(t) - 1 : m[i] = t[i + 1]
    PROVE  /\ p = 0 /\ n < s => Laid(where, s, m, n + 1, 0)
           /\ p = 0 /\ n = s => Laid(where, s, m, n, 0)
           /\ p > 0 => Laid(where, s, m, n, p - 1)
  <1> DEFINE k == Len(t)
             l == Len(m)
  <1>1. /\ p + (s - n) <= k /\ k \in Nat \ {0} /\ l = k - 1
        /\ where \notin {"last", "closed"} => p + (s - n) = k
        /\ \A i \in 1 .. k : IF i > p /\ i <= p + (s - n) THEN t[i] = Cmds[n + i - p]
                             ELSE ~IsCmd(t[i])
    BY DEF Laid
  <1> HIDE DEF k, l
  <1>2. \A i \in 1 .. l : i + 1 \in 1 .. k /\ m[i] = t[i + 1]  BY <1>1 DEF k
  <1>3. ASSUME NEW i \in 1 .. l
        PROVE  IF i + 1 > p /\ i + 1 <= p + (s - n) THEN m[i] = Cmds[n + (i + 1) - p]
               ELSE ~IsCmd(m[i])
    BY <1>1, <1>2
  <1>4. ASSUME p = 0, n < s PROVE Laid(where, s, m, n + 1, 0)
    <2>1. ASSUME NEW i \in 1 .. l
          PROVE  IF i > 0 /\ i <= 0 + (s - (n + 1)) THEN m[i] = Cmds[(n + 1) + i - 0]
                 ELSE ~IsCmd(m[i])
      <3>1. n + (i + 1) - p = (n + 1) + i - 0  BY <1>4
      <3>2. i > 0 /\ i <= 0 + (s - (n + 1)) <=> i + 1 > p /\ i + 1 <= p + (s - n)
        BY <1>4
      <3> QED  BY <1>3, <3>1, <3>2
    <2> QED  BY <1>1, <1>4, <2>1 DEF Laid, l
  <1>5. ASSUME p = 0, n = s PROVE Laid(where, s, m, n, 0)
    <2>1. p + (s - n) = 0  BY <1>5
    <2>2. \A i \in 1 .. l : ~IsCmd(m[i])  BY <1>3, <2>1
    <2>3. l \in Nat /\ where \in {"last", "closed"}  BY <1>1, <2>1
    <2> QED  BY <1>5, <2>2, <2>3 DEF Laid, l
  <1>6. ASSUME p > 0 PROVE Laid(where, s, m, n, p - 1)
    <2>1. ASSUME NEW i \in 1 .. l
          PROVE  IF i > p - 1 /\ i <= (p - 1) + (s - n) THEN m[i] = Cmds[n + i - (p - 1)]
                 ELSE ~IsCmd(m[i])
      <3>1. n + (i + 1) - p = n + i - (p - 1)  OBVIOUS
      <3>2. i > p - 1 /\ i <= (p - 1) + (s - n) <=> i + 1 > p /\ i + 1 <= p + (s - n)
        OBVIOUS
      <3> QED  BY <1>3, <3>1, <3>2
    <2> QED  BY <1>1, <1>6, <2>1 DEF Laid, l
  <1> QED  BY <1>4, <1>5, <1>6

LEMMA Appended ==
    ASSUME NEW t \in Seq(Line), NEW x \in Line
    PROVE  \E m \in Seq(Line) : /\ m = Append(t, x) /\ Len(m) = Len(t) + 1
                                /\ m[Len(t) + 1] = x
                                /\ \A i \in 1 .. Len(t) : m[i] = t[i]
  <1>1. /\ Append(t, x) \in Seq(Line) /\ Len(Append(t, x)) = Len(t) + 1
        /\ Append(t, x)[Len(t) + 1] = x
        /\ \A i \in 1 .. Len(t) : Append(t, x)[i] = t[i]
    BY AppendProperties
  <1> WITNESS Append(t, x) \in Seq(Line)
  <1> QED  BY <1>1, Zenon

LEMMA AppendRange ==
    ASSUME NEW t \in Seq(Line), NEW x \in Line
    PROVE  Range(Append(t, x)) = Range(t) \cup {x}
  <1>1. PICK m \in Seq(Line) : /\ m = Append(t, x) /\ Len(m) = Len(t) + 1
                               /\ m[Len(t) + 1] = x
                               /\ \A i \in 1 .. Len(t) : m[i] = t[i]
    BY Appended, Zenon
  <1>2. /\ Len(m) = Len(t) + 1 /\ m[Len(t) + 1] = x /\ \A i \in 1 .. Len(t) : m[i] = t[i]
    BY <1>1, Zenon
  <1>3. Len(t) \in Nat  BY LenProperties
  <1>4. DOMAIN t = 1 .. Len(t) /\ DOMAIN m = 1 .. Len(t) + 1  BY <1>2, LenProperties
  <1>5. Range(m) = Range(t) \cup {x}
    <2>1. ASSUME NEW y \in Range(m) PROVE y \in Range(t) \cup {x}
      <3>1. PICK i \in 1 .. Len(t) + 1 : y = m[i]  BY <1>4 DEF Range
      <3>2. i \in 1 .. Len(t) \/ i = Len(t) + 1  BY <1>3
      <3> QED  BY <1>2, <1>4, <3>1, <3>2 DEF Range
    <2>2. ASSUME NEW y \in Range(t) PROVE y \in Range(m)
      <3>1. PICK i \in 1 .. Len(t) : y = t[i]  BY <1>4 DEF Range
      <3> QED  BY <1>2, <1>3, <1>4, <3>1 DEF Range
    <2>3. x \in Range(m)
      <3>1. Len(t) + 1 \in 1 .. Len(t) + 1  BY <1>3
      <3> QED  BY <1>2, <1>4, <3>1 DEF Range
    <2> QED  BY <2>1, <2>2, <2>3
  <1> QED  BY <1>1, <1>5, Zenon

LEMMA TypeCmdShell ==
    ASSUME ShellInv, Types', TypeCmd
    PROVE  ShellInv'
  <1>1. /\ Types /\ BoardQuiet /\ HostInside /\ Ordered(pc, sent, typed, ran) /\ CmdsKept
        /\ pc = "exec" /\ UNCHANGED <<out, wire, board, account, ran, misread, late>>
    BY DEF ShellInv, TypeCmd
  <1>2. PICK p \in 0 .. Len(typed) : Laid(pc, sent, typed, Len(ran), p)
    BY <1>1 DEF Ordered
  <1>3. /\ Len(typed) \in Nat /\ Len(ran) \in Nat /\ sent \in Nat /\ Len(Cmds) \in Nat
        /\ typed \in Seq(Line) /\ Len(ran) <= sent
        /\ \A i \in 1 .. Len(ran) : ran[i] = Cmds[i]
        /\ p + (sent - Len(ran)) = Len(typed)
    BY <1>1, <1>2, LenProperties, CmdLines DEF Types, Ordered, Laid
  <1>4. Len(ran) \in 0 .. sent /\ Laid("exec", sent, typed, Len(ran), p)
    BY <1>1, <1>2, <1>3
  <1>5. /\ pc' \in {"output", "last"} /\ sent' >= sent /\ sent' \in Nat
        /\ Ordered(pc', sent', typed', ran')
    <2>1. CASE sent < Len(Cmds)
      <3>1. Cmds[sent + 1] \in Line  BY <1>3, <2>1, CmdLines
      <3>2. PICK m \in Seq(Line) : /\ m = Append(typed, Cmds[sent + 1])
                                   /\ Len(m) = Len(typed) + 1
                                   /\ m[Len(typed) + 1] = Cmds[sent + 1]
                                   /\ \A i \in 1 .. Len(typed) : m[i] = typed[i]
        BY <1>3, <3>1, Appended, Zenon
      <3>3. /\ Len(m) = Len(typed) + 1 /\ m[Len(typed) + 1] = Cmds[sent + 1]
            /\ \A i \in 1 .. Len(typed) : m[i] = typed[i]
        BY <3>2, Zenon
      <3>4. Laid("output", sent + 1, m, Len(ran), p)
        BY <1>3, <1>4, <3>3, LaidMore, Zenon
      <3>5. p \in 0 .. Len(m)  BY <1>3, <3>3
      <3>6. Ordered("output", sent + 1, m, ran)
        BY <1>1, <1>3, <3>4, <3>5 DEF Ordered, Inside
      <3>7. typed' = m /\ sent' = sent + 1 /\ pc' = "output" /\ ran' = ran
        BY <1>1, <2>1, <3>2, Zenon DEF TypeCmd, Type
      <3> QED  BY <1>3, <3>6, <3>7
    <2>2. CASE ~(sent < Len(Cmds))
      <3>1. "" \in Line /\ ~IsCmd("")  BY LinesApart, Zenon DEF LoginLines
      <3>2. PICK m \in Seq(Line) : /\ m = Append(typed, "") /\ Len(m) = Len(typed) + 1
                                   /\ m[Len(typed) + 1] = ""
                                   /\ \A i \in 1 .. Len(typed) : m[i] = typed[i]
        BY <1>3, <3>1, Appended, Zenon
      <3>3. /\ Len(m) = Len(typed) + 1 /\ ~IsCmd(m[Len(typed) + 1])
            /\ \A i \in 1 .. Len(typed) : m[i] = typed[i]
        BY <3>1, <3>2, Zenon
      <3>4. Laid("last", sent, m, Len(ran), p)
        BY <1>3, <1>4, <3>3, LaidMore, Zenon
      <3>5. p \in 0 .. Len(m)  BY <1>3, <3>3
      <3>6. Ordered("last", sent, m, ran)  BY <1>3, <3>4, <3>5 DEF Ordered, Inside
      <3>7. typed' = m /\ sent' = sent /\ pc' = "last" /\ ran' = ran
        BY <1>1, <2>2, <3>2, Zenon DEF TypeCmd, Type
      <3> QED  BY <1>3, <3>6, <3>7
    <2> QED  BY <2>1, <2>2
  <1>6. BoardQuiet' /\ HostInside' /\ CmdsKept'
    BY <1>1, <1>5 DEF BoardQuiet, Stream, HostInside, Inside, CmdsKept
  <1> QED  BY <1>5, <1>6 DEF ShellInv

(***************************************************************************)
(* The board reads the first typed line: a command only in the shell, as   *)
(* the next one.                                                           *)
(***************************************************************************)
LEMMA HeadOrdered ==
    ASSUME Types, Ordered(pc, sent, typed, ran), NEW x, NEW m, NEW q,
           Len(typed) > 0, x = typed[1], Len(m) = Len(typed) - 1,
           \A i \in 1 .. Len(typed) - 1 : m[i] = typed[i + 1],
           ~IsCmd(x) => q = ran,
           IsCmd(x) => /\ Len(q) = Len(ran) + 1 /\ q[Len(ran) + 1] = x
                       /\ \A i \in 1 .. Len(ran) : q[i] = ran[i]
    PROVE  Ordered(pc, sent, m, q) /\ (IsCmd(x) => pc \in Inside)
  <1>1. /\ typed \in Seq(Line) /\ ran \in Seq(Line) /\ sent \in 0 .. Len(Cmds)
        /\ Len(typed) \in Nat \ {0} /\ Len(ran) \in Nat /\ Len(Cmds) \in Nat
        /\ Len(ran) \in 0 .. sent /\ sent \in Nat
        /\ \A i \in 1 .. Len(ran) : ran[i] = Cmds[i]
    BY LenProperties, CmdLines DEF Types, Ordered
  <1>2. PICK p \in 0 .. Len(typed) : Laid(pc, sent, typed, Len(ran), p)
    BY DEF Ordered
  <1>3. /\ p = 0 /\ Len(ran) < sent => Laid(pc, sent, m, Len(ran) + 1, 0)
        /\ p = 0 /\ Len(ran) = sent => Laid(pc, sent, m, Len(ran), 0)
        /\ p > 0 => Laid(pc, sent, m, Len(ran), p - 1)
    BY <1>1, <1>2, LaidLess
  <1>4. 0 \in 0 .. Len(m) /\ (p > 0 => p - 1 \in 0 .. Len(m))  BY <1>1, <1>2
  <1>5. CASE IsCmd(x)
    <2>1. p = 0 /\ Len(ran) < sent /\ x = Cmds[Len(ran) + 1]
      BY <1>1, <1>2, <1>5 DEF Laid
    <2>2. /\ Len(q) = Len(ran) + 1 /\ q[Len(ran) + 1] = x
          /\ \A i \in 1 .. Len(ran) : q[i] = ran[i]
      BY <1>5
    <2>3. \A i \in 1 .. Len(q) : q[i] = Cmds[i]
      <3>1. \A i \in 1 .. Len(q) : i \in 1 .. Len(ran) \/ i = Len(ran) + 1  BY <1>1, <2>2
      <3> QED  BY <1>1, <2>1, <2>2, <3>1
    <2>4. pc \in Inside  BY <1>1, <2>1 DEF Ordered
    <2> QED  BY <1>1, <1>3, <1>4, <2>1, <2>2, <2>3, <2>4 DEF Ordered
  <1>6. CASE ~IsCmd(x)
    <2>1. q = ran /\ (pc \notin Inside => sent = 0)  BY <1>6 DEF Ordered
    <2>2. p = 0 => sent = Len(ran)
      <3>1. SUFFICES ASSUME p = 0, Len(ran) < sent PROVE FALSE  BY <1>1
      <3>2. typed[1] = Cmds[Len(ran) + 1]  BY <1>1, <1>2, <3>1 DEF Laid
      <3>3. IsCmd(Cmds[Len(ran) + 1])  BY <1>1, <3>1, CmdLines
      <3> QED  BY <1>6, <3>2, <3>3
    <2>3. \E i \in 0 .. Len(m) : Laid(pc, sent, m, Len(ran), i)
      BY <1>2, <1>3, <1>4, <2>2
    <2> QED  BY <1>1, <1>6, <2>1, <2>3 DEF Ordered
  <1> QED  BY <1>5, <1>6

LEMMA Printed ==
    ASSUME Types, NEW u \in Seq(Token), Prints(u), out' = out
    PROVE  /\ Stream \in Seq(Token) /\ Stream' = Stream \o u
           /\ \A t : Holds(Stream', t) <=> Holds(Stream, t) \/ Holds(u, t)
  <1>1. out \in Seq(Token) /\ wire \in Seq(Token) /\ wire' = wire \o u
    BY DEF Types, Prints
  <1>2. Stream \in Seq(Token)  BY <1>1, ConcatProperties DEF Stream
  <1>3. Cat(out, Cat(wire, u)) = Cat(Cat(out, wire), u)  BY <1>1, CatLaw
  <1>4. Stream' = Stream \o u  BY <1>1, <1>3, Zenon DEF Cat, Stream
  <1>5. \A t : Holds(Stream \o u, t) <=> Holds(Stream, t) \/ Holds(u, t)
    BY <1>2, RestOf
  <1> QED  BY <1>2, <1>4, <1>5, Zenon

LEMMA HoldsFew ==
    /\ \A t : ~Holds(<<>>, t)
    /\ \A a, t : Holds(<<a>>, t) <=> t = a
    /\ \A a, b, t : Holds(<<a, b>>, t) <=> t = a \/ t = b
  <1>1. \A t : ~Holds(<<>>, t)  BY DEF Holds, Range
  <1>2. \A a, t : Holds(<<a>>, t) <=> t = a  BY DEF Holds, Range
  <1>3. \A a, b, t : Holds(<<a, b>>, t) <=> t = a \/ t = b  BY DEF Holds, Range
  <1> QED  BY <1>1, <1>2, <1>3

LEMMA QuietTokens ==
    /\ ~Holds(<<"login:">>, " #") /\ ~Holds(<<"Password:">>, " #")
    /\ ~Holds(<<"incorrect", "login:">>, " #")
  BY HoldsFew

LEMMA BoardReadsShell ==
    ASSUME ShellInv, Types', BoardReads
    PROVE  ShellInv'
  <1>1. /\ Types /\ BoardQuiet /\ HostInside /\ Ordered(pc, sent, typed, ran) /\ CmdsKept
        /\ typed \in Seq(Line) /\ typed # <<>> /\ ran \in Seq(Line)
        /\ UNCHANGED <<pc, out, sent>>
    BY DEF ShellInv, BoardReads, Types, host
  <1>2. PICK x \in Line, m \in Seq(Line) :
          /\ x = Head(typed) /\ m = Tail(typed) /\ Len(typed) > 0 /\ x = typed[1]
          /\ Len(m) = Len(typed) - 1 /\ \A i \in 1 .. Len(typed) - 1 : m[i] = typed[i + 1]
    <2>1. /\ Head(typed) \in Line /\ Tail(typed) \in Seq(Line)
          /\ Len(Tail(typed)) = Len(typed) - 1
          /\ \A i \in 1 .. Len(Tail(typed)) : Tail(typed)[i] = typed[i + 1]
      BY <1>1, HeadTailProperties
    <2>2. Len(typed) > 0 /\ Head(typed) = typed[1]  BY <1>1, EmptySeq, LenProperties
    <2> QED  BY <2>1, <2>2, Zenon
  <1>3. typed' = m /\ (ReadLogin(x) \/ ReadPassword(x) \/ ReadShell(x))
    BY <1>2, Zenon DEF BoardReads
  <1>4. PICK q \in Seq(Line) : /\ q = Append(ran, x) /\ Len(q) = Len(ran) + 1
                               /\ q[Len(ran) + 1] = x
                               /\ \A i \in 1 .. Len(ran) : q[i] = ran[i]
    BY <1>1, Appended, Zenon
  <1>5. Len(typed) > 0 /\ x = typed[1] /\ Len(m) = Len(typed) - 1
        /\ \A i \in 1 .. Len(typed) - 1 : m[i] = typed[i + 1]
    BY <1>2, Zenon
  <1>6. Len(q) = Len(ran) + 1 /\ q[Len(ran) + 1] = x
        /\ \A i \in 1 .. Len(ran) : q[i] = ran[i]
    BY <1>4, Zenon
  <1>7. /\ ~IsCmd(x) => Ordered(pc, sent, m, ran)
        /\ IsCmd(x) => Ordered(pc, sent, m, q) /\ pc \in Inside
    <2>1. ~IsCmd(x) => Ordered(pc, sent, m, ran)  BY <1>1, <1>5, HeadOrdered
    <2>2. IsCmd(x) => Ordered(pc, sent, m, q) /\ pc \in Inside
      BY <1>1, <1>5, <1>6, HeadOrdered
    <2> QED  BY <2>1, <2>2
  <1>8. IsCmd(x) => board \in {"shell", "running"}  BY <1>1, <1>7 DEF HostInside
  <1>9. x \in Secret => ~IsCmd(x)  BY LinesApart DEF Secret, LoginLines
  <1>10. CASE ReadLogin(x)
    <2>1. board = "login" /\ ~IsCmd(x)  BY <1>8, <1>10 DEF ReadLogin
    <2>2. Ordered(pc', sent', typed', ran')
      BY <1>1, <1>3, <1>7, <1>10, <2>1, Zenon DEF ReadLogin
    <2>3. CmdsKept'  BY <1>1, <1>10, <2>1 DEF ReadLogin, Misread, CmdsKept, IsCmd
    <2>4. HostInside'  BY <1>1, <2>1 DEF HostInside
    <2>5. BoardQuiet'
      <3>1. CASE board' = "shell"  BY <3>1 DEF BoardQuiet
      <3>2. CASE Prints(<<"login:">>)
        BY <1>1, <2>1, <3>2, Printed, PrintedTokens, QuietTokens DEF BoardQuiet
      <3>3. CASE Prints(<<"Password:">>)
        BY <1>1, <2>1, <3>3, Printed, PrintedTokens, QuietTokens DEF BoardQuiet
      <3> QED  BY <1>10, <3>1, <3>2, <3>3 DEF ReadLogin
    <2> QED  BY <2>2, <2>3, <2>4, <2>5 DEF ShellInv
  <1>11. CASE ReadPassword(x)
    <2>1. board = "password" /\ ~IsCmd(x)  BY <1>8, <1>11 DEF ReadPassword
    <2>2. Ordered(pc', sent', typed', ran')
      BY <1>1, <1>3, <1>7, <1>11, <2>1, Zenon DEF ReadPassword
    <2>3. CmdsKept'  BY <1>1, <1>11, <2>1 DEF ReadPassword, Misread, CmdsKept, IsCmd
    <2>4. HostInside'  BY <1>1, <2>1 DEF HostInside
    <2>5. BoardQuiet'
      <3>1. CASE board' = "shell"  BY <3>1 DEF BoardQuiet
      <3>2. CASE Prints(<<"incorrect", "login:">>)
        BY <1>1, <2>1, <3>2, Printed, PrintedTokens, QuietTokens DEF BoardQuiet
      <3> QED  BY <1>11, <3>1, <3>2 DEF ReadPassword
    <2> QED  BY <2>2, <2>3, <2>4, <2>5 DEF ShellInv
  <1>12. CASE ReadShell(x)
    <2>1. board = "shell" /\ board' \in {"shell", "running"}  BY <1>12 DEF ReadShell
    <2>2. ran' = IF IsCmd(x) THEN q ELSE ran  BY <1>4, <1>12, Zenon DEF ReadShell
    <2>3. Ordered(pc', sent', typed', ran')
      <3>1. CASE IsCmd(x)  BY <1>1, <1>3, <1>7, <2>2, <3>1
      <3>2. CASE ~IsCmd(x)  BY <1>1, <1>3, <1>7, <2>2, <3>2
      <3> QED  BY <3>1, <3>2
    <2>4. CmdsKept'  BY <1>1, <1>9, <1>12 DEF ReadShell, Misread, CmdsKept, IsCmd
    <2>5. HostInside' /\ BoardQuiet'  BY <2>1 DEF HostInside, BoardQuiet
    <2> QED  BY <2>3, <2>4, <2>5 DEF ShellInv
  <1> QED  BY <1>3, <1>10, <1>11, <1>12

LEMMA ShellNext == ShellInv /\ [Next]_vars => ShellInv'
  <1> SUFFICES ASSUME ShellInv, [Next]_vars PROVE ShellInv'  OBVIOUS
  <1>1. Types'  BY TypesNext DEF ShellInv
  <1>2. CASE Receive  BY <1>1, <1>2, ReceiveShell
  <1>3. CASE Timeout
    <2>1. /\ out \in Seq(Token) /\ wire' \in Seq(Token) /\ Stream = out \o wire'
          /\ Return(out) /\ UNCHANGED <<sent, board, account, ran, misread>>
      BY <1>3 DEF ShellInv, Types, Timeout, Stream
    <2> QED  BY <1>1, <2>1, ReturnShell
  <1>4. CASE TypeCmd  BY <1>1, <1>4, TypeCmdShell
  <1>5. CASE BoardReads  BY <1>1, <1>5, BoardReadsShell
  <1>6. CASE CmdEnds
    BY <1>1, <1>6
    DEF CmdEnds, host, ShellInv, BoardQuiet, HostInside, Ordered, Laid, CmdsKept
  <1>7. CASE UNCHANGED vars
    BY <1>7
    DEF vars, host, ShellInv, Types, BoardQuiet, HostInside, Ordered, Laid, CmdsKept, Stream
  <1> QED  BY <1>2, <1>3, <1>4, <1>5, <1>6, <1>7 DEF Next, Host, Board

LEMMA ShellInit == Init => ShellInv
  <1> SUFFICES ASSUME Init PROVE ShellInv  OBVIOUS
  <1>1. Types
    <2>1. <<>> \in Seq(Token) /\ <<"hash", "login:">> \in Seq(Token)  BY DEF Token
    <2>2. wire \in Seq(Token)  BY <2>1, PrintedTokens DEF Init
    <2>3. <<>> \in Seq(Line)  BY EmptySeq
    <2>4. pc \in Places /\ board \in {"login", "password", "shell", "running"}
      BY DEF Init, Places
    <2>5. sent \in 0 .. Len(Cmds) /\ try \in Nat  BY CmdLines DEF Init
    <2> QED  BY <2>1, <2>2, <2>3, <2>4, <2>5 DEF Init, Types
  <1>2. BoardQuiet
    <2>1. Stream = wire  BY <1>1, ConcatEmptySeq DEF Init, Types, Stream
    <2>2. board = "shell" \/ wire = <<>> \/ wire = <<"hash", "login:">>  BY DEF Init
    <2>3. ~Holds(<<>>, " #") /\ ~Holds(<<"hash", "login:">>, " #")  BY HoldsFew
    <2> QED  BY <2>1, <2>2, <2>3 DEF BoardQuiet
  <1>3. HostInside /\ CmdsKept  BY DEF Init, HostInside, Inside, CmdsKept
  <1>4. Ordered(pc, sent, typed, ran)
    <2>1. typed = <<>> /\ ran = <<>> /\ sent = 0 /\ Len(typed) = 0 /\ Len(ran) = 0
      BY DEF Init
    <2>2. 0 \in 0 .. Len(typed)  BY <2>1
    <2>3. sent = 0 /\ Len(typed) = 0 /\ Len(ran) = 0  BY <2>1
    <2>4. Laid(pc, sent, typed, Len(ran), 0)  BY <2>3 DEF Laid
    <2> QED  BY <2>2, <2>3, <2>4 DEF Ordered
  <1> QED  BY <1>1, <1>2, <1>3, <1>4 DEF ShellInv

LEMMA ShellInvariant == Spec => []ShellInv
  BY ShellInit, ShellNext, PTL DEF Spec

(***************************************************************************)
(* exec_cmds: no command is read by a login or password prompt, and the    *)
(* shell runs them in the order given, each one once, though every wait    *)
(* may end before the board answers.                                       *)
(***************************************************************************)
THEOREM SerialCommandsOnlyInShell == Spec => []CommandsOnlyInShell
  <1>1. ShellInv => CommandsOnlyInShell
    <2> SUFFICES ASSUME ShellInv PROVE CommandsOnlyInShell  OBVIOUS
    <2>1. /\ misread \cap Range(Cmds) = {} /\ ran \in Seq(Line) /\ Len(ran) <= sent
          /\ sent \in 0 .. Len(Cmds) /\ \A i \in 1 .. Len(ran) : ran[i] = Cmds[i]
      BY DEF ShellInv, CmdsKept, Ordered, Types
    <2>2. Len(ran) \in Nat /\ Len(Cmds) \in Nat /\ Len(ran) <= Len(Cmds)
      BY <2>1, LenProperties, CmdLines
    <2>3. SubSeq(ran, 1, Len(ran)) = SubSeq(Cmds, 1, Len(ran))
      BY <2>1, <2>2, CmdLines
    <2> QED  BY <2>1, <2>2, <2>3 DEF CommandsOnlyInShell, IsPrefix
  <1> QED  BY <1>1, ShellInvariant, PTL

(***************************************************************************)
(* Where login is, as long as no answer came late: one predicate for each  *)
(* place, about the board, the typed lines and what is printed.            *)
(***************************************************************************)
NoSecret == Range(typed) \cap Secret = {}

OnlyLogin == Range(Stream) \subseteq {"login:"}

Draining ==
    pc = "drain" /\ typed = <<>> /\ try = 0 /\ board \in {"login", "password", "shell"}

Looking ==
    /\ pc = "look" /\ typed = <<>> /\ try = 0 /\ Stream = <<>>
    /\ board \in {"login", "password", "shell"}

\* Two empty lines: the first one ends a password prompt, each shows a prompt.
Waking ==
    /\ pc = "drain2" /\ try = 0
    /\ \/ typed = <<"", "">> /\ board \in {"login", "password", "shell"}
       \/ typed \in {<<>>, <<"">>} /\ board = "login"
       \/ typed \in {<<>>, <<"">>} /\ board = "shell" /\ AtPrompt(Stream)

AskingName ==
    /\ pc = "login" /\ board = "login" /\ OnlyLogin
    /\ \/ typed = <<"">>
       \/ typed = <<>> /\ Stream # <<>>

\* The banner of a shell without password was not taken for its prompt.
Missed ==
    /\ pc = "login" /\ board = "shell" /\ account # "password"
    /\ Range(typed) \subseteq {""} /\ ~Holds(Stream, "login:")

Naming ==
    pc = "user" /\ board = "login" /\ typed \in {<<"root">>, <<"", "root">>} /\ OnlyLogin

Asked ==
    /\ pc = "user" /\ board = "password" /\ typed = <<>> /\ Stream # <<>>
    /\ \A i \in 1 .. Len(Stream) :
         Stream[i] = IF i = Len(Stream) THEN "Password:" ELSE "login:"

Opened ==
    /\ pc = "user" /\ board = "shell" /\ account # "password" /\ typed = <<>>
    /\ ~Holds(Stream, "Password:")
    /\ \A i, j \in 1 .. Len(Stream) : i < j /\ Stream[j] = "login:" => Stream[i] = "login:"

Answering ==
    pc = "pass" /\ board = "password" /\ typed = <<"openEuler@2021">> /\ Stream = <<>>

Refused ==
    /\ pc = "pass" /\ board = "login" /\ account # "password" /\ typed = <<>>
    /\ Stream = <<"incorrect", "login:">>

Welcomed ==
    /\ pc = "pass" /\ board = "shell" /\ typed = <<>>
    /\ AtPrompt(Stream) /\ ~Holds(Stream, "incorrect")

InShell == pc \in Inside /\ NoSecret

GivenUp == pc = "failed" /\ account # "password" /\ NoSecret

LoginPlace ==
    \/ Draining \/ Looking \/ Waking \/ AskingName \/ Missed \/ Naming \/ Asked
    \/ Opened \/ Answering \/ Refused \/ Welcomed \/ InShell \/ GivenUp

Timely == ~late => misread \cap Secret = {} /\ LoginPlace

LEMMA FewLines ==
    /\ \A a : <<a>> # <<>> /\ Head(<<a>>) = a /\ Tail(<<a>>) = <<>>
    /\ \A a, b : <<a, b>> # <<>> /\ Head(<<a, b>>) = a /\ Tail(<<a, b>>) = <<b>>
    /\ \A a : Append(<<>>, a) = <<a>>
    /\ \A a, b : Append(<<a>>, b) = <<a, b>>
    /\ \A a, b : <<>> \o <<a, b>> = <<a, b>>
  <1>1. \A a : <<a>> # <<>> /\ Head(<<a>>) = a /\ Tail(<<a>>) = <<>>  OBVIOUS
  <1>2. \A a, b : <<a, b>> # <<>> /\ Head(<<a, b>>) = a /\ Tail(<<a, b>>) = <<b>>  OBVIOUS
  <1>3. \A a : Append(<<>>, a) = <<a>>  OBVIOUS
  <1>4. \A a, b : Append(<<a>>, b) = <<a, b>>
    <2> TAKE a, b
    <2> DEFINE S == {a, b}
    <2>1. <<a>> \in Seq(S) /\ b \in S /\ Len(<<a>>) = 1 /\ <<a>>[1] = a  OBVIOUS
    <2>2. PICK m \in Seq(S) : m = Append(<<a>>, b)
      BY <2>1, AppendProperties
    <2>3. Len(m) = 2 /\ m[1] = a /\ m[2] = b  BY <2>1, <2>2, AppendProperties
    <2>4. m = <<m[1], m[2]>>  BY <2>3
    <2> QED  BY <2>2, <2>3, <2>4
  <1>5. \A a, b : <<>> \o <<a, b>> = <<a, b>>  OBVIOUS
  <1> QED  BY <1>1, <1>2, <1>3, <1>4, <1>5

LEMMA NoPromptYet == ~AtPrompt(<<>>)
  <1>1. <<>> \in Seq(Token) /\ Len(<<>>) - 1 = -1  BY EmptySeq
  <1>2. 1 .. -1 = {}  OBVIOUS
  <1> QED  BY <1>1, <1>2, PromptAt

(***************************************************************************)
(* A wait ends in time: what it waited for is there, or all that was typed *)
(* is read and all that was printed too.                                   *)
(***************************************************************************)
InTime(o) == Matches(pc, o) \/ (typed = <<>> /\ wire' = <<>>)

LEMMA AllRead ==
    ASSUME Types, NEW o \in Seq(Token), wire' = <<>>, Stream = o \o wire'
    PROVE  o = Stream
  BY ConcatEmptySeq

LEMMA RetryTimely ==
    ASSUME Types, Retry, typed \in {<<>>, <<"">>} \/ Range(typed) \subseteq {""},
           out' = <<>>, account' = account, account # "password"
    PROVE  \/ GivenUp'
           \/ pc' = "login" /\ typed' = Append(typed, "")
  <1>1. CASE try = Tries
    <2>1. pc' = "failed" /\ typed' = typed  BY <1>1, Zenon DEF Retry
    <2>2. Range(typed) \subseteq {""}
      <3>1. CASE typed = <<>>  BY <3>1, HoldsFew DEF Holds
      <3>2. CASE typed = <<"">>  BY <3>2, HoldsFew DEF Holds
      <3> QED  BY <3>1, <3>2
    <2>3. "" \notin Secret  BY DEF Secret
    <2>4. NoSecret'  BY <2>1, <2>2, <2>3 DEF NoSecret
    <2> QED  BY <2>1, <2>4 DEF GivenUp
  <1>2. CASE try # Tries  BY <1>2, Zenon DEF Retry
  <1> QED  BY <1>1, <1>2

LEMMA NothingTyped == typed = <<>> => NoSecret
  BY HoldsFew DEF NoSecret, Holds

LEMMA ReturnDraining ==
    ASSUME Types, Draining, NEW o \in Seq(Token), Return(o), InTime(o),
           Stream' = wire', UNCHANGED board
    PROVE  Looking'
  <1>1. wire' = <<>>  BY DEF InTime, Draining, Matches
  <1>2. pc' = "look" /\ typed' = typed /\ try' = try  BY Zenon DEF Return, Go, Draining
  <1> QED  BY <1>1, <1>2 DEF Draining, Looking

LEMMA ReturnLooking ==
    ASSUME Types, Looking, NEW o \in Seq(Token), Return(o), wire' \in Seq(Token),
           Stream = o \o wire', UNCHANGED board
    PROVE  Waking'
  <1>1. o = <<>>
    <2>1. Len(o) = 0  BY Cut, LenProperties, EmptySeq DEF Looking
    <2> QED  BY <2>1, EmptySeq
  <1>2. ~AtPrompt(o)  BY <1>1, NoPromptYet
  <1>3. pc' = "drain2" /\ typed' = typed \o <<"", "">> /\ try' = try
    BY <1>2, Zenon DEF Return, Looking
  <1>4. typed' = <<"", "">>  BY <1>3, FewLines, Zenon DEF Looking
  <1> QED  BY <1>3, <1>4 DEF Waking, Looking

LEMMA ReturnWaking ==
    ASSUME Types, BoardQuiet, Waking, NEW o \in Seq(Token), Return(o), InTime(o),
           wire' \in Seq(Token), Stream = o \o wire', Stream' = wire',
           UNCHANGED <<board, account>>
    PROVE  AskingName' \/ InShell'
  <1>1. typed = <<>> /\ wire' = <<>>  BY DEF InTime, Waking, Matches
  <1>2. o = Stream  BY <1>1, AllRead
  <1>3. CASE board = "login"
    <2>1. ~AtPrompt(o)  BY <1>2, <1>3, PromptHolds DEF BoardQuiet
    <2>2. Retry  BY <2>1, Zenon DEF Return, Waking
    <2>3. try # Tries  BY ExecTyped DEF Waking
    <2>4. pc' = "login" /\ typed' = Append(typed, "")  BY <2>2, <2>3, Zenon DEF Retry
    <2>5. typed' = <<"">>  BY <1>1, <2>4, FewLines, Zenon
    <2>6. OnlyLogin'  BY <1>1, HoldsFew DEF OnlyLogin, Holds
    <2> QED  BY <1>3, <2>4, <2>5, <2>6 DEF AskingName
  <1>4. CASE board = "shell"
    <2>1. <<"", "">> # <<>>  BY FewLines
    <2>2. AtPrompt(o)  BY <1>1, <1>2, <1>4, <2>1 DEF Waking
    <2>3. pc' = "exec" /\ typed' = typed  BY <2>2, Zenon DEF Return, Go, Waking
    <2>4. typed' = <<>>  BY <1>1, <2>3
    <2>5. NoSecret'  BY <2>4, HoldsFew DEF NoSecret, Holds
    <2> QED  BY <2>3, <2>5 DEF InShell, Inside
  <1>5. board \in {"login", "shell"}
    <2>1. <<"", "">> # <<>>  BY FewLines
    <2> QED  BY <1>1, <2>1 DEF Waking
  <1> QED  BY <1>3, <1>4, <1>5

LEMMA ReturnAskingName ==
    ASSUME Types, AskingName, NEW o \in Seq(Token), Return(o), InTime(o),
           wire' \in Seq(Token), Stream = o \o wire', Stream' = wire',
           UNCHANGED <<board, account>>
    PROVE  Naming'
  <1>1. \A t : Holds(o, t) \/ Holds(wire', t) => t = "login:"
    BY RestOf DEF AskingName, OnlyLogin, Holds
  <1>2. Holds(o, "login:")
    <2>1. CASE Matches(pc, o)  BY <2>1 DEF Matches, AskingName
    <2>2. CASE typed = <<>> /\ wire' = <<>>
      <3>1. o = Stream /\ <<"">> # <<>>  BY <2>2, AllRead, FewLines
      <3>2. o # <<>>  BY <2>2, <3>1 DEF AskingName
      <3>3. Len(o) \in Nat /\ Len(o) # 0  BY <3>2, EmptySeq, LenProperties
      <3>4. Holds(o, o[1])  BY <3>3, HoldsAt
      <3> QED  BY <1>1, <3>4
    <2> QED  BY <2>1, <2>2 DEF InTime
  <1>3. pc' = "user" /\ typed' = Append(typed, "root")
    BY <1>2, Zenon DEF Return, Type, AskingName
  <1>4. typed' \in {<<"root">>, <<"", "root">>}
    <2>1. CASE typed = <<>>  BY <1>3, <2>1, FewLines, Zenon
    <2>2. CASE typed = <<"">>  BY <1>3, <2>2, FewLines, Zenon
    <2> QED  BY <2>1, <2>2 DEF AskingName
  <1>5. OnlyLogin'  BY <1>1 DEF OnlyLogin, Holds
  <1> QED  BY <1>3, <1>4, <1>5 DEF Naming, AskingName

LEMMA ReturnMissed ==
    ASSUME Types, Types', Missed, NEW o \in Seq(Token), Return(o), InTime(o),
           wire' \in Seq(Token), Stream = o \o wire', Stream' = wire',
           UNCHANGED <<board, account>>
    PROVE  GivenUp' \/ Missed'
  <1>1. ~Holds(o, "login:") /\ ~Holds(wire', "login:")  BY RestOf DEF Missed
  <1>2. Retry /\ out' = <<>>  BY <1>1, Zenon DEF Return, Missed
  <1>3. GivenUp' \/ (pc' = "login" /\ typed' = Append(typed, ""))
    BY <1>2, RetryTimely DEF Missed
  <1>4. CASE pc' = "login" /\ typed' = Append(typed, "")
    <2>1. typed \in Seq(Line) /\ "" \in Line  BY DEF Types, Line, LoginLines
    <2>2. Range(Append(typed, "")) = Range(typed) \cup {""}  BY <2>1, AppendRange, Zenon
    <2>3. Range(typed') \subseteq {""}  BY <1>4, <2>2, Zenon DEF Missed
    <2> QED  BY <1>1, <1>4, <2>3, Zenon DEF Missed
  <1> QED  BY <1>3, <1>4

LEMMA ReturnNaming ==
    ASSUME Types, Naming, NEW o \in Seq(Token), InTime(o),
           wire' \in Seq(Token), Stream = o \o wire'
    PROVE  FALSE
  <1>1. \A t : Holds(o, t) => t = "login:"
    BY RestOf DEF Naming, OnlyLogin, Holds
  <1>2. typed # <<>>  BY FewLines, Zenon DEF Naming
  <1>3. Matches("user", o)  BY <1>2, Zenon DEF InTime, Naming
  <1>4. Range(o) \cap {"Password:", "hash", " #", "~"} # {}  BY <1>3 DEF Matches
  <1> QED  BY <1>1, <1>4 DEF Holds

LEMMA ReturnAsked ==
    ASSUME Types, Asked, NEW o \in Seq(Token), Return(o), InTime(o),
           wire' \in Seq(Token), Stream = o \o wire', Stream' = wire',
           UNCHANGED <<board, account>>
    PROVE  Answering'
  <1>1. /\ Len(o) \in Nat /\ Len(wire') \in Nat /\ Len(Stream) = Len(o) + Len(wire')
        /\ \A i \in 1 .. Len(o) : Stream[i] = o[i]
    BY Cut, LenProperties
  <1>2. Holds(o, "Password:") /\ wire' = <<>>
    <2>1. CASE Matches(pc, o)
      <3>1. Range(o) \cap {"Password:", "hash", " #", "~"} # {}
        BY <2>1 DEF Matches, Asked
      <3>2. PICK i \in 1 .. Len(o) : o[i] # "login:"
        BY <3>1, LenProperties DEF Range
      <3>3. i = Len(Stream) /\ o[i] = "Password:"
        BY <1>1, <3>2 DEF Asked
      <3>4. Len(wire') = 0  BY <1>1, <3>3
      <3>5. wire' = <<>>  BY <3>4, EmptySeq
      <3>6. Holds(o, "Password:")  BY <3>3, HoldsAt
      <3> QED  BY <3>5, <3>6
    <2>2. CASE typed = <<>> /\ wire' = <<>>
      <3>1. o = Stream  BY <2>2, AllRead
      <3>2. Len(Stream) \in Nat /\ Len(Stream) # 0
        BY <1>1, <3>1, EmptySeq DEF Asked
      <3>3. Stream[Len(Stream)] = "Password:"
        <4>1. Len(Stream) \in 1 .. Len(Stream)  BY <3>2
        <4> QED  BY <4>1, Zenon DEF Asked
      <3> QED  BY <2>2, <3>1, <3>2, <3>3, HoldsAt
    <2> QED  BY <2>1, <2>2 DEF InTime
  <1>3. pc' = "pass" /\ typed' = Append(typed, "openEuler@2021")
    BY <1>2, Zenon DEF Return, Type, Asked, AsksPassword
  <1>4. typed' = <<"openEuler@2021">>  BY <1>3, FewLines, Zenon DEF Asked
  <1> QED  BY <1>2, <1>3, <1>4 DEF Asked, Answering

LEMMA ReturnOpened ==
    ASSUME Types, Types', Opened, NEW o \in Seq(Token), Return(o), InTime(o),
           wire' \in Seq(Token), Stream = o \o wire', Stream' = wire',
           UNCHANGED <<board, account>>
    PROVE  GivenUp' \/ Missed' \/ InShell'
  <1>1. /\ Len(o) \in Nat /\ Len(wire') \in Nat /\ Len(Stream) = Len(o) + Len(wire')
        /\ \A i \in 1 .. Len(o) : Stream[i] = o[i]
        /\ \A i \in 1 .. Len(wire') : Stream[Len(o) + i] = wire'[i]
    BY Cut, LenProperties
  <1>2. ~AsksPassword(o)  BY RestOf DEF Opened, AsksPassword
  <1>3. ~Holds(wire', "login:")
    <2>1. CASE Matches(pc, o)
      <3>1. Range(o) \cap {"Password:", "hash", " #", "~"} # {}
        BY <2>1 DEF Matches, Opened
      <3>2. PICK i \in 1 .. Len(o) : o[i] # "login:"
        BY <3>1, LenProperties DEF Range
      <3>3. \A j \in 1 .. Len(wire') : wire'[j] # "login:"
        <4>1. TAKE j \in 1 .. Len(wire')
        <4>2. i \in 1 .. Len(Stream) /\ Len(o) + j \in 1 .. Len(Stream) /\ i < Len(o) + j
          BY <1>1
        <4>3. Stream[i] # "login:"  BY <1>1, <3>2
        <4>4. Stream[Len(o) + j] # "login:"  BY <4>2, <4>3 DEF Opened
        <4> QED  BY <1>1, <4>4
      <3> QED  BY <3>3, HoldsAt
    <2>2. CASE typed = <<>> /\ wire' = <<>>  BY <2>2, HoldsFew
    <2> QED  BY <2>1, <2>2 DEF InTime
  <1>4. CASE AtPrompt(o)
    <2>1. pc' = "exec" /\ typed' = typed
      BY <1>2, <1>4, Zenon DEF Return, Go, Opened
    <2>2. typed' = <<>>  BY <2>1 DEF Opened
    <2>3. NoSecret'  BY <2>2, HoldsFew DEF NoSecret, Holds
    <2> QED  BY <2>1, <2>3 DEF InShell, Inside
  <1>5. CASE ~AtPrompt(o)
    <2>1. Retry /\ out' = <<>>  BY <1>2, <1>5, Zenon DEF Return, Opened
    <2>2. GivenUp' \/ (pc' = "login" /\ typed' = Append(typed, ""))
      BY <2>1, RetryTimely DEF Opened
    <2>3. ASSUME pc' = "login", typed' = Append(typed, "") PROVE Missed'
      <3>1. typed' = <<"">>  BY <2>3, FewLines, Zenon DEF Opened
      <3>2. Range(typed') \subseteq {""}  BY <3>1, HoldsFew, Zenon DEF Holds
      <3> QED  BY <1>3, <2>3, <3>2, Zenon DEF Missed, Opened
    <2> QED  BY <2>2, <2>3
  <1> QED  BY <1>4, <1>5

LEMMA ReturnAnswering ==
    ASSUME Types, Answering, NEW o \in Seq(Token), InTime(o),
           wire' \in Seq(Token), Stream = o \o wire'
    PROVE  FALSE
  <1>1. o = <<>>
    <2>1. Len(o) = 0  BY Cut, LenProperties, EmptySeq DEF Answering
    <2> QED  BY <2>1, EmptySeq
  <1>2. ~AtPrompt(o) /\ ~Holds(o, "incorrect")  BY <1>1, NoPromptYet, HoldsFew
  <1>3. typed # <<>>  BY FewLines, Zenon DEF Answering
  <1>4. ~Matches(pc, o)  BY <1>2 DEF Matches, Answering
  <1> QED  BY <1>3, <1>4 DEF InTime

LEMMA ReturnRefused ==
    ASSUME Types, BoardQuiet, Refused, NEW o \in Seq(Token), Return(o), InTime(o),
           wire' \in Seq(Token), Stream = o \o wire', Stream' = wire',
           UNCHANGED <<board, account>>
    PROVE  GivenUp' \/ AskingName'
  <1>1. ~AtPrompt(o)
    <2>1. ~Holds(Stream, " #")  BY DEF BoardQuiet, Refused
    <2> QED  BY <2>1, PromptHolds, RestOf
  <1>2. Retry /\ out' = <<>>  BY <1>1, Zenon DEF Return, Refused
  <1>3. GivenUp' \/ (pc' = "login" /\ typed' = Append(typed, ""))
    BY <1>2, RetryTimely DEF Refused
  <1>4. OnlyLogin'
    <2>1. CASE wire' = <<>>  BY <2>1, HoldsFew DEF OnlyLogin, Holds
    <2>2. CASE Matches(pc, o)
      <3>1. Holds(o, "incorrect")  BY <1>1, <2>2 DEF Matches, Refused
      <3>2. /\ Len(o) \in Nat \ {0} /\ Len(wire') \in Nat
            /\ Len(o) + Len(wire') = 2
            /\ \A i \in 1 .. Len(wire') : Stream[Len(o) + i] = wire'[i]
        <4>1. Len(o) \in Nat /\ Len(wire') \in Nat  BY LenProperties
        <4>2. PICK i \in 1 .. Len(o) : o[i] = "incorrect"  BY <3>1, HoldsAt
        <4>3. Len(Stream) = 2  BY DEF Refused
        <4> QED  BY <4>1, <4>2, <4>3, Cut
      <3>3. \A i \in 1 .. Len(wire') : wire'[i] = "login:"
        <4>1. Stream[2] = "login:"  BY DEF Refused
        <4> QED  BY <3>2, <4>1
      <3>4. Range(wire') \subseteq {"login:"}  BY <3>3, LenProperties DEF Range
      <3> QED  BY <3>4 DEF OnlyLogin
    <2> QED  BY <2>1, <2>2 DEF InTime
  <1>5. ASSUME pc' = "login", typed' = Append(typed, "") PROVE AskingName'
    <2>1. typed' = <<"">>  BY <1>5, FewLines, Zenon DEF Refused
    <2> QED  BY <1>4, <1>5, <2>1, Zenon DEF AskingName, Refused
  <1> QED  BY <1>3, <1>5

LEMMA ReturnWelcomed ==
    ASSUME Types, Welcomed, NEW o \in Seq(Token), Return(o), InTime(o),
           wire' \in Seq(Token), Stream = o \o wire'
    PROVE  InShell'
  <1>1. ~Holds(o, "incorrect")  BY RestOf DEF Welcomed
  <1>2. AtPrompt(o)
    <2>1. CASE Matches(pc, o)  BY <1>1, <2>1 DEF Matches, Welcomed
    <2>2. CASE wire' = <<>>
      <3>1. o = Stream  BY <2>2, AllRead
      <3> QED  BY <3>1 DEF Welcomed
    <2> QED  BY <2>1, <2>2 DEF InTime
  <1>3. pc' = "exec" /\ typed' = typed  BY <1>2, Zenon DEF Return, Go, Welcomed
  <1>4. typed' = <<>>  BY <1>3 DEF Welcomed
  <1>5. NoSecret'  BY <1>4, HoldsFew DEF NoSecret, Holds
  <1> QED  BY <1>3, <1>5 DEF InShell, Inside

LEMMA ReturnInShell ==
    ASSUME Types, InShell, NEW o, Return(o)
    PROVE  InShell'
  <1>1. typed' = typed /\ pc' \in Inside  BY ReturnShape DEF InShell, Inside
  <1> QED  BY <1>1 DEF InShell, NoSecret

LEMMA ReturnTimely ==
    ASSUME ShellInv, Types', LoginPlace, NEW o \in Seq(Token), Return(o), InTime(o),
           wire' \in Seq(Token), Stream = o \o wire', UNCHANGED <<board, account>>
    PROVE  LoginPlace'
  <1>1. Types /\ BoardQuiet  BY DEF ShellInv
  <1>2. Stream' = wire'
    <2>1. out' = <<>>  BY <1>1, ReturnShape
    <2> QED  BY <2>1, ConcatEmptySeq DEF Stream
  <1>3. pc # "failed"  BY DEF Return
  <1>4. CASE Draining  BY <1>1, <1>2, <1>4, ReturnDraining DEF LoginPlace
  <1>5. CASE Looking  BY <1>1, <1>5, ReturnLooking DEF LoginPlace
  <1>6. CASE Waking  BY <1>1, <1>2, <1>6, ReturnWaking DEF LoginPlace
  <1>7. CASE AskingName  BY <1>1, <1>2, <1>7, ReturnAskingName DEF LoginPlace
  <1>8. CASE Missed  BY <1>1, <1>2, <1>8, ReturnMissed DEF LoginPlace
  <1>9. CASE Naming  BY <1>1, <1>9, ReturnNaming
  <1>10. CASE Asked  BY <1>1, <1>2, <1>10, ReturnAsked DEF LoginPlace
  <1>11. CASE Opened  BY <1>1, <1>2, <1>11, ReturnOpened DEF LoginPlace
  <1>12. CASE Answering  BY <1>1, <1>12, ReturnAnswering
  <1>13. CASE Refused  BY <1>1, <1>2, <1>13, ReturnRefused DEF LoginPlace
  <1>14. CASE Welcomed  BY <1>1, <1>14, ReturnWelcomed DEF LoginPlace
  <1>15. CASE InShell  BY <1>1, <1>15, ReturnInShell DEF LoginPlace
  <1>16. CASE GivenUp  BY <1>3, <1>16 DEF GivenUp
  <1> QED
    BY <1>4, <1>5, <1>6, <1>7, <1>8, <1>9, <1>10, <1>11, <1>12, <1>13, <1>14, <1>15, <1>16
    DEF LoginPlace

(***************************************************************************)
(* The board reads a line.                                                 *)
(***************************************************************************)
Reads(x) ==
    /\ typed' = Tail(typed) /\ UNCHANGED <<pc, out, try, account>>
    /\ ReadLogin(x) \/ ReadPassword(x) \/ ReadShell(x)

LEMMA OnlySecretIsMisread ==
    ASSUME NEW x, Reads(x), misread \cap Secret = {},
           x \in Secret => board = "password"
    PROVE  misread' \cap Secret = {}
  <1>1. x \in Secret => ~IsCmd(x)  BY LinesApart, Zenon DEF Secret, LoginLines
  <1>2. CASE x \in Secret
    <2>1. ReadPassword(x)
      BY <1>2 DEF Reads, ReadLogin, ReadPassword, ReadShell
    <2> QED  BY <1>1, <1>2, <2>1 DEF ReadPassword, Misread, IsCmd
  <1>3. CASE x \notin Secret
    BY <1>3 DEF Reads, ReadLogin, ReadPassword, ReadShell, Misread
  <1> QED  BY <1>2, <1>3

LEMMA EmptyLine == "" \notin Secret /\ ~IsCmd("") /\ "root" \notin Secret
  BY LinesApart, Zenon DEF Secret, LoginLines

LEMMA PromptEnds ==
    ASSUME NEW s \in Seq(Token), NEW u \in Seq(Token), AtPrompt(u) PROVE AtPrompt(s \o u)
  <1>1. /\ s \o u \in Seq(Token) /\ Len(s \o u) = Len(s) + Len(u)
        /\ Len(s) \in Nat /\ Len(u) \in Nat
        /\ \A i \in 1 .. Len(u) : (s \o u)[Len(s) + i] = u[i]
    BY Cut, LenProperties
  <1>2. PICK i \in 1 .. Len(u) - 1 : \/ u[i] = "~" /\ u[i + 1] = " #"
                                     \/ u[i] = " #" /\ u[i + 1] = " "
    BY PromptAt
  <1> DEFINE j == Len(s) + i
  <1>3. j \in 1 .. Len(s \o u) - 1 /\ j + 1 = Len(s) + (i + 1) /\ i + 1 \in 1 .. Len(u)
    BY <1>1
  <1>4. (s \o u)[j] = u[i] /\ (s \o u)[j + 1] = u[i + 1]  BY <1>1, <1>3
  <1> HIDE DEF j
  <1> QED  BY <1>1, <1>2, <1>3, <1>4, PromptAt

LEMMA PromptIsOne ==
    /\ AtPrompt(Prompt) /\ AtPrompt(<<"hash">> \o Prompt)
    /\ \A t : Holds(Prompt, t) => t \in {"~", " #", " "}
    /\ \A t : Holds(<<"hash">> \o Prompt, t) => t \in {"hash", "~", " #", " "}
  <1>1. /\ Prompt \in Seq(Token) /\ Len(Prompt) = 3
        /\ Prompt[1] = "~" /\ Prompt[2] = " #" /\ Prompt[3] = " "
    BY PrintedTokens DEF Prompt
  <1>2. AtPrompt(Prompt)
    <2>1. 1 \in 1 .. Len(Prompt) - 1 /\ 1 + 1 = 2
      <3>1. Len(Prompt) = 3  BY PrintedTokens
      <3> QED  BY <3>1
    <2>2. Prompt[1] = "~" /\ Prompt[1 + 1] = " #"  BY <1>1, <2>1, Zenon
    <2> QED  BY <1>1, <2>1, <2>2, PromptAt, Zenon
  <1>3. <<"hash">> \in Seq(Token)  BY DEF Token
  <1>4. AtPrompt(<<"hash">> \o Prompt)  BY <1>1, <1>2, <1>3, PromptEnds
  <1>5. \A t : Holds(Prompt, t) => t \in {"~", " #", " "}
    <2> SUFFICES ASSUME NEW t, Holds(Prompt, t) PROVE t \in {"~", " #", " "}  OBVIOUS
    <2>1. PICK i \in 1 .. 3 : Prompt[i] = t  BY <1>1, HoldsAt
    <2>2. i = 1 \/ i = 2 \/ i = 3  OBVIOUS
    <2> QED  BY <1>1, <2>1, <2>2
  <1>6. \A t : Holds(<<"hash">> \o Prompt, t) => t \in {"hash", "~", " #", " "}
    <2> SUFFICES ASSUME NEW t, Holds(<<"hash">> \o Prompt, t)
                 PROVE  t \in {"hash", "~", " #", " "}
      OBVIOUS
    <2>1. Holds(<<"hash">>, t) \/ Holds(Prompt, t)  BY <1>1, <1>3, RestOf
    <2> QED  BY <1>5, <2>1, HoldsFew
  <1> QED  BY <1>2, <1>4, <1>5, <1>6

LEMMA ReadsWaking ==
    ASSUME Types, Waking, typed # <<>>, NEW x, x = Head(typed), Reads(x)
    PROVE  Waking' /\ x \notin Secret
  <1>1. x = "" /\ typed' \in {<<>>, <<"">>}
    <2>1. typed = <<"", "">> \/ typed = <<"">>  BY DEF Waking
    <2>2. typed' = Tail(typed)  BY Zenon DEF Reads
    <2>3. CASE typed = <<"", "">>  BY <2>2, <2>3, FewLines, Zenon
    <2>4. CASE typed = <<"">>  BY <2>2, <2>4, FewLines, Zenon
    <2> QED  BY <2>1, <2>3, <2>4, Zenon
  <1>2. typed # <<"", "">> => board \in {"login", "shell"}  BY DEF Waking
  <1>3. pc' = "drain2" /\ try' = 0  BY DEF Waking, Reads
  <1>4. CASE board = "login"
    <2>1. ReadLogin(x)  BY <1>4 DEF Reads, ReadPassword, ReadShell
    <2>2. board' = "login"
      <3>1. x # "root"  BY <1>1
      <3> QED  BY <1>1, <1>4, <2>1, <3>1, Zenon DEF ReadLogin
    <2> QED  BY <1>1, <1>3, <2>2, EmptyLine, Zenon DEF Waking
  <1>5. CASE board = "password"
    <2>1. ReadPassword(x)  BY <1>5 DEF Reads, ReadLogin, ReadShell
    <2>2. board' = "login"  BY <1>1, <2>1, EmptyLine, Zenon DEF ReadPassword
    <2> QED  BY <1>1, <1>3, <2>2, EmptyLine, Zenon DEF Waking
  <1>6. CASE board = "shell"
    <2>1. ReadShell(x)  BY <1>6 DEF Reads, ReadLogin, ReadPassword
    <2>2. board' = "shell" /\ Prints(Prompt) /\ out' = out
      BY <1>1, <1>6, <2>1, EmptyLine, Zenon DEF ReadShell, Reads
    <2>3. Stream \in Seq(Token) /\ Stream' = Stream \o Prompt
      BY <2>2, Printed, PrintedTokens
    <2>4. AtPrompt(Stream')  BY <2>3, PromptEnds, PrintedTokens, PromptIsOne
    <2>5. AtPrompt(Stream)'  BY <2>4 DEF AtPrompt
    <2> QED  BY <1>1, <1>3, <2>2, <2>5, EmptyLine, Zenon DEF Waking
  <1>7. board \in {"login", "password", "shell"}  BY DEF Waking
  <1> QED  BY <1>4, <1>5, <1>6, <1>7

LEMMA ReadsAskingName ==
    ASSUME Types, AskingName, typed # <<>>, NEW x, x = Head(typed), Reads(x)
    PROVE  AskingName' /\ x \notin Secret
  <1>1. x = "" /\ typed' = <<>>
    <2>1. typed = <<"">>  BY DEF AskingName
    <2> QED  BY <2>1, FewLines, Zenon DEF Reads
  <1>2. ReadLogin(x)  BY DEF AskingName, Reads, ReadPassword, ReadShell
  <1>3. board' = "login" /\ Prints(<<"login:">>) /\ out' = out /\ pc' = pc
    <2>1. x # "root"  BY <1>1
    <2> QED  BY <1>1, <1>2, <2>1, Zenon DEF ReadLogin, AskingName, Reads
  <1>4. \A t : Holds(Stream', t) <=> Holds(Stream, t) \/ Holds(<<"login:">>, t)
    BY <1>3, Printed, PrintedTokens
  <1>5. OnlyLogin'  BY <1>4, HoldsFew DEF OnlyLogin, AskingName, Holds
  <1>6. Stream' # <<>>
    <2>1. Holds(Stream', "login:")  BY <1>4, HoldsFew
    <2> QED  BY <2>1, HoldsFew
  <1> QED  BY <1>1, <1>3, <1>5, <1>6, EmptyLine, Zenon DEF AskingName

LEMMA TailRange ==
    ASSUME NEW t \in Seq(Line), t # <<>>
    PROVE  Range(Tail(t)) \subseteq Range(t) /\ Head(t) \in Range(t)
  <1>1. PICK m \in Seq(Line) :
          /\ m = Tail(t) /\ Len(m) = Len(t) - 1
          /\ \A i \in 1 .. Len(m) : m[i] = t[i + 1]
    BY HeadTailProperties, Zenon
  <1>2. Len(m) = Len(t) - 1 /\ \A i \in 1 .. Len(m) : m[i] = t[i + 1]  BY <1>1, Zenon
  <1>3. Len(t) \in Nat /\ Len(t) # 0 /\ DOMAIN t = 1 .. Len(t) /\ DOMAIN m = 1 .. Len(m)
    BY LenProperties, EmptySeq
  <1>4. Range(m) \subseteq Range(t)
    <2> SUFFICES ASSUME NEW i \in 1 .. Len(m) PROVE m[i] \in Range(t)
      BY <1>3 DEF Range
    <2>1. i + 1 \in 1 .. Len(t) /\ m[i] = t[i + 1]  BY <1>2, <1>3
    <2> QED  BY <1>3, <2>1 DEF Range
  <1>5. Head(t) = t[1] /\ 1 \in 1 .. Len(t)  BY <1>3
  <1>6. Head(t) \in Range(t)  BY <1>3, <1>5 DEF Range
  <1> QED  BY <1>1, <1>4, <1>6, Zenon

LEMMA ReadsMissed ==
    ASSUME Types, Missed, typed # <<>>, NEW x, x = Head(typed), Reads(x)
    PROVE  Missed' /\ x \notin Secret
  <1>1. typed \in Seq(Line)  BY DEF Types
  <1>2. x = "" /\ Range(typed') \subseteq {""}
    BY <1>1, TailRange, Zenon DEF Missed, Reads
  <1>3. ReadShell(x)  BY DEF Missed, Reads, ReadPassword, ReadLogin
  <1>4. board' = "shell" /\ Prints(Prompt) /\ out' = out /\ pc' = pc /\ account' = account
    BY <1>2, <1>3, EmptyLine, Zenon DEF ReadShell, Missed, Reads
  <1>5. Holds(Stream', "login:") <=> Holds(Stream, "login:") \/ Holds(Prompt, "login:")
    BY <1>4, Printed, PrintedTokens
  <1>6. ~Holds(Prompt, "login:")
    <2>1. "login:" \notin {"~", " #", " "}  OBVIOUS
    <2> QED  BY <2>1, PromptIsOne, Zenon
  <1>7. ~Holds(Stream, "login:")'  BY <1>5, <1>6 DEF Missed, Holds
  <1> QED  BY <1>2, <1>4, <1>7, EmptyLine, Zenon DEF Missed

LEMMA LoginThen ==
    ASSUME NEW s \in Seq(Token), Range(s) \subseteq {"login:"}, NEW u \in Seq(Token)
    PROVE  /\ Len(s \o u) = Len(s) + Len(u) /\ Len(s) \in Nat /\ Len(u) \in Nat
           /\ \A i \in 1 .. Len(s) : (s \o u)[i] = "login:"
           /\ \A i \in 1 .. Len(u) : (s \o u)[Len(s) + i] = u[i]
           /\ ~Holds(u, "login:") =>
                \A i, j \in 1 .. Len(s \o u) :
                  i < j /\ (s \o u)[j] = "login:" => (s \o u)[i] = "login:"
  <1>1. /\ Len(s \o u) = Len(s) + Len(u) /\ Len(s) \in Nat /\ Len(u) \in Nat
        /\ \A i \in 1 .. Len(s) : (s \o u)[i] = s[i]
        /\ \A i \in 1 .. Len(u) : (s \o u)[Len(s) + i] = u[i]
    BY Cut, LenProperties
  <1>2. \A i \in 1 .. Len(s) : s[i] = "login:"  BY LenProperties DEF Range
  <1>3. \A i \in 1 .. Len(s) : (s \o u)[i] = "login:"  BY <1>1, <1>2
  <1>4. ASSUME ~Holds(u, "login:"), NEW i \in 1 .. Len(s \o u), NEW j \in 1 .. Len(s \o u),
               i < j, (s \o u)[j] = "login:"
        PROVE  (s \o u)[i] = "login:"
    <2>1. CASE j <= Len(s)  BY <1>1, <1>3, <1>4, <2>1
    <2>2. CASE j > Len(s)
      <3>1. j - Len(s) \in 1 .. Len(u) /\ Len(s) + (j - Len(s)) = j  BY <1>1, <2>2
      <3>2. u[j - Len(s)] = "login:"  BY <1>1, <1>4, <3>1, Zenon
      <3> QED  BY <1>4, <3>1, <3>2, HoldsAt, Zenon
    <2> QED  BY <1>1, <2>1, <2>2
  <1> QED  BY <1>1, <1>3, <1>4

LEMMA ReadsNaming ==
    ASSUME Types, Naming, typed # <<>>, NEW x, x = Head(typed), Reads(x)
    PROVE  (Naming' \/ Asked' \/ Opened') /\ x \notin Secret
  <1>1. Types /\ ReadLogin(x) /\ out' = out /\ pc' = "user" /\ account' = account
    BY DEF Naming, Reads, ReadPassword, ReadShell
  <1>2. Stream \in Seq(Token) /\ Range(Stream) \subseteq {"login:"}
    BY ConcatProperties DEF Types, Stream, Naming, OnlyLogin
  <1>3. CASE typed = <<"", "root">>
    <2>1. x = "" /\ typed' = <<"root">>  BY <1>3, FewLines, Zenon DEF Reads
    <2>2. board' = "login" /\ Prints(<<"login:">>)
      <3>1. x # "root"  BY <2>1
      <3> QED  BY <1>1, <2>1, <3>1, Zenon DEF ReadLogin
    <2>3. \A t : Holds(Stream', t) <=> Holds(Stream, t) \/ Holds(<<"login:">>, t)
      BY <1>1, <2>2, Printed, PrintedTokens
    <2>4. OnlyLogin'  BY <1>2, <2>3, HoldsFew DEF OnlyLogin, Holds
    <2> QED  BY <1>1, <2>1, <2>2, <2>4, EmptyLine, Zenon DEF Naming
  <1>4. CASE typed = <<"root">>
    <2>1. x = "root" /\ typed' = <<>>  BY <1>4, FewLines, Zenon DEF Reads
    <2>2. x # ""  BY <2>1
    <2>3. x \notin Secret  BY <2>1, EmptyLine, Zenon
    <2>4. CASE account = "open"
      <3>1. board' = "shell" /\ Prints(<<"hash">> \o Prompt)
        BY <1>1, <2>1, <2>2, <2>4, Zenon DEF ReadLogin
      <3>2. PICK u \in Seq(Token) : u = <<"hash">> \o Prompt  BY PrintedTokens
      <3>3. ~Holds(u, "login:") /\ ~Holds(u, "Password:")
        <4>1. /\ "login:" \notin {"hash", "~", " #", " "}
              /\ "Password:" \notin {"hash", "~", " #", " "}
          OBVIOUS
        <4> QED  BY <3>2, <4>1, PromptIsOne, Zenon
      <3>4. Stream' = Stream \o u
            /\ \A t : Holds(Stream', t) <=> Holds(Stream, t) \/ Holds(u, t)
        BY <1>1, <3>1, <3>2, Printed
      <3>5. ~Holds(Stream', "Password:")
        <4>1. "Password:" \notin {"login:"}  OBVIOUS
        <4> QED  BY <1>2, <3>3, <3>4, <4>1, Zenon DEF Holds
      <3>6. \A i, j \in 1 .. Len(Stream') :
              i < j /\ Stream'[j] = "login:" => Stream'[i] = "login:"
        BY <1>2, <3>3, <3>4, LoginThen
      <3>7. account' # "password"  BY <1>1, <2>4
      <3> QED  BY <1>1, <2>1, <2>3, <3>1, <3>5, <3>6, <3>7, Zenon DEF Opened, Holds
    <2>5. CASE account # "open"
      <3>1. board' = "password" /\ Prints(<<"Password:">>)
        BY <1>1, <2>1, <2>2, <2>5, Zenon DEF ReadLogin
      <3>2. PICK u \in Seq(Token) : u = <<"Password:">>  BY PrintedTokens
      <3>3. Stream' = Stream \o u  BY <1>1, <3>1, <3>2, Printed
      <3>4. Len(u) = 1 /\ u[1] = "Password:"  BY <3>2
      <3>5. /\ Len(Stream') = Len(Stream) + 1 /\ Len(Stream) \in Nat
            /\ \A i \in 1 .. Len(Stream) : Stream'[i] = "login:"
            /\ Stream'[Len(Stream) + 1] = "Password:"
        BY <1>2, <3>3, <3>4, LoginThen
      <3>6. \A i \in 1 .. Len(Stream') :
              Stream'[i] = IF i = Len(Stream') THEN "Password:" ELSE "login:"
        <4> SUFFICES ASSUME NEW i \in 1 .. Len(Stream')
                     PROVE  Stream'[i] = IF i = Len(Stream') THEN "Password:" ELSE "login:"
          OBVIOUS
        <4>1. i \in 1 .. Len(Stream) \/ i = Len(Stream) + 1  BY <3>5
        <4>2. i \in 1 .. Len(Stream) => i # Len(Stream')  BY <3>5
        <4> QED  BY <3>5, <4>1, <4>2, Zenon
      <3>7. Stream' # <<>>  BY <3>5
      <3> QED  BY <1>1, <2>1, <2>3, <3>1, <3>6, <3>7, Zenon DEF Asked
    <2> QED  BY <2>4, <2>5
  <1> QED  BY <1>3, <1>4 DEF Naming

LEMMA ReadsAnswering ==
    ASSUME Types, Answering, NEW x, x = Head(typed), Reads(x)
    PROVE  (Welcomed' \/ Refused') /\ board = "password"
  <1>1. Types /\ ReadPassword(x) /\ out' = out /\ pc' = "pass" /\ account' = account
    BY DEF Answering, Reads, ReadLogin, ReadShell
  <1>2. x = "openEuler@2021" /\ typed' = <<>>
    BY FewLines, Zenon DEF Answering, Reads
  <1>3. x \in Secret  BY <1>2 DEF Secret
  <1>4. CASE account = "password"
    <2>1. board' = "shell" /\ Prints(<<"hash">> \o Prompt)
      BY <1>1, <1>3, <1>4, Zenon DEF ReadPassword
    <2>2. PICK u \in Seq(Token) : u = <<"hash">> \o Prompt  BY PrintedTokens
    <2>3. Stream \in Seq(Token) /\ Stream' = Stream \o u
      BY <1>1, <2>1, <2>2, Printed
    <2>4. Stream' = u  BY <2>2, <2>3, ConcatEmptySeq DEF Answering
    <2>5. ~Holds(u, "incorrect")
      <3>1. "incorrect" \notin {"hash", "~", " #", " "}  OBVIOUS
      <3> QED  BY <2>2, <3>1, PromptIsOne, Zenon
    <2>6. AtPrompt(u)  BY <2>2, PromptIsOne, Zenon
    <2>7. AtPrompt(Stream)'  BY <2>4, <2>6 DEF AtPrompt
    <2>8. ~Holds(Stream, "incorrect")'  BY <2>4, <2>5 DEF Holds
    <2> QED  BY <1>1, <1>2, <2>1, <2>7, <2>8, Zenon DEF Welcomed, Answering
  <1>5. CASE account # "password"
    <2>1. board' = "login" /\ Prints(<<"incorrect", "login:">>)
      BY <1>1, <1>3, <1>5, Zenon DEF ReadPassword
    <2>2. PICK u \in Seq(Token) : u = <<"incorrect", "login:">>  BY PrintedTokens
    <2>3. Stream \in Seq(Token) /\ Stream' = Stream \o u
      BY <1>1, <2>1, <2>2, Printed
    <2>4. Stream' = u  BY <2>2, <2>3, ConcatEmptySeq DEF Answering
    <2> QED  BY <1>1, <1>2, <1>5, <2>1, <2>2, <2>4, Zenon DEF Refused, Answering
  <1> QED  BY <1>4, <1>5 DEF Answering

LEMMA TypedNoSecret ==
    ASSUME Types, NoSecret, typed # <<>>, NEW x, x = Head(typed), Reads(x)
    PROVE  NoSecret' /\ x \notin Secret
  <1>1. typed \in Seq(Line)  BY DEF Types
  <1>2. Range(typed') \subseteq Range(typed) /\ x \in Range(typed)
    BY <1>1, TailRange, Zenon DEF Reads
  <1> QED  BY <1>2 DEF NoSecret

LEMMA BoardReadsTimely ==
    ASSUME ShellInv, LoginPlace, misread \cap Secret = {}, BoardReads
    PROVE  misread' \cap Secret = {} /\ LoginPlace'
  <1>1. Types /\ typed # <<>>  BY DEF ShellInv, BoardReads
  <1>2. PICK x : x = Head(typed)  OBVIOUS
  <1>3. Reads(x)  BY <1>2, Zenon DEF Reads, BoardReads, host
  <1>4. CASE Waking  BY <1>1, <1>2, <1>3, <1>4, ReadsWaking, OnlySecretIsMisread DEF LoginPlace
  <1>5. CASE AskingName
    BY <1>1, <1>2, <1>3, <1>5, ReadsAskingName, OnlySecretIsMisread DEF LoginPlace
  <1>6. CASE Missed  BY <1>1, <1>2, <1>3, <1>6, ReadsMissed, OnlySecretIsMisread DEF LoginPlace
  <1>7. CASE Naming  BY <1>1, <1>2, <1>3, <1>7, ReadsNaming, OnlySecretIsMisread DEF LoginPlace
  <1>8. CASE Answering
    BY <1>1, <1>2, <1>3, <1>8, ReadsAnswering, OnlySecretIsMisread DEF LoginPlace
  <1>9. CASE InShell
    <2>1. NoSecret' /\ x \notin Secret
      BY <1>1, <1>2, <1>3, <1>9, TypedNoSecret DEF InShell
    <2>2. pc' = pc  BY <1>3 DEF Reads
    <2> QED  BY <1>3, <1>9, <2>1, <2>2, OnlySecretIsMisread DEF LoginPlace, InShell
  <1>10. CASE GivenUp
    <2>1. NoSecret' /\ x \notin Secret
      BY <1>1, <1>2, <1>3, <1>10, TypedNoSecret DEF GivenUp
    <2>2. pc' = pc /\ account' = account  BY <1>3 DEF Reads
    <2> QED  BY <1>3, <1>10, <2>1, <2>2, OnlySecretIsMisread DEF LoginPlace, GivenUp
  <1> QED
    BY <1>1, <1>4, <1>5, <1>6, <1>7, <1>8, <1>9, <1>10
    DEF LoginPlace, Draining, Looking, Asked, Opened, Refused, Welcomed

LEMMA TimelyNext == ShellInv /\ Timely /\ [Next]_vars => Timely'
  <1> SUFFICES ASSUME ShellInv, Timely, [Next]_vars, ~late'
               PROVE  misread' \cap Secret = {} /\ LoginPlace'
    BY DEF Timely
  <1>1. Types /\ Types'
    <2>1. Types  BY DEF ShellInv
    <2> QED  BY <2>1, TypesNext
  <1>2. ~late
    <2>1. Timeout => late' = (late \/ ~Silent)  BY DEF Timeout
    <2>2. Receive \/ TypeCmd \/ Board \/ UNCHANGED vars => late' = late
      BY DEF Receive, TypeCmd, Board, BoardReads, CmdEnds, vars
    <2> QED  BY <2>1, <2>2 DEF Next, Host
  <1>3. LoginPlace /\ misread \cap Secret = {}  BY <1>2 DEF Timely
  <1>4. ASSUME UNCHANGED <<pc, typed, board, account, try, misread>>, Stream' = Stream
        PROVE  misread' \cap Secret = {} /\ LoginPlace'
    BY <1>3, <1>4
    DEF LoginPlace, Draining, Looking, Waking, AskingName, Missed, Naming, Asked, Opened,
        Answering, Refused, Welcomed, InShell, GivenUp, NoSecret, OnlyLogin, AtPrompt, Holds
  <1>5. CASE Receive
    <2>1. PICK n \in 1 .. Len(wire) :
            LET o == out \o SubSeq(wire, 1, n)
            IN  /\ wire' = SubSeq(wire, n + 1, Len(wire))
                /\ IF Matches(pc, o) THEN Return(o)
                   ELSE out' = o /\ UNCHANGED <<pc, typed, try>>
      BY <1>5 DEF Receive
    <2>2. UNCHANGED <<board, account, misread>>  BY <1>5 DEF Receive
    <2>3. CASE /\ Matches(pc, out \o SubSeq(wire, 1, n))
               /\ Return(out \o SubSeq(wire, 1, n))
      <3>1. /\ out \o SubSeq(wire, 1, n) \in Seq(Token) /\ wire' \in Seq(Token)
            /\ Stream = (out \o SubSeq(wire, 1, n)) \o wire'
        BY <1>1, <2>1, Piece
      <3>2. InTime(out \o SubSeq(wire, 1, n))  BY <2>3 DEF InTime
      <3> QED  BY <1>1, <1>3, <2>2, <2>3, <3>1, <3>2, ReturnTimely
    <2>4. CASE out' = out \o SubSeq(wire, 1, n) /\ UNCHANGED <<pc, typed, try>>
      <3>1. Stream' = Stream  BY <1>1, <2>1, <2>4, ReadsOn
      <3> QED  BY <1>4, <2>2, <2>4, <3>1
    <2> QED  BY <2>1, <2>3, <2>4
  <1>6. CASE Timeout
    <2>1. /\ out \in Seq(Token) /\ wire' \in Seq(Token) /\ Stream = out \o wire'
          /\ Return(out) /\ UNCHANGED <<board, account, misread>>
      BY <1>1, <1>6 DEF Types, Timeout, Stream
    <2>2. typed = <<>> /\ wire' = <<>>  BY <1>6 DEF Timeout, Silent
    <2>3. InTime(out)  BY <2>2 DEF InTime
    <2> QED  BY <1>1, <1>3, <2>1, <2>3, ReturnTimely
  <1>7. CASE TypeCmd
    <2>1. pc = "exec" /\ UNCHANGED misread  BY <1>7 DEF TypeCmd
    <2>2. NoSecret
      BY <1>3, <2>1
      DEF LoginPlace, Draining, Looking, Waking, AskingName, Missed, Naming, Asked, Opened,
          Answering, Refused, Welcomed, InShell, GivenUp
    <2>3. PICK y \in Line : /\ y \notin Secret /\ typed' = Append(typed, y)
                            /\ pc' \in {"output", "last"}
      <3>1. CASE sent < Len(Cmds)
        <4>1. sent + 1 \in 1 .. Len(Cmds)  BY <1>1, <3>1, CmdLines DEF Types
        <4>2. Cmds[sent + 1] \in Line /\ IsCmd(Cmds[sent + 1])  BY <4>1, CmdLines
        <4>3. Cmds[sent + 1] \notin Secret
          BY <4>2, LinesApart, Zenon DEF Secret, LoginLines
        <4>4. typed' = Append(typed, Cmds[sent + 1]) /\ pc' = "output"
          BY <1>7, <3>1, Zenon DEF TypeCmd, Type
        <4> QED  BY <4>2, <4>3, <4>4, Zenon
      <3>2. CASE ~(sent < Len(Cmds))
        <4>1. typed' = Append(typed, "") /\ pc' = "last"
          BY <1>7, <3>2, Zenon DEF TypeCmd, Type
        <4>2. "" \in Line  BY LinesApart, Zenon DEF LoginLines
        <4> QED  BY <4>1, <4>2, EmptyLine, Zenon
      <3> QED  BY <3>1, <3>2
    <2>4. typed \in Seq(Line)  BY <1>1 DEF Types
    <2>5. Range(typed') = Range(typed) \cup {y}  BY <2>3, <2>4, AppendRange, Zenon
    <2>6. NoSecret'  BY <2>2, <2>3, <2>5, Zenon DEF NoSecret
    <2>7. InShell'  BY <2>3, <2>6 DEF InShell, Inside
    <2> QED  BY <1>3, <2>1, <2>7 DEF LoginPlace
  <1>8. CASE BoardReads  BY <1>3, <1>8, BoardReadsTimely
  <1>9. CASE CmdEnds
    <2>1. board = "running" /\ UNCHANGED <<pc, typed, account, misread>>
      BY <1>9 DEF CmdEnds, host
    <2>2. InShell \/ GivenUp
      BY <1>3, <2>1
      DEF LoginPlace, Draining, Looking, Waking, AskingName, Missed, Naming, Asked, Opened,
          Answering, Refused, Welcomed
    <2> QED  BY <1>3, <2>1, <2>2 DEF LoginPlace, InShell, GivenUp, NoSecret
  <1>10. CASE UNCHANGED vars
    <2>1. Stream' = Stream  BY <1>10 DEF vars, host, Stream
    <2> QED  BY <1>4, <1>10, <2>1 DEF vars, host
  <1> QED  BY <1>5, <1>6, <1>7, <1>8, <1>9, <1>10 DEF Next, Host, Board

LEMMA TimelyInvariant == Spec => []Timely
  <1>1. Init => Timely
    BY DEF Init, Timely, LoginPlace, Draining
  <1> QED  BY <1>1, TimelyNext, ShellInvariant, PTL DEF Spec

(***************************************************************************)
(* login: as long as the board answers before the timeouts, the password   *)
(* is read by the password prompt only, whatever the pieces the answers    *)
(* are cut into.                                                           *)
(***************************************************************************)
THEOREM SerialPasswordOnlyAtPrompt == Spec => []PasswordOnlyAtPrompt
  <1>1. Timely => PasswordOnlyAtPrompt  BY DEF Timely, PasswordOnlyAtPrompt
  <1> QED  BY <1>1, TimelyInvariant, PTL

(***************************************************************************)
(* login returns False only after a late answer, or if root does not log   *)
(* in with the password it types.                                          *)
(***************************************************************************)
THEOREM SerialLoginFailsOnlyLate == Spec => []LoginFailsOnlyLate
  <1>1. Timely => LoginFailsOnlyLate
    BY DEF Timely, LoginFailsOnlyLate, LoginPlace, Draining, Looking, Waking, AskingName,
           Missed, Naming, Asked, Opened, Answering, Refused, Welcomed, InShell, GivenUp,
           Inside
  <1> QED  BY <1>1, TimelyInvariant, PTL
=============================================================================
