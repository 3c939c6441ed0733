---------------------------- MODULE TerminalPane ----------------------------
(***************************************************************************)
(* One pane of the Docker terminal, from the time it is shown until its    *)
(* tab is closed: a WebSocket to a shell, and the command mode the pane    *)
(* falls back to when the shell does not answer, in which the pane edits   *)
(* the line itself and executes it with one HTTP request per shell tried.  *)
(*                                                                         *)
(* A line is a sequence of characters; what is printed is left out.  Keys  *)
(* typed outside command mode go to the socket and change nothing here.    *)
(***************************************************************************)
EXTENDS Integers, Sequences, SequencesExt

CONSTANTS
    Chars,       \* the characters that are typed, Space among them
    Space,
    Clear,       \* the line that only clears the screen
    Dirs,        \* directories of the container
    Home,        \* the one its shells start in
    Root,        \* "/", which the pane assumes until it has asked
    Shells,      \* how many shells a command is tried in
    HistoryMax,  \* how many commands are remembered
    MaxLine,     \* bound: length of a line
    MaxKeys,     \* bound: keys pressed in command mode
    MaxErrors    \* bound: requests that end in an error

ASSUME DirsAssumption == Home \in Dirs /\ Root \in Dirs
ASSUME BoundsAssumption ==
    /\ Shells \in Nat \ {0} /\ HistoryMax \in Nat \ {0}
    /\ MaxLine \in Nat /\ MaxKeys \in Nat /\ MaxErrors \in Nat

VARIABLES
    shown,        \* the pane is mounted
    ws,           \* the browser's socket: "connecting", "open" or "closed"
    badge,        \* connectionStatus
    cmdMode,      \* fallbackModeRef
    output,       \* receivedOutput
    connTimer, promptTimer,     \* whether the timers are armed
    buf, cur,     \* the line and the cursor in it
    hist, idx, saved,           \* commands, newest first; the one recalled; the line before
    cwd,          \* shellCwdRef
    running,      \* fallbackRunningRef
    cmd,          \* the command being executed: the shell it is tried in, 0 if none
    tab,          \* the completion under way
    probe,        \* what enableFallbackMode is asking for, and in which shell
    keys, errors, \* how much of the bounds is used up
    left,         \* history: where the last command that answered left its shell
    raced,        \* history: a command answered before the pane knew its directory
    tardy         \* history: the socket opened after the prompt timer had fired

socketVars == <<ws, output, connTimer, promptTimer, tardy>>
lineVars == <<buf, cur>>
recallVars == <<hist, idx, saved>>
requestVars == <<running, cmd, tab, probe, errors>>
dirVars == <<cwd, left, raced>>
vars == <<shown, badge, cmdMode, socketVars, lineVars, recallVars, requestVars, dirVars, keys>>

-----------------------------------------------------------------------------
NoTab == [shell |-> 0, buf |-> <<>>, cur |-> 0]
NoProbe == [asks |-> "nothing", shell |-> 0]

Init ==
    /\ shown = TRUE
    /\ ws = "connecting" /\ badge = "connecting"
    /\ cmdMode = FALSE /\ output = FALSE
    /\ connTimer = TRUE /\ promptTimer = TRUE
    /\ buf = <<>> /\ cur = 0
    /\ hist = <<>> /\ idx = -1 /\ saved = <<>>
    /\ cwd = Root /\ running = FALSE
    /\ cmd = 0 /\ tab = NoTab /\ probe = NoProbe
    /\ keys = 0 /\ errors = 0
    /\ left = Home /\ raced = FALSE /\ tardy = FALSE

-----------------------------------------------------------------------------
(* The socket and its timers. *)

\* Command mode is entered once; the pane then asks who and where it is.
enableFallbackMode ==
    /\ cmdMode' = TRUE
    /\ IF cmdMode THEN UNCHANGED <<badge, probe>>
       ELSE badge' = "fallback" /\ probe' = [asks |-> "user", shell |-> 1]

OnOpen ==
    /\ ws = "connecting"
    /\ ws' = "open"
    /\ tardy' = ~ promptTimer
    /\ IF shown THEN badge' = "connected" /\ connTimer' = FALSE
       ELSE UNCHANGED <<badge, connTimer>>
    /\ UNCHANGED <<shown, cmdMode, output, promptTimer, lineVars, recallVars, requestVars, dirVars, keys>>

\* The shell prints something, in command mode too.
OnOutput ==
    /\ ws = "open" /\ shown
    /\ badge' = "connected"
    /\ output' = TRUE
    /\ promptTimer' = (promptTimer /\ output)
    /\ UNCHANGED <<shown, cmdMode, ws, connTimer, tardy, lineVars, recallVars, requestVars, dirVars, keys>>

\* The session's identifier, or the word that it is connected.
OnStatus ==
    /\ ws = "open" /\ shown
    /\ badge' = "connected"
    /\ UNCHANGED <<shown, cmdMode, socketVars, lineVars, recallVars, requestVars, dirVars, keys>>

\* The backend reports an error, or the end of the session; the badge that the first
\* line of the handler set stays if the pane is in command mode already.
OnRefused ==
    /\ ws = "open" /\ shown
    /\ cmdMode' = TRUE
    /\ IF cmdMode THEN badge' = "connected" /\ UNCHANGED probe
       ELSE badge' = "fallback" /\ probe' = [asks |-> "user", shell |-> 1]
    /\ UNCHANGED <<shown, socketVars, lineVars, recallVars, running, cmd, tab, errors, dirVars, keys>>

\* Mutation of OnClose: the badge is set by enableFallbackMode only.
OnCloseKeepsBadge ==
    /\ ws # "closed"
    /\ ws' = "closed"
    /\ connTimer' = FALSE
    /\ IF shown THEN enableFallbackMode ELSE UNCHANGED <<badge, cmdMode, probe>>
    /\ UNCHANGED <<shown, output, promptTimer, tardy, lineVars, recallVars, running, cmd, tab, errors, dirVars, keys>>

\* A socket that fails calls onerror, then onclose; one that ends calls onclose.
OnClose ==
    /\ ws # "closed"
    /\ ws' = "closed"
    /\ connTimer' = FALSE
    /\ IF ~ shown THEN UNCHANGED <<badge, cmdMode, probe>>
       ELSE /\ cmdMode' = TRUE
            /\ badge' = "fallback"
            /\ probe' = IF cmdMode THEN probe ELSE [asks |-> "user", shell |-> 1]
    /\ UNCHANGED <<shown, output, promptTimer, tardy, lineVars, recallVars, running, cmd, tab, errors, dirVars, keys>>

\* Mutation of PromptTimeout: a shell that prints nothing is waited for.
PromptTimeoutWaits ==
    /\ shown /\ promptTimer
    /\ promptTimer' = FALSE
    /\ UNCHANGED <<badge, cmdMode, probe>>
    /\ UNCHANGED <<shown, ws, output, connTimer, tardy, lineVars, recallVars, running, cmd, tab, errors, dirVars, keys>>

\* Four seconds after the pane was shown.
PromptTimeout ==
    /\ shown /\ promptTimer
    /\ promptTimer' = FALSE
    /\ IF ws = "open" /\ ~ output THEN enableFallbackMode
       ELSE UNCHANGED <<badge, cmdMode, probe>>
    /\ UNCHANGED <<shown, ws, output, connTimer, tardy, lineVars, recallVars, running, cmd, tab, errors, dirVars, keys>>

\* Eight seconds after; the socket is left as it is and may open yet.
ConnectionTimeout ==
    /\ shown /\ connTimer /\ ~ promptTimer
    /\ connTimer' = FALSE
    /\ IF ws # "open" THEN enableFallbackMode ELSE UNCHANGED <<badge, cmdMode, probe>>
    /\ UNCHANGED <<shown, ws, output, promptTimer, tardy, lineVars, recallVars, running, cmd, tab, errors, dirVars, keys>>

\* The tab is closed: a socket that is still connecting is not.
Cleanup ==
    /\ shown
    /\ shown' = FALSE
    /\ connTimer' = FALSE /\ promptTimer' = FALSE
    /\ ws' = IF ws = "open" THEN "closed" ELSE ws
    /\ cmdMode' = FALSE /\ running' = FALSE
    /\ buf' = <<>> /\ cur' = 0
    /\ UNCHANGED <<badge, output, tardy, recallVars, cmd, tab, probe, errors, dirVars, keys>>

-----------------------------------------------------------------------------
(* The line editor: one action per key. *)

Left(n) == SubSeq(buf, 1, n)
Right(n) == SubSeq(buf, n + 1, Len(buf))

\* A key in command mode.
Key ==
    /\ shown /\ cmdMode
    /\ keys < MaxKeys
    /\ keys' = keys + 1
    /\ UNCHANGED <<shown, badge, cmdMode, socketVars, probe, cmd, errors, dirVars>>

SetLine(line, at) == buf' = line /\ cur' = at

EditKey(line, at) ==
    /\ Key
    /\ SetLine(line, at)
    /\ UNCHANGED <<recallVars, running, tab>>

Type(c) ==
    Len(buf) < MaxLine /\ EditKey(Append(Left(cur), c) \o Right(cur), cur + 1)

\* The clipboard's text arrives at the cursor; its button is no key of the terminal.
pasteClipboard(text) ==
    Len(buf) + Len(text) <= MaxLine /\ EditKey(Left(cur) \o text \o Right(cur), cur + Len(text))

Backspace == cur > 0 /\ EditKey(Left(cur - 1) \o Right(cur), cur - 1)
Delete == cur < Len(buf) /\ EditKey(Left(cur) \o Right(cur + 1), cur)
ArrowLeft == cur > 0 /\ EditKey(buf, cur - 1)
ArrowRight == cur < Len(buf) /\ EditKey(buf, cur + 1)
HomeKey == cur > 0 /\ EditKey(buf, 0)
EndKey == cur < Len(buf) /\ EditKey(buf, Len(buf))
\* Mutation of CtrlU: the cursor stays where it was.
CtrlUKeepsCursor == cur > 0 /\ EditKey(Right(cur), cur)

CtrlU == cur > 0 /\ EditKey(Right(cur), 0)
CtrlK == cur < Len(buf) /\ EditKey(Left(cur), cur)

\* Where the word that ends before the cursor begins, the spaces behind it included.
WordStart ==
    LET inWord(n) == n > 0 /\ buf[n] # Space
        wordEnd == Max({0} \cup {n \in 1..cur : inWord(n)})
    IN  Max({0} \cup {n \in 1..wordEnd : ~ inWord(n)})

CtrlW == cur > 0 /\ EditKey(Left(WordStart) \o Right(cur), WordStart)

\* The commands before, and the line that was being typed when the first was recalled.
ArrowUp ==
    LET to == Min({idx + 1, Len(hist) - 1})
    IN  /\ hist # <<>>
        /\ Key
        /\ saved' = IF idx = -1 THEN buf ELSE saved
        /\ idx' = to
        /\ SetLine(hist[to + 1], Len(hist[to + 1]))
        /\ UNCHANGED <<hist, running, tab>>

ArrowDown ==
    LET text == IF idx = 0 THEN saved ELSE hist[idx]
    IN  /\ idx # -1
        /\ Key
        /\ idx' = idx - 1
        /\ SetLine(text, Len(text))
        /\ UNCHANGED <<hist, saved, running, tab>>

\* The line is dropped; a command that runs is not.
CtrlC ==
    /\ Key
    /\ SetLine(<<>>, 0)
    /\ idx' = -1
    /\ UNCHANGED <<hist, saved, running, tab>>

Trimmed(line) ==
    LET inked == {n \in DOMAIN line : line[n] # Space}
    IN  IF inked = {} THEN <<>> ELSE SubSeq(line, Min(inked), Max(inked))

\* A command is remembered, once if it repeats the one before.
Remembered(c) ==
    IF hist # <<>> /\ Head(hist) = c THEN hist
    ELSE SubSeq(<<c>> \o hist, 1, Min({Len(hist) + 1, HistoryMax}))

\* Enter.  A command that is entered while another one runs is remembered and dropped.
runFallbackCommand ==
    LET c == Trimmed(buf)
    IN  /\ shown /\ cmdMode
        /\ keys < MaxKeys
        /\ keys' = keys + 1
        /\ SetLine(<<>>, 0)
        /\ IF c \in {<<>>, Clear} THEN UNCHANGED <<recallVars, running, cmd>>
           ELSE /\ hist' = Remembered(c)
                /\ idx' = -1
                /\ saved' = <<>>
                /\ running' = TRUE
                /\ cmd' = IF running THEN cmd ELSE 1
        /\ UNCHANGED <<shown, badge, cmdMode, socketVars, tab, probe, errors, dirVars>>

\* Tab: the word before the cursor is looked up in the container (bound: one at a time).
handleTabComplete ==
    /\ Key
    /\ cur > 0 /\ buf[cur] # Space
    /\ tab.shell = 0
    /\ tab' = [shell |-> 1, buf |-> buf, cur |-> cur]
    /\ UNCHANGED <<lineVars, recallVars, running>>

-----------------------------------------------------------------------------
(* Answers.  execShell tries one shell after another until one does not fail. *)

\* A request fails in shell k: the next one, or 0 when there is none left.
NextShell(k) == IF k < Shells THEN k + 1 ELSE 0

Fails ==
    /\ errors < MaxErrors
    /\ errors' = errors + 1

\* The command answers, with the directory its shell was in at the end unless it ended
\* the shell; a new prompt takes the place of whatever was typed meanwhile.
CommandEnds ==
    /\ running' = FALSE
    /\ cmd' = 0
    /\ SetLine(<<>>, 0)

\* Mutation of CommandAnswers: the directory is not kept for the next command.
CommandAnswersForgets ==
    /\ cmd # 0
    /\ CommandEnds
    /\ \/ UNCHANGED dirVars
       \/ \E d \in Dirs : left' = d /\ UNCHANGED <<cwd, raced>>
    /\ UNCHANGED <<shown, badge, cmdMode, socketVars, recallVars, tab, probe, errors, keys>>

CommandAnswers ==
    /\ cmd # 0
    /\ CommandEnds
    /\ \/ UNCHANGED dirVars
       \/ \E d \in Dirs :
             cwd' = d /\ left' = d /\ raced' = (raced \/ probe.shell # 0)
    /\ UNCHANGED <<shown, badge, cmdMode, socketVars, recallVars, tab, probe, errors, keys>>

CommandFails ==
    /\ cmd # 0
    /\ Fails
    /\ IF NextShell(cmd) = 0 THEN CommandEnds
       ELSE cmd' = NextShell(cmd) /\ UNCHANGED <<lineVars, running>>
    /\ UNCHANGED <<shown, badge, cmdMode, socketVars, recallVars, tab, probe, dirVars, keys>>

\* One name is found: the line as it was when Tab was pressed takes the place of the
\* present one, with the name for its word.  None or several leave the line alone.
TabAnswers ==
    LET at == Max({0} \cup {n \in 1..tab.cur : tab.buf[n] = Space})
        rest == SubSeq(tab.buf, tab.cur + 1, Len(tab.buf))
    IN  /\ tab.shell # 0
        /\ tab' = NoTab
        /\ \/ UNCHANGED lineVars
           \/ \E n \in tab.cur..MaxLine, c \in Chars \ {Space} :
                 /\ n + Len(rest) <= MaxLine
                 /\ SetLine([k \in 1..n |-> IF k <= at THEN tab.buf[k] ELSE c] \o rest, n)
        /\ UNCHANGED <<shown, badge, cmdMode, socketVars, recallVars, running, cmd, probe, errors, dirVars, keys>>

TabFails ==
    /\ tab.shell # 0
    /\ Fails
    /\ tab' = IF NextShell(tab.shell) = 0 THEN NoTab ELSE [tab EXCEPT !.shell = NextShell(@)]
    /\ UNCHANGED <<shown, badge, cmdMode, socketVars, lineVars, recallVars, running, cmd, probe, dirVars, keys>>

\* The two questions of enableFallbackMode; the prompt comes after the second.
ProbeMoves ==
    IF probe.asks = "user"
    THEN probe' = [asks |-> "pwd", shell |-> 1] /\ UNCHANGED lineVars
    ELSE probe' = [asks |-> "done", shell |-> 0] /\ SetLine(<<>>, 0)

ProbeAnswers ==
    /\ probe.shell # 0
    /\ ProbeMoves
    /\ cwd' = IF probe.asks = "pwd" THEN Home ELSE cwd
    /\ UNCHANGED <<shown, badge, cmdMode, socketVars, recallVars, running, cmd, tab, errors, left, raced, keys>>

ProbeFails ==
    /\ probe.shell # 0
    /\ Fails
    /\ IF NextShell(probe.shell) = 0 THEN ProbeMoves
       ELSE probe' = [probe EXCEPT !.shell = NextShell(@)] /\ UNCHANGED lineVars
    /\ UNCHANGED <<shown, badge, cmdMode, socketVars, recallVars, running, cmd, tab, dirVars, keys>>

-----------------------------------------------------------------------------
Texts == {<<c, c>> : c \in Chars \ {Space}}

Next ==
    \/ OnOpen \/ OnOutput \/ OnStatus \/ OnRefused \/ OnClose
    \/ PromptTimeout \/ ConnectionTimeout \/ Cleanup
    \/ \E c \in Chars : Type(c)
    \/ \E t \in Texts : pasteClipboard(t)
    \/ Backspace \/ Delete \/ ArrowLeft \/ ArrowRight \/ HomeKey \/ EndKey
    \/ CtrlU \/ CtrlK \/ CtrlW \/ CtrlC \/ ArrowUp \/ ArrowDown
    \/ runFallbackCommand \/ handleTabComplete
    \/ CommandAnswers \/ CommandFails \/ TabAnswers \/ TabFails
    \/ ProbeAnswers \/ ProbeFails

\* Timers fire, and the two short questions are answered or fail; a command may run
\* for ever and a shell may never print anything.
Fairness ==
    /\ WF_vars(PromptTimeout)
    /\ WF_vars(ConnectionTimeout)
    /\ WF_vars(ProbeAnswers)

Spec == Init /\ [][Next]_vars /\ Fairness
-----------------------------------------------------------------------------
(* Properties. *)

Lines == UNION {[1..n -> Chars] : n \in 0..MaxLine}

FlagsOK ==
    /\ shown \in BOOLEAN /\ cmdMode \in BOOLEAN /\ output \in BOOLEAN /\ running \in BOOLEAN
    /\ connTimer \in BOOLEAN /\ promptTimer \in BOOLEAN /\ raced \in BOOLEAN /\ tardy \in BOOLEAN
    /\ ws \in {"connecting", "open", "closed"}
    /\ badge \in {"connecting", "connected", "fallback"}

LineOK == buf \in Lines /\ cur \in 0..Len(buf)

RecallOK ==
    /\ hist \in Seq(Lines \ {<<>>}) /\ Len(hist) <= HistoryMax
    /\ idx \in -1..(Len(hist) - 1)
    /\ saved \in Lines

RequestsOK ==
    /\ cmd \in 0..Shells
    /\ tab \in [shell : 0..Shells, buf : Lines, cur : Nat] /\ tab.cur <= Len(tab.buf)
    /\ probe \in [asks : {"nothing", "user", "pwd", "done"}, shell : 0..Shells]
    /\ cwd \in Dirs /\ left \in Dirs
    /\ keys \in Nat /\ errors \in Nat

\* The line editor's indices stay in range: the cursor in the line, the recalled
\* command among the remembered ones, which are no more than HistoryMax.
TypeOK == FlagsOK /\ LineOK /\ RecallOK /\ RequestsOK

\* What the shown pane indicates is true.  The running flag, which drops commands, is up
\* exactly while a command is under way: one that fails in every shell takes it down, and
\* nothing else does.  The badge says "live" only while the socket is open, whatever the
\* timers did before: onclose puts it right even in command mode.
IndicatorsTrue ==
    shown => /\ running <=> cmd # 0
             /\ badge = "connected" => ws = "open"

\* Once the pane has asked where it is, the next command starts in the directory the
\* last one ended in, unless a command answered while it was asking or nobody told.
DirKept == probe.asks = "done" => cwd = left \/ raced \/ (errors >= Shells /\ cwd = Root)

\* The questions of enableFallbackMode and what they wait for: nothing has been asked
\* while the shown pane is out of command mode, and no command runs before the first
\* question; one is under way exactly while a shell is being tried.
Probing ==
    /\ probe.shell = 0 <=> probe.asks \in {"nothing", "done"}
    /\ shown => (cmdMode <=> probe.asks # "nothing")
    /\ cmd # 0 => probe.asks # "nothing"

\* Until the second question ends, the pane and its shells are where they started unless
\* a command answered first, and every shell that was tried in vain is one error.
NotTold ==
    /\ probe.asks # "done" => raced \/ (cwd = Root /\ left = Home)
    /\ probe.asks = "pwd" => errors >= probe.shell - 1

\* The inductive invariant.
Inv == TypeOK /\ IndicatorsTrue /\ DirKept /\ Probing /\ NotTold

\* The prompt of command mode.
Ready == cmdMode /\ probe.asks = "done"

\* The socket opened after the prompt timer had fired, which nothing replaces.
Unheard == ws = "open" /\ tardy /\ ~ output /\ ~ cmdMode

\* The user gets a shell that prints, or the prompt of command mode, unless the socket
\* opens between the two timers; and after the socket is gone the prompt.
Responds ==
    /\ <>(output \/ Ready \/ Unheard \/ ~ shown)
    /\ ws = "closed" ~> (Ready \/ ~ shown)
=============================================================================
