------------------------------- MODULE Shell -------------------------------
(***************************************************************************)
(* The shell (shell/shell.c) and the processes it makes for commands.  It  *)
(* opens the files a command's input and output are redirected to, gives   *)
(* them to the process and, unless it is to run in the background, awaits  *)
(* the message that says it has ended.  Ending is kill: it sends that      *)
(* message, closes the files and frees the process, and may lose the       *)
(* processor after each.  The first shell has a higher priority than the   *)
(* commands, those main makes when it has ended have the same.             *)
(***************************************************************************)
EXTENDS CommandLine, FiniteSets

CONSTANTS
  ShPid,        \* process ids for shells and commands, numbers
  ShFile,       \* pseudo devices for open files
  cmdtab,       \* names -> "command", "exit" or "kill"
  CONSOLE

ASSUME ShellAssumption == ShPid \subseteq Nat \ {0} /\ CONSOLE \notin ShFile

VARIABLES
  shell,        \* the shell: what it does, its id, its priority, the awaited child
  shmsg,        \* the message that waits for it, 0 if none
  command,      \* the processes of commands
  opened,       \* files that are open
  shline,       \* the line read last (ghost)
  shghost       \* [missed: the awaited message was refused,
                \*  leaked: files nobody will close, again: files closed a second time]

shvars == <<shell, shmsg, command, opened, shline, shghost>>

NoProcess == [at |-> "free"]
SHELL_PRIO    == 50
SHELL_CMDPRIO == 20

Shells(at, pid, prio, child) == [at |-> at, pid |-> pid, prio |-> prio, child |-> child]

ShellInit ==
  /\ \E pid \in ShPid : shell = Shells("reads", pid, SHELL_PRIO, 0)
  /\ shmsg = 0
  /\ command = [p \in ShPid |-> NoProcess]
  /\ opened = {}
  /\ shline = <<>>
  /\ shghost = [missed |-> FALSE, leaked |-> {}, again |-> FALSE]

Alive       == {p \in ShPid : command[p].at # "free"}
FreePids    == ShPid \ (Alive \cup {shell.pid})
ShellRuns   == shell.at \in {"reads", "waits"}
(* The files p has not closed yet.                                         *)
Holds(p)    == (CASE command[p].at = "free" -> {}
                  [] command[p].at \in {"runs", "sent"} -> {command[p].input, command[p].output}
                  [] command[p].at = "half" -> {command[p].output}) \ {CONSOLE}
-----------------------------------------------------------------------------
(* send(prparent, p): refused if a message waits already.  Parents that    *)
(* are not the shell there is now do not read messages.                    *)
Sends(p) ==
  LET told == ShellRuns /\ command[p].parent = shell.pid
  IN  /\ shmsg' = IF told /\ shmsg = 0 THEN p ELSE shmsg
      /\ shghost' = [shghost EXCEPT !.missed = @ \/ (told /\ shmsg # 0 /\ shell.child = p)]

(* Commands run when the shell has nothing to do or no higher priority.    *)
CommandsRun == shell.prio = SHELL_CMDPRIO \/ shell.at # "waits" \/ shmsg = 0

(* A command returns to userret, which calls kill; close may block.        *)
CommandEnds(p) ==
  /\ CommandsRun /\ command[p].at = "runs"
  /\ Sends(p)
  /\ command' = [command EXCEPT ![p].at = "sent"]
  /\ UNCHANGED <<shell, opened, shline>>

CommandCloses(p) ==
  /\ CommandsRun /\ command[p].at = "sent"
  /\ opened' = opened \ {command[p].input}
  /\ command' = [command EXCEPT ![p].at = "half"]
  /\ UNCHANGED <<shell, shmsg, shline, shghost>>

CommandKeepsOutput(p) ==
  /\ CommandsRun /\ command[p].at = "half"
  /\ command' = [command EXCEPT ![p] = NoProcess]
  /\ UNCHANGED <<shell, shmsg, opened, shline, shghost>>

CommandIsGone(p) ==
  /\ CommandsRun /\ command[p].at = "half"
  /\ opened' = opened \ {command[p].output}
  /\ command' = [command EXCEPT ![p] = NoProcess]
  /\ UNCHANGED <<shell, shmsg, shline, shghost>>
-----------------------------------------------------------------------------
(* shell exits, by the builtin, at the end of file or because it kills     *)
(* itself; main waits for that and makes another shell, if it can.         *)
ShellExits ==
  /\ shell.at = "reads"
  /\ shell' = [shell EXCEPT !.at = "exited", !.pid = 0]
  /\ shmsg' = 0
  /\ UNCHANGED <<command, opened, shghost>>

MainRecreates ==
  /\ shell.at = "exited"
  /\ IF FreePids = {} THEN shell' = [shell EXCEPT !.at = "gone"]
     ELSE \E pid \in FreePids : shell' = Shells("reads", pid, SHELL_CMDPRIO, 0)
  /\ UNCHANGED <<shmsg, command, opened, shline, shghost>>

(* xsh_kill: the number an argument spells, SYSERR if it spells none.      *)
Digits == <<"0", "1", "2", "3", "4", "5", "6", "7", "8", "9">>
Number(arg) ==
  LET value[i \in 0..Len(arg)] ==
        IF i = 0 THEN 0
        ELSE 10 * value[i - 1] + (CHOOSE d \in 1..10 : Digits[d] = arg[i]) - 1
  IN  IF \A i \in DOMAIN arg : \E d \in 1..10 : Digits[d] = arg[i] THEN value[Len(arg)]
      ELSE ShError

(* kill(p) by the shell, of a command that runs or that is ending already. *)
ShellKills(p) ==
  /\ LET told == command[p].parent = shell.pid /\ shmsg = 0
     IN  shmsg' = IF told THEN p ELSE shmsg
  /\ opened' = opened \ {command[p].input, command[p].output}
  /\ command' = [command EXCEPT ![p] = NoProcess]
  /\ shghost' = [shghost EXCEPT !.again =
                   @ \/ (command[p].at = "half" /\ command[p].input # CONSOLE)]
  /\ UNCHANGED shell

xsh_kill(args) ==
  LET pid == IF Len(args) = 2 THEN Number(args[2]) ELSE ShError
  IN  IF pid = shell.pid THEN ShellExits
      ELSE IF pid \in Alive THEN ShellKills(pid)
      ELSE UNCHANGED <<shell, shmsg, command, opened, shghost>>

(* open(NAMESPACE, name): another file, or an error.                       *)
Opens(name, open) == IF name = NoName THEN {CONSOLE} ELSE (ShFile \ open) \cup {ShError}

(* The process is made with its arguments and its files; messages before   *)
(* that are cleared, and it is resumed.                                    *)
SpawnKeepsMessage(c, input, output, pid) ==
  /\ opened' = opened \cup ({input, output} \ {CONSOLE})
  /\ command' = [command EXCEPT ![pid] =
       [at |-> "runs", parent |-> shell.pid, backgnd |-> c.backgnd,
        input |-> input, output |-> output]]
  /\ shmsg' = shmsg
  /\ shell' = IF c.backgnd THEN shell ELSE [shell EXCEPT !.at = "waits", !.child = pid]
  /\ shghost' = [shghost EXCEPT !.missed = FALSE]

Spawn(c, input, output, pid) ==
  /\ opened' = opened \cup ({input, output} \ {CONSOLE})
  /\ command' = [command EXCEPT ![pid] =
       [at |-> "runs", parent |-> shell.pid, backgnd |-> c.backgnd,
        input |-> input, output |-> output]]
  /\ shmsg' = 0
  /\ shell' = IF c.backgnd THEN shell ELSE [shell EXCEPT !.at = "waits", !.child = pid]
  /\ shghost' = [shghost EXCEPT !.missed = FALSE]

(* What was opened stays open when the next file cannot be opened, or the  *)
(* process cannot be made.                                                 *)
NotSpawned(left) ==
  /\ opened' = opened \cup left
  /\ shghost' = [shghost EXCEPT !.leaked = @ \cup left]
  /\ UNCHANGED <<shell, shmsg, command>>

Redirects(c) ==
  \E input \in Opens(c.name["<"], opened) :
    IF input = ShError THEN NotSpawned({})
    ELSE \E output \in Opens(c.name[">"], opened \cup {input}) :
           IF output = ShError THEN NotSpawned({input} \ {CONSOLE})
           ELSE IF FreePids = {} THEN NotSpawned({input, output} \ {CONSOLE})
           ELSE \E pid \in FreePids : Spawn(c, input, output, pid)

(* A line: nothing, an error, an unknown command, a builtin, which takes   *)
(* neither redirection nor &, or a command.                                *)
ShellReads(line) ==
  /\ shell.at = "reads"
  /\ shline' = line
  /\ LET c       == Parse(line)
         name    == StringAt(c.tokbuf, 0)
         plain   == ~c.backgnd /\ c.name["<"] = NoName /\ c.name[">"] = NoName
         known   == c.verdict = "run" /\ name \in DOMAIN cmdtab
         builtin == known /\ cmdtab[name] # "command"
     IN  IF ~known \/ (builtin /\ ~plain) THEN UNCHANGED <<shell, shmsg, command, opened, shghost>>
         ELSE CASE cmdtab[name] = "exit" -> ShellExits
                [] cmdtab[name] = "kill" -> xsh_kill(Addargs(c))
                [] cmdtab[name] = "command" -> Redirects(c)

(* receive, until the message is the child's.                              *)
ShellReceives ==
  /\ shell.at = "waits" /\ shmsg # 0
  /\ shmsg' = 0
  /\ shell' = IF shmsg = shell.child THEN [shell EXCEPT !.at = "reads", !.child = 0] ELSE shell
  /\ UNCHANGED <<command, opened, shline, shghost>>

ShellNext ==
  \/ \E p \in ShPid : CommandEnds(p) \/ CommandCloses(p) \/ CommandIsGone(p)
  \/ ShellReceives \/ MainRecreates
  \/ ShellExits /\ shline' = <<>>
-----------------------------------------------------------------------------
(* A shell that waits for a command (shell.c:302) will hear of its end:    *)
(* the command runs, or its message is there.  Only where commands have    *)
(* the shell's own priority can the message of one that ran in the         *)
(* background take the place of the awaited one (main.c:18).  And the      *)
(* prompt never comes while a command runs that was not to be in the       *)
(* background, whatever older messages and reused ids there are.           *)
ChildAwaited ==
  /\ shell.at = "waits" =>
       \/ command[shell.child].at = "runs" /\ command[shell.child].parent = shell.pid
       \/ shmsg = shell.child
       \/ shghost.missed /\ shell.prio = SHELL_CMDPRIO
  /\ shell.at # "waits" =>
       \A p \in Alive : command[p].at = "runs" => command[p].backgnd

(* A command's files are open until it closes them, and are no other's;    *)
(* no file is open for nobody, but those of commands that could not be     *)
(* made (shell.c:274, 292).  Until a process that is ending is killed once *)
(* more, when kill closes again what may be another's by now (kill.c:31).  *)
FilesHeld ==
  ~shghost.again =>
    /\ \A p \in Alive : Holds(p) \subseteq opened \ shghost.leaked
    /\ \A p, q \in Alive : p # q => Holds(p) \cap Holds(q) = {}
    /\ opened = shghost.leaked \cup UNION {Holds(p) : p \in Alive}

(* Every line read reaches its command as it was typed.                    *)
ArgsAsTyped == ArgsAsTypedIn(shline)
=============================================================================
