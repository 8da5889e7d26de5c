----------------------------- MODULE SmashShell -----------------------------
(***************************************************************************)
(* The command loop of the smash shell, hw1/wet/skeleton_smash: reading a  *)
(* line, finding out what kind of command it is, and the built-in commands *)
(* that change the shell itself or end it (Commands.cpp, smash.cpp).       *)
(* SmashJobs has the jobs list; here a job is a number.                    *)
(*                                                                         *)
(* A line is the sequence of the commands between its | signs; a command   *)
(* has a name, arguments, and perhaps a > to a file.  A line fits into the *)
(* buffers of the shell.                                                   *)
(***************************************************************************)
EXTENDS Integers, Sequences, FiniteSets

CONSTANTS
    Dirs, Home,         \* the directories, and the one the shell starts in
    Length(_),          \* the number of characters of a directory's path
    PATH_MAX_LENGHT,    \* the size of the buffers for paths
    Lines,              \* the lines the user types
    Numbers,            \* the value of each word that is a number
    Huge,               \* the words that are numbers too large for an int
    Jobs, Cores,        \* the ids in the jobs list, and get_nprocs()
    Files

ASSUME DirsAssumption ==
    /\ Home \in Dirs /\ \A d \in Dirs : Length(d) \in Nat
    /\ PATH_MAX_LENGHT \in Nat

(* What a Command object holds of its line: the words of argv, the first   *)
(* of them the name, without a background sign, "" when there are only     *)
(* blanks; and where the output goes, "cut" when nothing follows the last  *)
(* > or | of the command.                                                  *)
Args == Seq(STRING)
Command == [name : STRING, args : Args, to : {"out", "file", "cut"}]

ASSUME LinesAssumption == Lines \subseteq Seq(Command) \ {<<>>}
ASSUME NumbersAssumption ==
    DOMAIN Numbers \cap Huge = {} /\ Jobs \subseteq Nat /\ Cores \in Nat

VARIABLES
    dirs,         \* the directories that exist
    cwd,
    last_path, hasLastPath,
    spare,        \* what the last byte of last_path's buffer held: it is a
                  \* terminator or not, and is never written
    prompt,
    affinity,     \* the core each job was set to, -1 for any
    mode,         \* the mode each file was set to, -1 for the one it had
    line,         \* the line that ended the shell
    shell         \* "running", "spinning" at the end of its input, or how it
                  \* has ended: "quit", "killed" or "crashed"

pathVars == <<cwd, last_path, hasLastPath>>
vars == <<dirs, cwd, last_path, hasLastPath, spare, prompt, affinity, mode,
          line, shell>>

(* SmallShell::SmallShell().                                               *)
Init ==
    /\ dirs = Dirs /\ cwd = Home
    /\ last_path = Home /\ hasLastPath = FALSE /\ spare \in BOOLEAN
    /\ prompt = "smash"
    /\ affinity = [j \in Jobs |-> -1]
    /\ mode = [f \in Files |-> -1]
    /\ line = <<>> /\ shell = "running"

-----------------------------------------------------------------------------
(* The built-in commands.                                                  *)

Refused == UNCHANGED <<pathVars, prompt, affinity, mode, shell>>
Ends(how) == shell' = how /\ UNCHANGED <<pathVars, prompt, affinity, mode>>

(* pwd, showpid and getfiletype only print.                                *)
Printing == {"pwd", "showpid", "getfiletype"}
Prints == UNCHANGED <<pathVars, prompt, affinity, mode, shell>>

ChangePrompt(args) ==
    /\ prompt' = IF args = <<>> THEN "smash" ELSE args[1]
    /\ UNCHANGED <<pathVars, affinity, mode, shell>>

(* Mutated forms, here and below, are definitions that no action uses: a   *)
(* bug that would break one of the properties.                             *)
GetcwdOneMore == cwd \in dirs /\ Length(cwd) + 1 <= PATH_MAX_LENGHT + 1

(* getcwd with a buffer of PATH_MAX_LENGHT bytes.                          *)
Getcwd == cwd \in dirs /\ Length(cwd) + 1 <= PATH_MAX_LENGHT

(* last_path as a string: strncpy copies at most PATH_MAX_LENGHT - 1 bytes *)
(* and then writes no terminator.                                          *)
Terminated == Length(last_path) < PATH_MAX_LENGHT - 1 \/ spare

(* The directory cd is to change to can be entered.                        *)
Chdir(arg, to) ==
    /\ to \in dirs
    /\ IF arg = "-" THEN hasLastPath /\ to = last_path /\ Terminated
                    ELSE to = arg

(* cd without an argument compares a null pointer with "-".                *)
ChangeDirCommand(args) ==
    \/ Len(args) > 1 /\ Refused
    \/ args = <<>> /\ Ends("crashed")
    \/ /\ Len(args) = 1
       /\ ~(Getcwd /\ \E to \in Dirs : Chdir(args[1], to))
       /\ Refused
    \/ /\ Len(args) = 1 /\ Getcwd
       /\ \E to \in Dirs : Chdir(args[1], to) /\ cwd' = to
       /\ last_path' = cwd /\ hasLastPath' = TRUE
       /\ UNCHANGED <<prompt, affinity, mode, shell>>

IsNumber(word) == word \in DOMAIN Numbers
Values == {Numbers[w] : w \in DOMAIN Numbers}

(* The command sets the job with id j to the core n, or the file f to the  *)
(* mode n: its arguments are right, and n is in range.                     *)
SetsCore(cmd, j, n) ==
    /\ cmd.name = "setcore" /\ Len(cmd.args) = 2
    /\ IsNumber(cmd.args[1]) /\ j = Numbers[cmd.args[1]]
    /\ IsNumber(cmd.args[2]) /\ n = Numbers[cmd.args[2]] /\ n \in 0..(Cores - 1)

SetsMode(cmd, f, n) ==
    /\ cmd.name = "chmod" /\ Len(cmd.args) = 2
    /\ IsNumber(cmd.args[1]) /\ n = Numbers[cmd.args[1]] /\ n \in 0..511
    /\ f = cmd.args[2]

(* What the commands leave behind, in any order; sched_setaffinity and     *)
(* chmod can fail.                                                         *)
Set(cmds) ==
    /\ affinity' \in {a \in [Jobs -> Values \cup {-1}] : \A j \in Jobs :
          a[j] = affinity[j] \/ \E cmd \in cmds : SetsCore(cmd, j, a[j])}
    /\ mode' \in {m \in [Files -> Values \cup {-1}] : \A f \in Files :
          m[f] = mode[f] \/ \E cmd \in cmds : SetsMode(cmd, f, m[f])}

(* setcore catches invalid_argument and not out_of_range, the exception of *)
(* stoi for a number that is too large.  The first word that is no int     *)
(* decides.                                                                *)
SetcoreThrows(args) ==
    /\ Len(args) = 2
    /\ args[1] \in Huge \/ (IsNumber(args[1]) /\ args[2] \in Huge)

SetcoreCommand(cmd) ==
    \/ SetcoreThrows(cmd.args) /\ Ends("crashed")
    \/ /\ ~SetcoreThrows(cmd.args)
       /\ Set({cmd}) /\ UNCHANGED <<pathVars, prompt, shell>>

(* chmod calls stoi once before the try block, where nothing catches.      *)
ChmodThrows(args) == Len(args) = 2 /\ ~IsNumber(args[1])

ChmodCommand(cmd) ==
    \/ ChmodThrows(cmd.args) /\ Ends("crashed")
    \/ /\ ~ChmodThrows(cmd.args)
       /\ Set({cmd}) /\ UNCHANGED <<pathVars, prompt, shell>>

QuitCommand(args) ==
    \/ args = <<>> /\ Ends("killed")
    \/ args # <<>> /\ args[1] = "kill" /\ Ends("quit")
    \/ args # <<>> /\ args[1] # "kill" /\ Refused

(* _removeBackgroundSign keeps the index of the last character that is no  *)
(* blank in an unsigned int, where it is never equal to npos.              *)
BlankLine == Ends("crashed")

BuiltIns == {"chprompt", "cd", "setcore", "chmod", "quit"}

(* An external command is run by a child, and a command about jobs changes *)
(* the jobs list only.                                                     *)
StartsJob == UNCHANGED <<pathVars, prompt, affinity, mode, shell>>

Execute(cmd) ==
    \/ cmd.name = "" /\ BlankLine
    \/ cmd.name = "chprompt" /\ ChangePrompt(cmd.args)
    \/ cmd.name = "cd" /\ ChangeDirCommand(cmd.args)
    \/ cmd.name = "setcore" /\ SetcoreCommand(cmd)
    \/ cmd.name = "chmod" /\ ChmodCommand(cmd)
    \/ cmd.name = "quit" /\ QuitCommand(cmd.args)
    \/ cmd.name \in Printing /\ Prints
    \/ cmd.name \notin BuiltIns \cup Printing \cup {""} /\ StartsJob

-----------------------------------------------------------------------------
(* Pipes and redirections: every command of the line runs in a child with  *)
(* a copy of the shell's state, also a built-in one, and only what it does *)
(* to jobs and files is left.  Forks can fail from one command on, and a   *)
(* child ends when it cannot open its file, or has no command to run.      *)

KillsShell(cmd) == cmd.name = "quit" /\ cmd.args = <<>>

(* quit without an argument kills the process whose id the shell noted     *)
(* when it started, which is the shell and not the child.                  *)
InChildren(l) ==
    \E n \in 0..Len(l), opened \in SUBSET {i \in 1..Len(l) : l[i].to = "file"} :
        LET runs(i) == l[i].to = "out" \/ i \in opened
            ran == {l[i] : i \in {k \in 1..n : runs(k)}}
        IN  /\ shell' = IF \E cmd \in ran : KillsShell(cmd) THEN "killed"
                                                           ELSE shell
            /\ Set(ran)
            /\ UNCHANGED <<pathVars, prompt>>

(* Which of the two >, or of | and |&, a sign is, the character after it   *)
(* tells, and at() throws when there is none.  What the shell itself looks *)
(* at is the first | of the line, or the > of a line without a |; the      *)
(* others are looked at by children.                                       *)
SignAtEnd(l) == Len(l) = 1 /\ l[1].to = "cut"

(* The > is looked for after the names.                                    *)
InChildPipesOnly(l) == Len(l) > 1

(* CreateCommand looks for a | first, then for a >, then at the name.      *)
InChild(l) == Len(l) > 1 \/ l[1].to # "out"

ExecuteCommand(l) ==
    /\ shell = "running"
    /\ \/ InChild(l) /\ SignAtEnd(l) /\ Ends("crashed")
       \/ InChild(l) /\ ~SignAtEnd(l) /\ InChildren(l)
       \/ ~InChild(l) /\ Execute(l[1])
    /\ line' = IF shell' = "running" THEN line ELSE l
    /\ UNCHANGED <<dirs, spare>>

(* At the end of the input getline leaves the line empty, and the loop     *)
(* prints its prompt again and again.                                      *)
EndOfInput ==
    /\ shell = "running"
    /\ shell' = "spinning"
    /\ UNCHANGED <<dirs, pathVars, spare, prompt, affinity, mode, line>>

(* Another program removes a directory.                                    *)
RemoveDir(d) ==
    /\ shell = "running" /\ d \in dirs
    /\ dirs' = dirs \ {d}
    /\ UNCHANGED <<pathVars, spare, prompt, affinity, mode, line, shell>>

-----------------------------------------------------------------------------
Next ==
    \/ \E l \in Lines : ExecuteCommand(l)
    \/ EndOfInput
    \/ \E d \in Dirs : RemoveDir(d)

Spec == Init /\ [][Next]_vars

-----------------------------------------------------------------------------
(* A line ends the shell in no other way than these: quit kill, or a quit  *)
(* without argument, also inside a pipe or a redirection; and, in a line   *)
(* without a pipe, a | or > as its last character, or without a            *)
(* redirection too, only blanks, cd without an argument, a mode that is no *)
(* number in chmod, and a number that is too large in setcore.  In a pipe  *)
(* or a redirection these end a child only, and the end of the input does  *)
(* not end the shell either.                                               *)
EndsOnlyBy ==
    /\ shell = "killed" => \E i \in 1..Len(line) : KillsShell(line[i])
    /\ shell \in {"quit", "crashed"} => Len(line) = 1
    /\ shell = "quit" =>
          /\ line[1].to = "out"
          /\ line[1].name = "quit" /\ line[1].args[1] = "kill"
    /\ shell = "crashed" /\ line[1].to # "cut" =>
          LET args == line[1].args IN
          /\ line[1].to = "out"
          /\ \/ line[1].name = ""
             \/ line[1].name = "cd" /\ args = <<>>
             \/ line[1].name = "chmod" /\ Len(args) = 2 /\ ~IsNumber(args[1])
             \/ line[1].name = "setcore" /\ {args[1], args[2]} \cap Huge # {}

(* cd - leads back to the directory the last cd left, as long as it and    *)
(* the current one can be used: getcwd is given the size of the buffer for *)
(* last_path, so no path is cut on the way into it.  The exception is a    *)
(* path of exactly PATH_MAX_LENGHT - 1 characters, which getcwd accepts    *)
(* and strncpy copies without its terminator.                              *)
BackIsReachable ==
    hasLastPath /\ last_path \in dirs /\ Getcwd =>
        \/ Chdir("-", last_path)
        \/ Length(last_path) = PATH_MAX_LENGHT - 1
=============================================================================
