------------------------- MODULE SmashShellProofs -------------------------
(***************************************************************************)
(* Proofs about the command loop of the shell, for any directories and     *)
(* buffers, and for any lines the user types.                              *)
(***************************************************************************)
EXTENDS SmashShell, SequenceTheorems, TLAPS

(* A command that runs in the shell itself ends it by quit, or by one of   *)
(* four mistakes.                                                          *)
LEMMA ExecuteEnds ==
    ASSUME NEW cmd, Execute(cmd), shell = "running", shell' # "running"
    PROVE  \/ shell' = "killed" /\ KillsShell(cmd)
           \/ shell' = "quit" /\ cmd.name = "quit" /\ cmd.args[1] = "kill"
           \/ /\ shell' = "crashed"
              /\ \/ cmd.name = ""
                 \/ cmd.name = "cd" /\ cmd.args = <<>>
                 \/ cmd.name = "chmod" /\ Len(cmd.args) = 2
                      /\ ~IsNumber(cmd.args[1])
                 \/ cmd.name = "setcore"
                      /\ {cmd.args[1], cmd.args[2]} \cap Huge # {}
  <1>1. CASE cmd.name = "cd" /\ ChangeDirCommand(cmd.args)
    BY <1>1 DEF ChangeDirCommand, Refused, Ends
  <1>2. CASE cmd.name = "setcore" /\ SetcoreCommand(cmd)
    BY <1>2 DEF SetcoreCommand, SetcoreThrows, Ends
  <1>3. CASE cmd.name = "chmod" /\ ChmodCommand(cmd)
    BY <1>3 DEF ChmodCommand, ChmodThrows, Ends
  <1>4. CASE cmd.name = "quit" /\ QuitCommand(cmd.args)
    BY <1>4 DEF QuitCommand, Refused, Ends, KillsShell
  <1>5. CASE \/ cmd.name = "chprompt" /\ ChangePrompt(cmd.args)
             \/ cmd.name \in Printing /\ Prints
             \/ cmd.name \notin BuiltIns \cup Printing \cup {""} /\ StartsJob
    BY <1>5 DEF ChangePrompt, Prints, StartsJob
  <1>6. CASE cmd.name = "" /\ BlankLine
    BY <1>6 DEF BlankLine, Ends
  <1>. QED  BY <1>1, <1>2, <1>3, <1>4, <1>5, <1>6 DEF Execute

(* In a pipe or a redirection only a quit without argument does.           *)
LEMMA ChildrenEnd ==
    ASSUME NEW l, InChildren(l), shell = "running", shell' # "running"
    PROVE  shell' = "killed" /\ \E i \in 1..Len(l) : KillsShell(l[i])
  <1>1. PICK n \in 0..Len(l) : \E cmd \in {l[i] : i \in 1..n} :
           KillsShell(cmd) /\ shell' = "killed"
    BY DEF InChildren
  <1>. QED  BY <1>1

(* However long the user goes on, the shell of Commands.cpp ends by quit,  *)
(* by a line that is blank or ends with its | or >, or by cd, chmod or     *)
(* setcore alone on a line and called wrongly.                             *)
THEOREM ShellEndsOnlyBy == Spec => []EndsOnlyBy
  <1>. DEFINE Inv == /\ EndsOnlyBy
                     /\ shell \in {"running", "spinning", "quit", "killed",
                                   "crashed"}
  <1>1. Init => Inv
    BY DEF Init, EndsOnlyBy
  <1>2. Inv /\ [Next]_vars => Inv'
    <2>. SUFFICES ASSUME Inv, [Next]_vars PROVE Inv'
      OBVIOUS
    <2>1. ASSUME NEW l \in Lines, ExecuteCommand(l)
          PROVE  Inv'
      <3>1. /\ shell = "running"
            /\ line' = IF shell' = "running" THEN line ELSE l
        BY <2>1 DEF ExecuteCommand
      <3>2. CASE shell' = "running"
        BY <3>1, <3>2 DEF EndsOnlyBy
      <3>3. CASE shell' # "running" /\ InChildren(l)
        BY <3>1, <3>3, ChildrenEnd DEF EndsOnlyBy
      <3>5. CASE shell' # "running" /\ SignAtEnd(l) /\ Ends("crashed")
        BY <3>1, <3>5 DEF EndsOnlyBy, SignAtEnd, Ends
      <3>4. CASE shell' # "running" /\ ~InChild(l) /\ Execute(l[1])
        <4>1. Len(l) = 1 /\ l[1].to = "out"
          <5>1. l \in Seq(Command) /\ l # <<>>
            BY LinesAssumption
          <5>2. Len(l) \in Nat /\ Len(l) # 0
            BY <5>1, LenProperties, EmptySeq
          <5>3. ~(Len(l) > 1) /\ l[1].to = "out"
            BY <3>4, Zenon DEF InChild
          <5>. QED  BY <5>2, <5>3
        <4>2. line' = l
          BY <3>1, <3>4
        <4>3. CASE shell' = "killed" /\ KillsShell(l[1])
          <5>1. 1 \in 1..Len(line')
            BY <4>1, <4>2
          <5>. QED  BY <4>2, <4>3, <5>1, Zenon DEF EndsOnlyBy
        <4>4. CASE /\ shell' = "quit"
                   /\ l[1].name = "quit" /\ l[1].args[1] = "kill"
          BY <4>1, <4>2, <4>4 DEF EndsOnlyBy
        <4>5. CASE /\ shell' = "crashed"
                   /\ \/ l[1].name = ""
                      \/ l[1].name = "cd" /\ l[1].args = <<>>
                      \/ l[1].name = "chmod" /\ Len(l[1].args) = 2
                           /\ ~IsNumber(l[1].args[1])
                      \/ l[1].name = "setcore"
                           /\ {l[1].args[1], l[1].args[2]} \cap Huge # {}
          BY <4>1, <4>2, <4>5, Zenon DEF EndsOnlyBy
        <4>. QED  BY <3>1, <3>4, <4>3, <4>4, <4>5, ExecuteEnds
      <3>. QED  BY <2>1, <3>2, <3>3, <3>4, <3>5 DEF ExecuteCommand
    <2>2. CASE EndOfInput
      BY <2>2 DEF EndOfInput, EndsOnlyBy
    <2>3. ASSUME NEW d \in Dirs, RemoveDir(d)
          PROVE  Inv'
      BY <2>3 DEF RemoveDir, EndsOnlyBy
    <2>4. CASE UNCHANGED vars
      BY <2>4 DEF vars, EndsOnlyBy
    <2>. QED  BY <2>1, <2>2, <2>3, <2>4 DEF Next
  <1>3. Inv => EndsOnlyBy
    OBVIOUS
  <1>. QED  BY <1>1, <1>2, <1>3, PTL DEF Spec

(* cd only notes a directory that getcwd could name, and no other command  *)
(* and no child changes what was noted.                                    *)
LEMMA NotedFits ==
    ASSUME hasLastPath => Length(last_path) + 1 <= PATH_MAX_LENGHT, [Next]_vars
    PROVE  (hasLastPath => Length(last_path) + 1 <= PATH_MAX_LENGHT)'
  <1>1. ASSUME NEW l \in Lines, ExecuteCommand(l)
        PROVE  \/ UNCHANGED <<last_path, hasLastPath>>
               \/ Getcwd /\ last_path' = cwd
    <2>1. ASSUME NEW cmd, Execute(cmd)
          PROVE  \/ UNCHANGED <<last_path, hasLastPath>>
                 \/ Getcwd /\ last_path' = cwd
      <3>1. CASE cmd.name = "cd" /\ ChangeDirCommand(cmd.args)
        BY <3>1 DEF ChangeDirCommand, Refused, Ends, pathVars
      <3>2. CASE \/ cmd.name = "setcore" /\ SetcoreCommand(cmd)
                 \/ cmd.name = "chmod" /\ ChmodCommand(cmd)
                 \/ cmd.name = "quit" /\ QuitCommand(cmd.args)
                 \/ cmd.name = "" /\ BlankLine
        BY <3>2 DEF SetcoreCommand, ChmodCommand, QuitCommand, BlankLine,
                    Refused, Ends, pathVars
      <3>3. CASE \/ cmd.name = "chprompt" /\ ChangePrompt(cmd.args)
                 \/ cmd.name \in Printing /\ Prints
                 \/ /\ cmd.name \notin BuiltIns \cup Printing \cup {""}
                    /\ StartsJob
        BY <3>3 DEF ChangePrompt, Prints, StartsJob, pathVars
      <3>. QED  BY <2>1, <3>1, <3>2, <3>3 DEF Execute
    <2>2. CASE InChildren(l) \/ Ends("crashed")
      BY <2>2 DEF InChildren, Ends, pathVars
    <2>. QED  BY <1>1, <2>1, <2>2 DEF ExecuteCommand
  <1>2. CASE EndOfInput \/ UNCHANGED vars
    BY <1>2 DEF EndOfInput, vars, pathVars
  <1>3. ASSUME NEW d \in Dirs, RemoveDir(d)
        PROVE  UNCHANGED <<last_path, hasLastPath>>
    BY <1>3 DEF RemoveDir, pathVars
  <1>. QED  BY <1>1, <1>2, <1>3 DEF Next, Getcwd

(* cd - of Commands.cpp leads back for any lines, directories and size of  *)
(* the buffers, but for a path that fills its buffer to the last byte.     *)
THEOREM ShellFindsBack == Spec => []BackIsReachable
  <1>. DEFINE Fits == hasLastPath => Length(last_path) + 1 <= PATH_MAX_LENGHT
              Inv == Fits /\ dirs \subseteq Dirs
  <1>1. Init => Inv
    BY DEF Init
  <1>2. Inv /\ [Next]_vars => Inv'
    <2>. SUFFICES ASSUME Inv, [Next]_vars PROVE Inv'
      OBVIOUS
    <2>1. Fits'
      BY NotedFits
    <2>2. dirs' \subseteq dirs
      BY DEF Next, ExecuteCommand, EndOfInput, RemoveDir, vars
    <2>. QED  BY <2>1, <2>2
  <1>3. Inv => BackIsReachable
    <2>. SUFFICES ASSUME Inv, hasLastPath, last_path \in dirs,
                         Length(last_path) # PATH_MAX_LENGHT - 1
                  PROVE  Chdir("-", last_path)
      BY DEF BackIsReachable
    <2>1. Length(last_path) < PATH_MAX_LENGHT - 1
      BY DirsAssumption
    <2>. QED  BY <2>1 DEF Chdir, Terminated
  <1>. QED  BY <1>1, <1>2, <1>3, PTL DEF Spec
=============================================================================
