---------------------------- MODULE MCSmashShell ----------------------------
(* SmashShell for TLC: directories around the limit of the buffers, and    *)
(* every way to call each command.                                         *)
EXTENDS SmashShell, TLC

DirNames == {"home", "edge", "deep"}
PathLength(d) == CASE d = "home" -> 5 [] d = "edge" -> 100 [] d = "deep" -> 101

NumberWords == "0" :> 0 @@ "1" :> 1 @@ "-1" :> -1 @@ "1000" :> 512
HugeWords == {"huge"}
JobIds == {1}
FileNames == {"file"}

Words == DOMAIN NumberWords \cup HugeWords \cup {"word"}
Upto(n, S) == UNION {[1..k -> S] : k \in 0..n}

ArgsOf(name) ==
    CASE name = "cd" -> Upto(1, DirNames \cup {"-"}) \cup {<<"home", "edge">>}
      [] name = "chprompt" -> {<<>>, <<"word">>}
      [] name = "setcore" -> Upto(2, Words)
      [] name = "chmod" -> {<<>>} \cup {<<w, "file">> : w \in Words}
      [] name = "quit" -> {<<>>, <<"kill">>, <<"word">>}
      [] name \in {"", "showpid", "external"} -> {<<>>}

Commands == UNION {[name : {name}, args : ArgsOf(name),
                    to : {"out", "file", "cut"}] :
                      name \in BuiltIns \cup {"", "showpid", "external"}}
InPipes == {c \in Commands : c.args = <<>>}

TypedLines == {<<c>> : c \in Commands} \cup (InPipes \X InPipes)
=============================================================================
