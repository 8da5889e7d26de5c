--------------------------- MODULE RequestHandler ---------------------------
(***************************************************************************)
(* What a worker of the web server does with a connection: requestHandle   *)
(* and the routines it calls (hw3/wet/request.c) over the system call      *)
(* wrappers and the robust I/O of segel.c, which end the whole process     *)
(* when a call fails.  The clients, the files and the CGI children are     *)
(* the environment.                                                        *)
(*                                                                         *)
(* ThreadPool describes how a connection comes to a worker; here a worker  *)
(* takes any accepted connection that no worker has taken.  A worker's     *)
(* step is a system call, or a run of calls that touch only its own state. *)
(***************************************************************************)
EXTENDS Integers, Sequences, FiniteSets

CONSTANTS
    Workers,      \* the threads that call requestHandle
    Conns,        \* the connections of the clients
    NoConn,       \* a worker without a connection
    Targets,      \* the requests the clients send
    MaxHeaders,   \* bound on the header lines of a request
    Leaving,      \* those whose client may close before it has the response
    Removable     \* the files that may be removed while the server runs

(* The requests requestHandle tells apart: another method than GET; a file *)
(* that does not exist, or that is not regular or lacks its owner's        *)
(* permission; an ordinary file; a file that passes these checks and that  *)
(* Open refuses (its owner may read it and the server, which is another    *)
(* user, may not) or Mmap (its size is 0, or no positive int); a program   *)
(* to run; and a request whose words fit into the line and not into the    *)
(* buffers for the file name and the error message.                        *)
Requests == {"other_method", "missing", "forbidden", "static", "refused",
             "cgi", "overlong"}

ASSUME WorkersAssumption == IsFiniteSet(Workers)
ASSUME ConnsAssumption == IsFiniteSet(Conns) /\ NoConn \notin Conns
ASSUME ClientsAssumption ==
    /\ Targets \subseteq Requests /\ Targets # {}
    /\ MaxHeaders \in Nat
    /\ Leaving \subseteq Conns
    /\ Removable \subseteq Requests

VARIABLES
    server,     \* the process: "running" or "exited"
    open,       \* the connections it has open
    client,     \* what each client does
    target,     \* what it requests
    sent,       \* the lines it has sent that the server has not read
    files,      \* the files that exist
    pc,         \* where each worker is in requestHandle
    conn,       \* the connection it serves
    request,    \* the request it parsed
    buf,        \* the contents of requestReadhdrs' buffer
    status,     \* the error it reports
    stats,      \* its stats_t
    child,      \* its CGI child
    inherited,  \* the connections the child has open
    heads,      \* the response headers written, with what they report
    bodies      \* the connections that got all of their response's body

envVars == <<client, target, files>>
childVars == <<child, inherited>>
replyVars == <<heads, bodies>>
vars == <<server, open, client, target, sent, files, pc, conn, request, buf,
          status, stats, child, inherited, heads, bodies>>

WorkerPCs == {"idle", "line", "hdrs", "stat", "error", "error_rest", "static",
              "static_body", "cgi", "fork", "waitpid", "close"}

(* thread_func creates the worker's stats with all counters at zero.       *)
Init ==
    /\ server = "running" /\ open = {}
    /\ client = [c \in Conns |-> "new"]
    /\ target \in [Conns -> Targets]
    /\ sent = [c \in Conns |-> <<>>]
    /\ files = {"static", "refused", "cgi", "forbidden"}
    /\ pc = [w \in Workers |-> "idle"]
    /\ conn = [w \in Workers |-> NoConn]
    /\ request = [w \in Workers |-> "missing"]
    /\ buf = [w \in Workers |-> "uninitialized"]
    /\ status = [w \in Workers |-> "none"]
    /\ stats = [w \in Workers |-> [req |-> 0, static |-> 0, dynamic |-> 0]]
    /\ child = [w \in Workers |-> "none"]
    /\ inherited = [w \in Workers |-> {}]
    /\ heads = {} /\ bodies = {}

-----------------------------------------------------------------------------
(* The clients: connect, send a request line, headers and an empty line,   *)
(* and read until the server's side is closed.  What they do when the      *)
(* server has ended is left out.                                           *)

Connect(c) ==
    /\ server = "running" /\ client[c] = "new"
    /\ open' = open \cup {c}
    /\ client' = [client EXCEPT ![c] = "connected"]
    /\ UNCHANGED <<server, target, sent, files, pc, conn, request, buf,
                   status, stats, childVars, replyVars>>

SendLine(c, line, next) ==
    /\ server = "running"
    /\ sent' = [sent EXCEPT ![c] = Append(@, line)]
    /\ client' = [client EXCEPT ![c] = next]
    /\ UNCHANGED <<server, open, target, files, pc, conn, request, buf,
                   status, stats, childVars, replyVars>>

SendRequest(c) == client[c] = "connected" /\ SendLine(c, "request", "headers")

SendHeader(c) ==
    /\ client[c] = "headers"
    /\ Len(SelectSeq(sent[c], LAMBDA l : l = "header")) < MaxHeaders
    /\ SendLine(c, "header", "headers")

SendBlank(c) == client[c] = "headers" /\ SendLine(c, "blank", "reading")

(* The descriptor is closed everywhere: in the server and in every child   *)
(* that inherited it.                                                      *)
Ended(c) == c \notin open /\ \A w \in Workers : c \notin inherited[w]

(* The client sees the end of the response, or goes away before it.        *)
ClientClose(c) ==
    /\ server = "running"
    /\ client[c] \in {"connected", "headers", "reading"}
    /\ Ended(c) \/ c \in Leaving
    /\ client' = [client EXCEPT ![c] = "closed"]
    /\ UNCHANGED <<server, open, target, sent, files, pc, conn, request, buf,
                   status, stats, childVars, replyVars>>

(* Another program removes a file, cuts it short or forbids its use.       *)
RemoveFile(f) ==
    /\ server = "running" /\ f \in files
    /\ files' = files \ {f}
    /\ UNCHANGED <<server, open, client, target, sent, pc, conn, request, buf,
                   status, stats, childVars, replyVars>>

-----------------------------------------------------------------------------
(* requestHandle: the request and its headers.                             *)

Goto(w, l) == pc' = [pc EXCEPT ![w] = l]

At(w, l) == server = "running" /\ pc[w] = l

(* Mutated forms, here and below, are definitions that no action uses: a   *)
(* bug that would break one of the properties.                             *)
CountRequestDown(s) == [s EXCEPT !.req = @ - 1]

CountRequest(s) == [s EXCEPT !.req = @ + 1]

Take(w) ==
    /\ At(w, "idle")
    /\ \E c \in open \ {conn[v] : v \in Workers} :
          conn' = [conn EXCEPT ![w] = c]
    /\ stats' = [stats EXCEPT ![w] = CountRequest(@)]
    /\ buf' = [buf EXCEPT ![w] = "uninitialized"]
    /\ Goto(w, "line")
    /\ UNCHANGED <<server, open, envVars, sent, request, status, childVars,
                   replyVars>>

(* rio_readlineb returns a line, or 0 at the end of what a client that has *)
(* closed has sent.                                                        *)
LineReady(c) == sent[c] # <<>>
EOF(c) == sent[c] = <<>> /\ client[c] = "closed"

(* The request line.  At end of file rio_readlineb returns without writing *)
(* to the buffer, and sscanf parses what is in it.                         *)
ReadLine(w) ==
    /\ At(w, "line")
    /\ \/ /\ LineReady(conn[w])
          /\ sent' = [sent EXCEPT ![conn[w]] = Tail(@)]
          /\ request' = [request EXCEPT ![w] = target[conn[w]]]
       \/ /\ EOF(conn[w])
          /\ \E r \in Requests : request' = [request EXCEPT ![w] = r]
          /\ UNCHANGED sent
    /\ \/ /\ request'[w] \in {"other_method", "overlong"}
          /\ status' = [status EXCEPT ![w] = "501"]
          /\ Goto(w, "error")
       \/ /\ request'[w] # "other_method"
          /\ Goto(w, "hdrs")
          /\ UNCHANGED status
    /\ UNCHANGED <<server, open, envVars, conn, buf, stats, childVars,
                   replyVars>>

ReadHeaderPastEnd(w) ==
    /\ At(w, "hdrs")
    /\ LineReady(conn[w])
    /\ sent' = [sent EXCEPT ![conn[w]] = Tail(@)]
    /\ buf' = [buf EXCEPT ![w] = Head(sent[conn[w]])]
    /\ Goto(w, IF buf[w] = "blank" THEN "stat" ELSE "hdrs")
    /\ UNCHANGED <<server, open, envVars, conn, request, status, stats,
                   childVars, replyVars>>

(* requestReadhdrs reads lines up to an empty one.                         *)
ReadHeader(w) ==
    /\ At(w, "hdrs")
    /\ LineReady(conn[w])
    /\ sent' = [sent EXCEPT ![conn[w]] = Tail(@)]
    /\ buf' = [buf EXCEPT ![w] = Head(sent[conn[w]])]
    /\ Goto(w, IF buf'[w] = "blank" THEN "stat" ELSE "hdrs")
    /\ UNCHANGED <<server, open, envVars, conn, request, status, stats,
                   childVars, replyVars>>

(* At end of file the buffer keeps its contents: the last header, and the  *)
(* loop goes on, or what the stack held there before.                      *)
ReadHeaderEOF(w) ==
    /\ At(w, "hdrs")
    /\ EOF(conn[w])
    /\ \/ buf[w] # "uninitialized" /\ UNCHANGED <<buf, pc>>
       \/ /\ buf[w] = "uninitialized"
          /\ \E l \in {"header", "blank"} :
                /\ buf' = [buf EXCEPT ![w] = l]
                /\ Goto(w, IF l = "blank" THEN "stat" ELSE "hdrs")
    /\ UNCHANGED <<server, open, envVars, sent, conn, request, status, stats,
                   childVars, replyVars>>

-----------------------------------------------------------------------------
(* stat on the file, and the checks of its mode.                           *)

MayServeAlways(f) == TRUE
MayServe(f) == f # "forbidden"

CountAsStatic(s, r) == [s EXCEPT !.static = @ + 1]

CountServed(s, r) == IF r = "cgi" THEN [s EXCEPT !.dynamic = @ + 1]
                                  ELSE [s EXCEPT !.static = @ + 1]

Stat(w) ==
    /\ At(w, "stat")
    /\ LET r == request[w] IN
       \/ /\ r \notin files
          /\ status' = [status EXCEPT ![w] = "404"]
          /\ Goto(w, "error")
          /\ UNCHANGED stats
       \/ /\ r \in files /\ ~MayServe(r)
          /\ status' = [status EXCEPT ![w] = "403"]
          /\ Goto(w, "error")
          /\ UNCHANGED stats
       \/ /\ r \in files /\ MayServe(r)
          /\ stats' = [stats EXCEPT ![w] = CountServed(@, r)]
          /\ status' = [status EXCEPT ![w] = "200"]
          /\ Goto(w, IF r = "cgi" THEN "cgi" ELSE "static")
    /\ UNCHANGED <<server, open, envVars, sent, conn, request, buf, childVars,
                   replyVars>>

-----------------------------------------------------------------------------
(* The responses.                                                          *)

(* unix_error, and SIGPIPE: exit closes every descriptor of the process.   *)
ExitServer ==
    /\ server' = "exited"
    /\ open' = {}

(* The first write of a response, with the counters it reports.            *)
WriteHead(w) ==
    heads' = heads \cup {[conn |-> conn[w], worker |-> w,
                          request |-> request[w], status |-> status[w],
                          stats |-> stats[w]]}

(* A later write: a client that has closed answers the first one with a    *)
(* reset, and a write after that ends the process.                         *)
WriteRest(w) ==
    \/ /\ bodies' = bodies \cup {conn[w]}
       /\ Goto(w, "close")
       /\ UNCHANGED <<server, open>>
    \/ /\ client[conn[w]] = "closed"
       /\ ExitServer
       /\ UNCHANGED <<bodies, pc>>

(* requestError.                                                           *)
ErrorHead(w) ==
    /\ At(w, "error")
    /\ WriteHead(w)
    /\ Goto(w, "error_rest")
    /\ UNCHANGED <<server, open, envVars, sent, conn, request, buf, status,
                   stats, childVars, bodies>>

ErrorRest(w) ==
    /\ At(w, "error_rest")
    /\ WriteRest(w)
    /\ UNCHANGED <<envVars, sent, conn, request, buf, status, stats,
                   childVars, heads>>

(* Open and Mmap succeed: the file is still there, may be read and has a   *)
(* size.                                                                   *)
Opens(f) == f \in files \ {"refused", "forbidden"}

(* requestServeStatic up to the header.                                    *)
StaticHead(w) ==
    /\ At(w, "static")
    /\ LET f == request[w] IN
       \/ /\ Opens(f)
          /\ WriteHead(w)
          /\ Goto(w, "static_body")
          /\ UNCHANGED <<server, open>>
       \/ /\ ~Opens(f)
          /\ ExitServer
          /\ UNCHANGED <<pc, heads>>
    /\ UNCHANGED <<envVars, sent, conn, request, buf, status, stats,
                   childVars, bodies>>

(* The file itself.  Rio_writen fails when it was cut short after Mmap.    *)
StaticBody(w) ==
    /\ At(w, "static_body")
    /\ \/ WriteRest(w)
       \/ /\ request[w] \notin files
          /\ ExitServer
          /\ UNCHANGED <<bodies, pc>>
    /\ UNCHANGED <<envVars, sent, conn, request, buf, status, stats,
                   childVars, heads>>

(* requestServeDynamic: the header, ...                                    *)
CgiHead(w) ==
    /\ At(w, "cgi")
    /\ WriteHead(w)
    /\ Goto(w, "fork")
    /\ UNCHANGED <<server, open, envVars, sent, conn, request, buf, status,
                   stats, childVars, bodies>>

(* ... a child that has every descriptor of the server, ...                *)
ForkChild(w) ==
    /\ At(w, "fork")
    /\ child' = [child EXCEPT ![w] = "running"]
    /\ inherited' = [inherited EXCEPT ![w] = open]
    /\ Goto(w, "waitpid")
    /\ UNCHANGED <<server, open, envVars, sent, conn, request, buf, status,
                   stats, replyVars>>

(* ... which writes the body and ends, or ends when Execve fails; ...      *)
ChildRuns(w) ==
    /\ child[w] = "running"
    /\ bodies' = IF "cgi" \in files THEN bodies \cup {conn[w]} ELSE bodies
    /\ child' = [child EXCEPT ![w] = "zombie"]
    /\ inherited' = [inherited EXCEPT ![w] = {}]
    /\ UNCHANGED <<server, open, envVars, sent, pc, conn, request, buf,
                   status, stats, heads>>

WaitAny(w) ==
    /\ At(w, "waitpid")
    /\ \E v \in Workers : /\ child[v] = "zombie"
                          /\ child' = [child EXCEPT ![v] = "none"]
    /\ Goto(w, "close")
    /\ UNCHANGED <<server, open, envVars, sent, conn, request, buf, status,
                   stats, inherited, replyVars>>

(* ... and WaitPid for this child.                                         *)
WaitPid(w) ==
    /\ At(w, "waitpid")
    /\ child[w] = "zombie"
    /\ child' = [child EXCEPT ![w] = "none"]
    /\ Goto(w, "close")
    /\ UNCHANGED <<server, open, envVars, sent, conn, request, buf, status,
                   stats, inherited, replyVars>>

CloseForgotten(w) ==
    /\ At(w, "close")
    /\ conn' = [conn EXCEPT ![w] = NoConn]
    /\ Goto(w, "idle")
    /\ UNCHANGED <<server, open, envVars, sent, request, buf, status, stats,
                   childVars, replyVars>>

(* thread_func closes the connection.                                      *)
CloseConn(w) ==
    /\ At(w, "close")
    /\ open' = open \ {conn[w]}
    /\ conn' = [conn EXCEPT ![w] = NoConn]
    /\ Goto(w, "idle")
    /\ UNCHANGED <<server, envVars, sent, request, buf, status, stats,
                   childVars, replyVars>>

(* An overlong request is written past the end of a buffer on the stack:   *)
(* by requestParseURI, and by requestError, which repeats the method or    *)
(* the file name.  What lies there may end the process at any step up to   *)
(* the return of requestHandle, or not at all.                             *)
Overrun(w) ==
    /\ server = "running"
    /\ pc[w] \in {"stat", "error", "error_rest", "close"}
    /\ request[w] = "overlong"
    /\ ExitServer
    /\ UNCHANGED <<envVars, sent, pc, conn, request, buf, status, stats,
                   childVars, replyVars>>

-----------------------------------------------------------------------------
ClientStep(c) ==
    Connect(c) \/ SendRequest(c) \/ SendHeader(c) \/ SendBlank(c) \/ ClientClose(c)

WorkerStep(w) ==
    \/ Take(w) \/ ReadLine(w) \/ ReadHeader(w) \/ ReadHeaderEOF(w) \/ Stat(w)
    \/ ErrorHead(w) \/ ErrorRest(w) \/ StaticHead(w) \/ StaticBody(w)
    \/ CgiHead(w) \/ ForkChild(w) \/ WaitPid(w) \/ CloseConn(w)
    \/ Overrun(w)

Next ==
    \/ \E c \in Conns : ClientStep(c)
    \/ \E f \in Removable : RemoveFile(f)
    \/ \E w \in Workers : WorkerStep(w) \/ ChildRuns(w)

Spec == Init /\ [][Next]_vars

(* The threads are scheduled and the children end; a client that has       *)
(* connected sends its request to the end unless it closes.                *)
Fairness ==
    /\ \A w \in Workers : WF_vars(WorkerStep(w)) /\ WF_vars(ChildRuns(w))
    /\ \A c \in Conns : WF_vars(SendRequest(c)) /\ WF_vars(SendBlank(c))

FairSpec == Spec /\ Fairness

-----------------------------------------------------------------------------
(* Type invariant.                                                         *)
TypeOK ==
    /\ server \in {"running", "exited"} /\ open \subseteq Conns
    /\ client \in [Conns -> {"new", "connected", "headers", "reading",
                             "closed"}]
    /\ target \in [Conns -> Targets]
    /\ sent \in [Conns -> Seq({"request", "header", "blank"})]
    /\ files \subseteq Requests
    /\ pc \in [Workers -> WorkerPCs]
    /\ conn \in [Workers -> Conns \cup {NoConn}]
    /\ \A w \in Workers : conn[w] = NoConn <=> pc[w] = "idle"
    /\ request \in [Workers -> Requests]
    /\ buf \in [Workers -> {"uninitialized", "header", "blank"}]
    /\ status \in [Workers -> {"none", "200", "403", "404", "501"}]
    /\ stats \in [Workers -> [req : Nat, static : Nat, dynamic : Nat]]
    /\ child \in [Workers -> {"none", "running", "zombie"}]
    /\ inherited \in [Workers -> SUBSET Conns]
    /\ heads \subseteq [conn : Conns, worker : Workers, request : Requests,
                        status : {"200", "403", "404", "501"},
                        stats : [req : Nat, static : Nat, dynamic : Nat]]
    /\ bodies \subseteq Conns

HeadsOf(w) == {h \in heads : h.worker = w}
OkUpTo(h) == {g \in HeadsOf(h.worker) : /\ g.stats.req <= h.stats.req
                                        /\ g.status = "200"}

(* The counters a worker reports number its responses 1, 2, ... without a  *)
(* gap, and the static and dynamic counters of a response tell how many    *)
(* files and programs were among the responses up to it: each request is   *)
(* counted once, and errors as neither.                                    *)
ReportedCounts ==
    \A w \in Workers : pc[w] = "idle" =>
        /\ {h.stats.req : h \in HeadsOf(w)} = 1..stats[w].req
        /\ Cardinality(HeadsOf(w)) = stats[w].req
        /\ \A h \in HeadsOf(w) :
              LET cgi == {g \in OkUpTo(h) : g.request = "cgi"}
              IN  /\ h.stats.dynamic = Cardinality(cgi)
                  /\ h.stats.static = Cardinality(OkUpTo(h) \ cgi)

(* When the server has closed a connection, a client that is still there   *)
(* has its whole response, also when a child of the server wrote it and    *)
(* other workers wait for children of theirs.  Without its program, the    *)
(* response to a CGI request has no body.                                  *)
ResponseComplete ==
    server = "running" => \A c \in Conns :
        /\ client[c] = "reading" /\ c \notin open
        /\ target[c] = "cgi" => "cgi" \in files
        => c \in bodies /\ Cardinality({h \in heads : h.conn = c}) = 1

(* What can end the server, and every worker with it: a client that went   *)
(* away, a file that is removed, cut short or locked while it is served, a *)
(* file that Mmap refuses for its size or Open for its permissions, and a  *)
(* line too long for the buffers.  A request for a file or program that is *)
(* missing, forbidden or in order, or with another method, does not,       *)
(* whatever the workers do meanwhile (as long as the process has the       *)
(* memory, the descriptors and the children it asks for).                  *)
ServerRuns ==
    server = "running" \/ \E c \in Conns :
        \/ client[c] = "closed" /\ c \in Leaving
        \/ /\ client[c] # "new"
           /\ target[c] \in {"refused", "overlong"}
        \/ client[c] # "new" /\ target[c] = "static" /\ "static" \notin files

(* requestReadhdrs has come to the end of file without an empty line and   *)
(* reads on for ever.                                                      *)
Spins(w) == pc[w] = "hdrs" /\ EOF(conn[w])

(* Every client that stays comes to the end of its response, although the  *)
(* children of other requests inherit its connection, as long as one       *)
(* worker is not caught by a client that left too early.                   *)
ResponsesEnd ==
    \A c \in Conns : client[c] = "reading" ~>
        Ended(c) \/ \A w \in Workers : Spins(w)

(* A worker comes back from every request, so the server goes on handling  *)
(* requests.                                                               *)
WorkersReturn ==
    \A w \in Workers : pc[w] # "idle" ~> pc[w] = "idle" \/ server = "exited"

(* A worker comes back from every request whose client sends all of it.    *)
ReturnsUnlessCutOff ==
    \A w \in Workers :
        pc[w] # "idle" ~> pc[w] = "idle" \/ server = "exited" \/ Spins(w)
=============================================================================
