----------------------- MODULE RequestHandlerProofs -----------------------
(***************************************************************************)
(* Proofs about the handling of requests, for any number of workers,       *)
(* connections, header lines and files that disappear.                     *)
(***************************************************************************)
EXTENDS RequestHandler, SequenceTheorems, FiniteSetTheorems, TLAPS

Lines == {"request", "header", "blank"}

(* The request line is the first line a client sends, and only the first:  *)
(* requestReadhdrs never reads it.                                         *)
Wire ==
    /\ \A c \in Conns : client[c] \in {"new", "connected"} => sent[c] = <<>>
    /\ \A c \in Conns : \A i \in 2..Len(sent[c]) : sent[c][i] # "request"
    /\ \A w \in Workers : pc[w] = "hdrs" =>
          /\ client[conn[w]] \notin {"new", "connected"}
          /\ sent[conn[w]] # <<>> => sent[conn[w]][1] # "request"
    /\ \A w \in Workers : pc[w] \in {"error", "static", "cgi"} =>
          status[w] # "none"
    /\ \A w \in Workers : pc[w] = "waitpid" <=> child[w] # "none"

TypeInv == TypeOK /\ Wire

(* A connection in a worker's hands is open and no other worker's, and its *)
(* client has closed only if it may.  A worker serves what the client      *)
(* asked for, or, at the end of its input, anything.                       *)
Serving ==
    /\ \A w \in Workers : conn[w] # NoConn =>
          /\ server = "running" => conn[w] \in open
          /\ client[conn[w]] # "new"
    /\ \A v, w \in Workers : conn[v] # NoConn /\ conn[v] = conn[w] => v = w
    /\ \A c \in open : client[c] # "new" /\ (client[c] = "closed" => c \in Leaving)
    /\ \A w \in Workers : pc[w] \notin {"idle", "line"} =>
          request[w] = target[conn[w]] \/ client[conn[w]] = "closed"
    /\ \A w \in Workers : pc[w] \in {"static", "static_body"} =>
          request[w] \in {"static", "refused"}
    /\ \A w \in Workers : pc[w] \in {"cgi", "fork", "waitpid"} =>
          request[w] = "cgi"
    /\ files \subseteq {"static", "refused", "cgi", "forbidden"}

ServeInv == TypeInv /\ Serving /\ ServerRuns

(* The points before and after the first write of the response.            *)
Before == {"line", "hdrs", "stat", "error", "static", "cgi"}
After == {"error_rest", "static_body", "fork", "waitpid", "close"}

HeadsOn(c) == {h \in heads : h.conn = c}
OneHead(c) == \E h : HeadsOn(c) = {h}

(* The body was written, or nobody could have done it or waits for it.     *)
Done(c) ==
    c \in bodies \/ ("cgi" \notin files /\ (target[c] = "cgi" \/ client[c] = "closed"))

(* A response is begun once, and a connection is closed when it is done.   *)
Responses ==
    /\ \A c \in Conns : client[c] = "new" => HeadsOn(c) = {}
    /\ \A c \in open : c \notin {conn[w] : w \in Workers} => HeadsOn(c) = {}
    /\ \A w \in Workers : \A c \in Conns : conn[w] = c =>
          /\ pc[w] \in Before => HeadsOn(c) = {}
          /\ pc[w] \in After => OneHead(c)
          /\ pc[w] = "close" \/ child[w] = "zombie" => Done(c)
    /\ server = "running" => \A c \in Conns \ open :
          client[c] # "new" => OneHead(c) /\ Done(c)

ResponseInv == ServeInv /\ Responses

-----------------------------------------------------------------------------
(* Lines that are sent and read.                                           *)

(* Sending a line that is not the request, or the request first.           *)
LEMMA Appended ==
    ASSUME NEW s \in Seq(Lines), NEW l \in Lines,
           s = <<>> \/ l # "request",
           \A i \in 2..Len(s) : s[i] # "request"
    PROVE  /\ Append(s, l) \in Seq(Lines) /\ Append(s, l) # <<>>
           /\ \A i \in 2..Len(Append(s, l)) : Append(s, l)[i] # "request"
           /\ s # <<>> => Append(s, l)[1] = s[1]
           /\ s = <<>> => Append(s, l)[1] = l
  <1>1. /\ Append(s, l) \in Seq(Lines) /\ Append(s, l) # <<>>
        /\ Len(Append(s, l)) = Len(s) + 1
        /\ \A i \in 1..Len(s) : Append(s, l)[i] = s[i]
        /\ Append(s, l)[Len(s) + 1] = l
    BY AppendProperties
  <1>2. Len(s) \in Nat /\ (s = <<>> <=> Len(s) = 0)
    BY LenProperties, EmptySeq
  <1>3. ASSUME NEW i \in 2..(Len(s) + 1)
        PROVE  Append(s, l)[i] # "request"
    <2>1. CASE i \in 2..Len(s)
      BY <1>1, <1>2, <2>1
    <2>2. CASE i = Len(s) + 1
      BY <1>1, <1>2, <2>2
    <2>. QED  BY <1>2, <2>1, <2>2
  <1>. QED  BY <1>1, <1>2, <1>3

(* Reading a line.                                                         *)
LEMMA ReadOff ==
    ASSUME NEW s \in Seq(Lines), s # <<>>,
           \A i \in 2..Len(s) : s[i] # "request"
    PROVE  /\ Tail(s) \in Seq(Lines) /\ Head(s) = s[1] /\ s[1] \in Lines
           /\ \A i \in 2..Len(Tail(s)) : Tail(s)[i] # "request"
           /\ Tail(s) # <<>> => Tail(s)[1] # "request"
  <1>1. /\ Tail(s) \in Seq(Lines) /\ Len(Tail(s)) = Len(s) - 1
        /\ \A i \in 1..Len(Tail(s)) : Tail(s)[i] = s[i + 1]
    BY HeadTailProperties
  <1>2. Len(s) \in Nat /\ Len(s) # 0
    BY LenProperties, EmptySeq
  <1>3. Head(s) = s[1] /\ s[1] \in Lines
    BY <1>2, HeadTailProperties, ElementOfSeq
  <1>4. ASSUME NEW i \in 1..Len(Tail(s))
        PROVE  Tail(s)[i] # "request"
    <2>1. i + 1 \in 2..Len(s)
      BY <1>1, <1>2
    <2>. QED  BY <1>1, <2>1
  <1>5. Tail(s) # <<>> => 1 \in 1..Len(Tail(s))
    BY <1>1, <1>2, EmptySeq
  <1>. QED  BY <1>1, <1>2, <1>3, <1>4, <1>5

(* The initial state.                                                      *)
LEMMA TypeInit == Init => TypeInv
  <1>. SUFFICES ASSUME Init PROVE TypeInv
    OBVIOUS
  <1>1. <<>> \in Seq(Lines) /\ Len(<<>>) = 0
    BY EmptySeq
  <1>2. TypeOK
    BY <1>1, ClientsAssumption, ConnsAssumption
       DEF Init, TypeOK, Lines, WorkerPCs, Requests
  <1>3. Wire
    BY <1>1 DEF Init, Wire
  <1>. QED  BY <1>2, <1>3 DEF TypeInv

(* The clients.                                                            *)
LEMMA TypeClient ==
    ASSUME TypeInv, NEW c \in Conns, ClientStep(c)
    PROVE  TypeInv'
  <1>. USE DEF TypeInv
  <1>0. /\ sent \in [Conns -> Seq(Lines)]
        /\ \A d \in Conns : sent[d] \in Seq(Lines)
    BY DEF TypeOK, Lines
  <1>1. CASE Connect(c)
    <2>1. TypeOK'
      BY <1>1 DEF Connect, TypeOK, childVars, replyVars
    <2>2. Wire'
      BY <1>1 DEF Connect, TypeOK, Wire, childVars
    <2>. QED  BY <2>1, <2>2
  <1>2. CASE ClientClose(c)
    <2>1. TypeOK'
      BY <1>2 DEF ClientClose, TypeOK, childVars, replyVars
    <2>2. Wire'
      BY <1>2 DEF ClientClose, TypeOK, Wire, childVars
    <2>. QED  BY <2>1, <2>2
  <1>3. ASSUME NEW l \in Lines, NEW next \in {"headers", "reading"},
               SendLine(c, l, next),
               (sent[c] = <<>> /\ client[c] = "connected") \/ l # "request"
        PROVE  TypeInv'
    <2>1. /\ Append(sent[c], l) \in Seq(Lines)
          /\ \A i \in 2..Len(Append(sent[c], l)) : Append(sent[c], l)[i] # "request"
          /\ sent[c] # <<>> => Append(sent[c], l)[1] = sent[c][1]
          /\ sent[c] = <<>> => Append(sent[c], l)[1] = l
      BY <1>0, <1>3, Appended DEF Wire
    <2>2. /\ sent' = [sent EXCEPT ![c] = Append(sent[c], l)]
          /\ client' = [client EXCEPT ![c] = next]
          /\ pc' = pc /\ conn' = conn /\ status' = status /\ child' = child
      BY <1>3 DEF SendLine, childVars
    <2>3. TypeOK'
      <3>1. sent' \in [Conns -> Seq(Lines)]
        BY <1>0, <2>1, <2>2
      <3>. QED  BY <1>3, <2>2, <3>1, SMTT(30) DEF SendLine, TypeOK, childVars, replyVars, Lines
    <2>4. /\ sent'[c] = Append(sent[c], l) /\ client'[c] = next
          /\ \A d \in Conns : d # c =>
                sent'[d] = sent[d] /\ client'[d] = client[d]
      BY <2>2, <1>0 DEF TypeOK
    <2>5. \A d \in Conns : client'[d] \in {"new", "connected"} => sent'[d] = <<>>
      BY <2>4 DEF Wire
    <2>6. ASSUME NEW d \in Conns
          PROVE  \A i \in 2..Len(sent'[d]) : sent'[d][i] # "request"
      <3>1. CASE d = c
        BY <2>1, <2>4, <3>1
      <3>2. CASE d # c
        BY <2>4, <3>2 DEF Wire
      <3>. QED  BY <3>1, <3>2
    <2>7. ASSUME NEW w \in Workers, pc[w] = "hdrs"
          PROVE  /\ client'[conn[w]] \notin {"new", "connected"}
                 /\ sent'[conn[w]] # <<>> => sent'[conn[w]][1] # "request"
      <3>1. conn[w] \in Conns
        BY <2>7 DEF TypeOK
      <3>2. /\ client[conn[w]] \notin {"new", "connected"}
            /\ sent[conn[w]] # <<>> => sent[conn[w]][1] # "request"
        BY <2>7 DEF Wire
      <3>3. CASE conn[w] = c
        BY <1>3, <2>1, <2>4, <3>2, <3>3
      <3>4. CASE conn[w] # c
        BY <2>4, <3>1, <3>2, <3>4
      <3>. QED  BY <3>3, <3>4
    <2>8. Wire'
      BY <2>2, <2>5, <2>6, <2>7 DEF Wire
    <2>. QED  BY <2>3, <2>8
  <1>4. CASE SendRequest(c)
    BY <1>3, <1>4 DEF SendRequest, Wire, Lines
  <1>5. CASE SendHeader(c)
    BY <1>3, <1>5 DEF SendHeader, Lines
  <1>6. CASE SendBlank(c)
    BY <1>3, <1>6 DEF SendBlank, Lines
  <1>. QED  BY <1>1, <1>2, <1>4, <1>5, <1>6 DEF ClientStep

(* Steps that neither send nor read lines, and go to another point than    *)
(* requestReadhdrs.                                                        *)
LEMMA WireKept ==
    ASSUME TypeInv, NEW w \in Workers, NEW l \in WorkerPCs \ {"hdrs"},
           pc' = [pc EXCEPT ![w] = l],
           client' = client /\ sent' = sent,
           \A v \in Workers : v # w =>
              /\ conn'[v] = conn[v] /\ status'[v] = status[v]
              /\ child'[v] = child[v],
           l = "waitpid" <=> child'[w] # "none",
           l \in {"error", "static", "cgi"} => status'[w] # "none"
    PROVE  Wire'
  <1>1. \A v \in Workers : pc'[v] = IF v = w THEN l ELSE pc[v]
    BY DEF TypeInv, TypeOK
  <1>. QED  BY <1>1 DEF TypeInv, Wire

(* The counters of a worker.                                               *)
Counters == [req : Nat, static : Nat, dynamic : Nat]

(* A count is a count again.                                               *)
LEMMA Counted ==
    ASSUME NEW s \in Counters, NEW r
    PROVE  CountRequest(s) \in Counters /\ CountServed(s, r) \in Counters
  BY DEF Counters, CountRequest, CountServed

(* The workers.                                                            *)
LEMMA TypeTake ==
    ASSUME TypeInv, NEW w \in Workers, Take(w)
    PROVE  TypeInv'
  <1>1. PICK c \in open : conn' = [conn EXCEPT ![w] = c]
    BY DEF Take
  <1>2. stats' \in [Workers -> Counters]
    BY Counted DEF Take, TypeInv, TypeOK, Counters
  <1>3. TypeOK'
    BY <1>1, <1>2, ConnsAssumption
       DEF Take, TypeInv, TypeOK, Goto, WorkerPCs, envVars, childVars, replyVars,
           Counters
  <1>4. pc[w] # "waitpid" /\ child' = child /\ child[w] = "none"
    BY DEF Take, At, childVars, TypeInv, TypeOK, Wire
  <1>5. Wire'
    BY <1>1, <1>4, WireKept DEF Take, Goto, WorkerPCs, envVars, TypeInv, TypeOK
  <1>. QED  BY <1>3, <1>5 DEF TypeInv

(* The request line is taken off the wire, so what follows are headers.    *)
LEMMA TypeReadLine ==
    ASSUME TypeInv, NEW w \in Workers, ReadLine(w)
    PROVE  TypeInv'
  <1>. DEFINE c == conn[w]
  <1>1. /\ pc[w] = "line" /\ c \in Conns /\ sent[c] \in Seq(Lines)
        /\ sent \in [Conns -> Seq(Lines)]
    BY DEF ReadLine, At, TypeInv, TypeOK, Lines
  <1>2. /\ server' = server /\ open' = open /\ client' = client
        /\ target' = target /\ files' = files /\ conn' = conn /\ buf' = buf
        /\ stats' = stats /\ child' = child /\ inherited' = inherited
        /\ heads' = heads /\ bodies' = bodies
    BY DEF ReadLine, envVars, childVars, replyVars
  <1>3. /\ request' \in [Workers -> Requests]
        /\ sent' \in [Conns -> Seq(Lines)]
        /\ \A d \in Conns : \A i \in 2..Len(sent'[d]) : sent'[d][i] # "request"
        /\ \A d \in Conns : client[d] \in {"new", "connected"} => sent'[d] = <<>>
        /\ sent'[c] # <<>> => sent'[c][1] # "request"
        /\ client[c] \notin {"new", "connected"}
        /\ \A d \in Conns : d # c => sent'[d] = sent[d]
    <2>1. CASE /\ LineReady(c)
               /\ sent' = [sent EXCEPT ![c] = Tail(@)]
               /\ request' = [request EXCEPT ![w] = target[c]]
      <3>1. sent[c] # <<>> /\ \A i \in 2..Len(sent[c]) : sent[c][i] # "request"
        BY <1>1, <2>1 DEF LineReady, TypeInv, Wire
      <3>2. /\ Tail(sent[c]) \in Seq(Lines)
            /\ \A i \in 2..Len(Tail(sent[c])) : Tail(sent[c])[i] # "request"
            /\ Tail(sent[c]) # <<>> => Tail(sent[c])[1] # "request"
        BY <1>1, <3>1, ReadOff
      <3>3. sent'[c] = Tail(sent[c]) /\ \A d \in Conns : d # c => sent'[d] = sent[d]
        BY <1>1, <2>1
      <3>4. client[c] \notin {"new", "connected"}
        BY <1>1, <3>1 DEF TypeInv, Wire
      <3>5. sent' \in [Conns -> Seq(Lines)]
        BY <1>1, <2>1, <3>2
      <3>6. request' \in [Workers -> Requests]
        BY <1>1, <2>1, ClientsAssumption DEF TypeInv, TypeOK
      <3>7. ASSUME NEW d \in Conns
            PROVE  /\ \A i \in 2..Len(sent'[d]) : sent'[d][i] # "request"
                   /\ client[d] \in {"new", "connected"} => sent'[d] = <<>>
        <4>1. CASE d = c
          BY <3>2, <3>3, <3>4, <4>1
        <4>2. CASE d # c
          BY <3>3, <4>2 DEF TypeInv, Wire
        <4>. QED  BY <4>1, <4>2
      <3>. QED  BY <3>2, <3>3, <3>4, <3>5, <3>6, <3>7
    <2>2. CASE /\ EOF(c)
               /\ \E r \in Requests : request' = [request EXCEPT ![w] = r]
               /\ UNCHANGED sent
      BY <1>1, <2>2 DEF EOF, TypeInv, TypeOK, Wire
    <2>. QED  BY <2>1, <2>2 DEF ReadLine
  <1>. HIDE DEF c
  <1>4. \/ pc' = [pc EXCEPT ![w] = "error"] /\ status' = [status EXCEPT ![w] = "501"]
        \/ pc' = [pc EXCEPT ![w] = "hdrs"] /\ status' = status
    BY DEF ReadLine, Goto
  <1>5. TypeOK'
    <2>1. /\ pc' \in [Workers -> WorkerPCs]
          /\ status' \in [Workers -> {"none", "200", "403", "404", "501"}]
          /\ \A v \in Workers : pc'[v] = "idle" <=> pc[v] = "idle"
      BY <1>1, <1>4, ZenonT(40) DEF TypeInv, TypeOK, WorkerPCs
    <2>. QED  BY <1>2, <1>3, <2>1 DEF TypeInv, TypeOK, Lines
  <1>6. ASSUME NEW v \in Workers, pc'[v] = "hdrs"
        PROVE  /\ client[conn[v]] \notin {"new", "connected"}
               /\ sent'[conn[v]] # <<>> => sent'[conn[v]][1] # "request"
    <2>1. CASE conn[v] = c
      BY <1>3, <2>1
    <2>2. CASE conn[v] # c
      <3>1. v # w /\ pc[v] = "hdrs" /\ conn[v] \in Conns
        BY <1>4, <1>6, <2>2 DEF TypeInv, TypeOK, c
      <3>. QED  BY <1>3, <2>2, <3>1 DEF TypeInv, Wire
    <2>. QED  BY <2>1, <2>2
  <1>7. ASSUME NEW v \in Workers, pc'[v] \in {"error", "static", "cgi"}
        PROVE  status'[v] # "none"
    BY <1>1, <1>4, <1>7, ZenonT(40) DEF TypeInv, TypeOK, Wire
  <1>8. \A v \in Workers : pc'[v] = "waitpid" <=> child[v] # "none"
    BY <1>1, <1>4 DEF TypeInv, TypeOK, Wire
  <1>9. Wire'
    BY <1>2, <1>3, <1>6, <1>7, <1>8 DEF Wire
  <1>. QED  BY <1>5, <1>9 DEF TypeInv

(* A header line or the empty line is read.                                *)
LEMMA TypeReadHeader ==
    ASSUME TypeInv, NEW w \in Workers, ReadHeader(w)
    PROVE  TypeInv'
  <1>. DEFINE c == conn[w]
  <1>1. /\ pc[w] = "hdrs" /\ c \in Conns /\ sent[c] \in Seq(Lines)
        /\ sent \in [Conns -> Seq(Lines)] /\ sent[c] # <<>>
        /\ \A i \in 2..Len(sent[c]) : sent[c][i] # "request"
    BY DEF ReadHeader, LineReady, At, TypeInv, TypeOK, Lines, Wire
  <1>2. /\ server' = server /\ open' = open /\ client' = client
        /\ target' = target /\ files' = files /\ conn' = conn
        /\ request' = request /\ status' = status
        /\ stats' = stats /\ child' = child /\ inherited' = inherited
        /\ heads' = heads /\ bodies' = bodies
        /\ sent' = [sent EXCEPT ![c] = Tail(@)]
        /\ buf' = [buf EXCEPT ![w] = Head(sent[c])]
        /\ pc' = [pc EXCEPT ![w] = IF buf'[w] = "blank" THEN "stat" ELSE "hdrs"]
    BY DEF ReadHeader, envVars, childVars, replyVars, Goto
  <1>3. /\ Tail(sent[c]) \in Seq(Lines) /\ Head(sent[c]) = sent[c][1]
        /\ sent[c][1] \in Lines
        /\ \A i \in 2..Len(Tail(sent[c])) : Tail(sent[c])[i] # "request"
        /\ Tail(sent[c]) # <<>> => Tail(sent[c])[1] # "request"
    BY <1>1, ReadOff
  <1>4. Head(sent[c]) \in {"header", "blank"}
    BY <1>1, <1>3 DEF TypeInv, Wire, Lines
  <1>5. sent'[c] = Tail(sent[c]) /\ \A d \in Conns : d # c => sent'[d] = sent[d]
    BY <1>1, <1>2
  <1>6. sent' \in [Conns -> Seq(Lines)]
    BY <1>1, <1>2, <1>3
  <1>. HIDE DEF c
  <1>7. TypeOK'
    BY <1>1, <1>2, <1>4, <1>6 DEF TypeInv, TypeOK, Lines, WorkerPCs
  <1>8. ASSUME NEW v \in Workers, pc'[v] = "hdrs"
        PROVE  /\ client[conn[v]] \notin {"new", "connected"}
               /\ sent'[conn[v]] # <<>> => sent'[conn[v]][1] # "request"
    <2>1. pc[v] = "hdrs" /\ conn[v] \in Conns
      BY <1>1, <1>2, <1>8 DEF TypeInv, TypeOK
    <2>2. CASE conn[v] = c
      BY <1>3, <1>5, <2>1, <2>2 DEF TypeInv, Wire
    <2>3. CASE conn[v] # c
      BY <1>5, <2>1, <2>3 DEF TypeInv, Wire
    <2>. QED  BY <2>2, <2>3
  <1>9. \A d \in Conns : client[d] \in {"new", "connected"} => sent'[d] = <<>>
    BY <1>1, <1>5 DEF TypeInv, Wire
  <1>10. ASSUME NEW d \in Conns
         PROVE  \A i \in 2..Len(sent'[d]) : sent'[d][i] # "request"
    <2>1. CASE d = c
      BY <1>3, <1>5, <2>1
    <2>2. CASE d # c
      BY <1>5, <2>2 DEF TypeInv, Wire
    <2>. QED  BY <2>1, <2>2
  <1>11. ASSUME NEW v \in Workers, pc'[v] \in {"error", "static", "cgi"}
         PROVE  status'[v] # "none"
    BY <1>1, <1>2, <1>11 DEF TypeInv, TypeOK, Wire
  <1>12. \A v \in Workers : pc'[v] = "waitpid" <=> child[v] # "none"
    BY <1>1, <1>2 DEF TypeInv, TypeOK, Wire
  <1>13. Wire'
    BY <1>2, <1>8, <1>9, <1>10, <1>11, <1>12 DEF Wire
  <1>. QED  BY <1>7, <1>13 DEF TypeInv

(* At the end of the input nothing is taken off the wire.                  *)
LEMMA TypeReadHeaderEOF ==
    ASSUME TypeInv, NEW w \in Workers, ReadHeaderEOF(w)
    PROVE  TypeInv'
  <1>1. /\ server' = server /\ open' = open /\ client' = client /\ sent' = sent
        /\ target' = target /\ files' = files /\ conn' = conn
        /\ request' = request /\ status' = status
        /\ stats' = stats /\ child' = child /\ inherited' = inherited
        /\ heads' = heads /\ bodies' = bodies
    BY DEF ReadHeaderEOF, envVars, childVars, replyVars
  <1>2. /\ pc[w] = "hdrs" /\ pc \in [Workers -> WorkerPCs]
        /\ buf \in [Workers -> {"uninitialized", "header", "blank"}]
    BY DEF ReadHeaderEOF, At, TypeInv, TypeOK
  <1>3. \/ buf' = buf /\ pc' = pc
        \/ \E l \in {"header", "blank"} :
              /\ buf' = [buf EXCEPT ![w] = l]
              /\ pc' = [pc EXCEPT ![w] = IF l = "blank" THEN "stat" ELSE "hdrs"]
    BY DEF ReadHeaderEOF, Goto
  <1>4. buf' \in [Workers -> {"uninitialized", "header", "blank"}]
    BY <1>2, <1>3
  <1>5. pc' \in [Workers -> WorkerPCs]
    BY <1>2, <1>3 DEF WorkerPCs
  <1>6. \A v \in Workers : pc'[v] = pc[v] \/ (pc[v] = "hdrs" /\ pc'[v] = "stat")
    <2>1. CASE pc' = pc
      BY <2>1
    <2>2. ASSUME NEW l \in {"stat", "hdrs"}, pc' = [pc EXCEPT ![w] = l],
                 NEW v \in Workers
          PROVE  pc'[v] = pc[v] \/ (pc[v] = "hdrs" /\ pc'[v] = "stat")
      BY <1>2, <2>2
    <2>3. pc' = pc \/ \E l \in {"stat", "hdrs"} : pc' = [pc EXCEPT ![w] = l]
      BY <1>3
    <2>. QED  BY <2>1, <2>2, <2>3
  <1>7. TypeOK'
    BY <1>1, <1>4, <1>5, <1>6, SMTT(30) DEF TypeInv, TypeOK
  <1>8. Wire'
    BY <1>1, <1>6 DEF TypeInv, Wire
  <1>. QED  BY <1>7, <1>8 DEF TypeInv

(* The status is set before the response.                                  *)
LEMMA TypeStat ==
    ASSUME TypeInv, NEW w \in Workers, Stat(w)
    PROVE  TypeInv'
  <1>1. /\ server' = server /\ open' = open /\ client' = client /\ sent' = sent
        /\ target' = target /\ files' = files /\ conn' = conn
        /\ request' = request /\ buf' = buf /\ child' = child
        /\ inherited' = inherited /\ heads' = heads /\ bodies' = bodies
        /\ pc[w] = "stat"
    BY DEF Stat, envVars, childVars, replyVars, At
  <1>2. stats \in [Workers -> Counters]
    BY DEF TypeInv, TypeOK, Counters
  <1>3. stats' = stats \/ stats' = [stats EXCEPT ![w] = CountServed(@, request[w])]
    BY DEF Stat
  <1>4. stats' \in [Workers -> Counters]
    BY <1>2, <1>3, Counted
  <1>5. PICK l \in {"error", "static", "cgi"}, st \in {"200", "403", "404"} :
           pc' = [pc EXCEPT ![w] = l] /\ status' = [status EXCEPT ![w] = st]
    BY DEF Stat, Goto
  <1>6. TypeOK'
    BY <1>1, <1>4, <1>5 DEF TypeInv, TypeOK, Counters, WorkerPCs
  <1>7. child[w] = "none"
    BY <1>1 DEF TypeInv, Wire
  <1>8. Wire'
    BY <1>1, <1>5, <1>7, WireKept DEF TypeInv, TypeOK, WorkerPCs
  <1>. QED  BY <1>6, <1>8 DEF TypeInv

(* A step of a worker after it has read its request.                       *)
LEMMA TypeReply ==
    ASSUME TypeInv, NEW w \in Workers,
           \/ ErrorHead(w) \/ ErrorRest(w) \/ StaticHead(w) \/ StaticBody(w)
           \/ CgiHead(w) \/ ForkChild(w) \/ WaitPid(w)
    PROVE  TypeInv'
  <1>1. /\ client' = client /\ sent' = sent /\ target' = target
        /\ files' = files /\ conn' = conn /\ request' = request /\ buf' = buf
        /\ status' = status /\ stats' = stats
        /\ pc[w] \in {"error", "error_rest", "static", "static_body", "cgi",
                      "fork", "waitpid"}
    BY DEF ErrorHead, ErrorRest, StaticHead, StaticBody, CgiHead, ForkChild,
           WaitPid, envVars, At
  <1>2. \/ pc' = pc /\ child' = child
        \/ \E l \in {"error_rest", "static_body", "fork", "close"} :
              pc' = [pc EXCEPT ![w] = l] /\ child' = child /\ pc[w] # "waitpid"
        \/ pc' = [pc EXCEPT ![w] = "waitpid"] /\ child' = [child EXCEPT ![w] = "running"]
        \/ pc' = [pc EXCEPT ![w] = "close"] /\ child' = [child EXCEPT ![w] = "none"]
    BY DEF ErrorHead, ErrorRest, StaticHead, StaticBody, CgiHead, ForkChild,
           WaitPid, WriteRest, Goto, childVars, At
  <1>3. conn[w] \in Conns
    BY <1>1 DEF TypeInv, TypeOK
  <1>4. /\ server' \in {"running", "exited"} /\ open' \subseteq Conns
        /\ inherited' \in [Workers -> SUBSET Conns]
        /\ bodies' \subseteq Conns
    BY <1>3 DEF ErrorHead, ErrorRest, StaticHead, StaticBody, CgiHead, ForkChild,
       WaitPid, WriteRest, ExitServer, childVars, replyVars, TypeInv, TypeOK
  <1>5. heads' = heads \/ (WriteHead(w) /\ pc[w] \in {"error", "static", "cgi"})
    BY DEF ErrorHead, ErrorRest, StaticHead, StaticBody, CgiHead, ForkChild,
       WaitPid, WriteRest, replyVars, At
  <1>6. heads' \subseteq [conn : Conns, worker : Workers, request : Requests,
                         status : {"200", "403", "404", "501"}, stats : Counters]
    BY <1>3, <1>5 DEF WriteHead, TypeInv, TypeOK, Wire, Counters
  <1>7. /\ pc \in [Workers -> WorkerPCs]
        /\ child \in [Workers -> {"none", "running", "zombie"}]
    BY DEF TypeInv, TypeOK
  <1>8. pc' \in [Workers -> WorkerPCs]
    BY <1>2, <1>7 DEF WorkerPCs
  <1>9. child' \in [Workers -> {"none", "running", "zombie"}]
    BY <1>2, <1>7
  <1>10. /\ \A v \in Workers : v # w => pc'[v] = pc[v] /\ child'[v] = child[v]
         /\ pc'[w] = pc[w] \/ pc'[w] \in
               {"error_rest", "static_body", "fork", "waitpid", "close"}
    BY <1>2, <1>7
  <1>11. pc'[w] = "waitpid" <=> child'[w] # "none"
    BY <1>2, <1>7 DEF TypeInv, Wire
  <1>12. TypeOK'
    BY <1>1, <1>4, <1>6, <1>8, <1>9, <1>10, SMTT(30) DEF TypeInv, TypeOK, Counters
  <1>13. Wire'
    BY <1>1, <1>10, <1>11 DEF TypeInv, Wire
  <1>. QED  BY <1>12, <1>13 DEF TypeInv

(* The end of a request, the CGI children and the files.                   *)
LEMMA TypeOthers ==
    ASSUME TypeInv,
           \/ \E w \in Workers : CloseConn(w) \/ ChildRuns(w) \/ Overrun(w)
           \/ \E f \in Removable : RemoveFile(f)
           \/ UNCHANGED vars
    PROVE  TypeInv'
  <1>1. ASSUME NEW w \in Workers, CloseConn(w)
        PROVE  TypeInv'
    <2>1. TypeOK'
      BY <1>1 DEF CloseConn, Goto, TypeInv, TypeOK, WorkerPCs, envVars, childVars,
                  replyVars
    <2>2. pc[w] = "close" /\ child' = child /\ child[w] = "none"
      BY <1>1 DEF CloseConn, At, childVars, TypeInv, Wire
    <2>3. Wire'
      BY <1>1, <2>2, WireKept DEF CloseConn, Goto, WorkerPCs, envVars, TypeInv, TypeOK
    <2>. QED  BY <2>1, <2>3 DEF TypeInv
  <1>2. ASSUME NEW w \in Workers, ChildRuns(w)
        PROVE  TypeInv'
    <2>1. pc[w] = "waitpid" /\ child[w] = "running"
      BY <1>2 DEF ChildRuns, TypeInv, Wire
    <2>2. conn[w] \in Conns
      BY <2>1 DEF TypeInv, TypeOK
    <2>3. TypeOK'
      BY <1>2, <2>2 DEF ChildRuns, TypeInv, TypeOK, envVars
    <2>4. Wire'
      BY <1>2, <2>1 DEF ChildRuns, TypeInv, TypeOK, Wire, envVars
    <2>. QED  BY <2>3, <2>4 DEF TypeInv
  <1>3. ASSUME NEW f \in Removable, RemoveFile(f)
        PROVE  TypeInv'
    BY <1>3 DEF RemoveFile, TypeInv, TypeOK, Wire, childVars, replyVars
  <1>4. CASE UNCHANGED vars
    BY <1>4, SMTT(30) DEF vars, TypeInv, TypeOK, Wire
  <1>5. ASSUME NEW w \in Workers, Overrun(w)
        PROVE  TypeInv'
    BY <1>5, SMTT(30)
       DEF Overrun, ExitServer, TypeInv, TypeOK, Wire, envVars, childVars, replyVars
  <1>. QED  BY <1>1, <1>2, <1>3, <1>4, <1>5

(* All steps.                                                              *)
LEMMA TypeStep == TypeInv /\ [Next]_vars => TypeInv'
  <1>. SUFFICES ASSUME TypeInv, [Next]_vars PROVE TypeInv'
    OBVIOUS
  <1>1. ASSUME NEW w \in Workers, WorkerStep(w)
        PROVE  TypeInv'
    BY <1>1, TypeTake, TypeReadLine, TypeReadHeader, TypeReadHeaderEOF, TypeStat,
       TypeReply, TypeOthers DEF WorkerStep
  <1>. QED  BY <1>1, TypeClient, TypeOthers DEF Next

(* In every state of every server, the state has its type: requestReadhdrs *)
(* never finds a request line in its buffer, and no response goes out      *)
(* without a status.                                                       *)
THEOREM RequestsTyped == Spec => []TypeOK
  <1>1. TypeInv => TypeOK
    BY DEF TypeInv
  <1>. QED  BY TypeInit, TypeStep, <1>1, PTL DEF Spec

-----------------------------------------------------------------------------
(* What can end the server.                                                *)

(* The initial state.                                                      *)
LEMMA ServeInit == Init => ServeInv
  <1>. SUFFICES ASSUME Init PROVE ServeInv
    OBVIOUS
  <1>1. Serving /\ ServerRuns
    BY ConnsAssumption DEF Init, Serving, ServerRuns
  <1>. QED  BY <1>1, TypeInit DEF ServeInv

(* A cause that ended the server stays one.                                *)
LEMMA CauseStays ==
    ASSUME ServerRuns, target' = target, files' \subseteq files,
           server' = server,
           \A c \in Conns : /\ client[c] = "closed" => client'[c] = "closed"
                            /\ client[c] # "new" => client'[c] # "new"
    PROVE  ServerRuns'
  BY DEF ServerRuns

(* The clients.                                                            *)
LEMMA ServeClient ==
    ASSUME ServeInv, NEW c \in Conns, ClientStep(c)
    PROVE  Serving' /\ ServerRuns'
  <1>1. /\ server' = server /\ target' = target /\ files' = files /\ pc' = pc
        /\ conn' = conn /\ request' = request
    BY DEF ClientStep, Connect, SendRequest, SendHeader, SendBlank, ClientClose,
           SendLine
  <1>2. \/ open' = open \cup {c} /\ client' = [client EXCEPT ![c] = "connected"]
           /\ client[c] = "new"
        \/ open' = open /\ client[c] # "new" /\ client[c] # "closed"
           /\ \E n \in {"headers", "reading"} : client' = [client EXCEPT ![c] = n]
        \/ open' = open /\ client[c] # "new" /\ (c \in open => c \in Leaving)
           /\ client' = [client EXCEPT ![c] = "closed"]
    BY DEF ClientStep, Connect, SendRequest, SendHeader, SendBlank, ClientClose,
           SendLine, Ended
  <1>3. /\ client \in [Conns -> {"new", "connected", "headers", "reading", "closed"}]
        /\ open \subseteq Conns /\ \A w \in Workers : conn[w] \in Conns \cup {NoConn}
        /\ \A w \in Workers : conn[w] = NoConn <=> pc[w] = "idle"
    BY DEF ServeInv, TypeInv, TypeOK
  <1>4. /\ \A d \in Conns : d # c => client'[d] = client[d]
        /\ client[c] = "closed" => client'[c] = "closed"
        /\ client'[c] # "new"
        /\ open \subseteq open' /\ open' \subseteq open \cup {c}
        /\ c \in open' /\ client'[c] = "closed" => c \in Leaving
    BY <1>2, <1>3 DEF ServeInv, Serving
  <1>5. ServerRuns'
    BY <1>1, <1>4, CauseStays DEF ServeInv
  <1>6. Serving'
    BY <1>1, <1>3, <1>4 DEF ServeInv, Serving
  <1>. QED  BY <1>5, <1>6

(* A step within requestHandle that does not end the server.               *)
LEMMA ServeGoto ==
    ASSUME ServeInv, NEW w \in Workers, NEW l \in WorkerPCs \ {"idle", "line"},
           pc[w] \notin {"idle", "line"}, pc' = [pc EXCEPT ![w] = l],
           server' = server, open' = open, client' = client, target' = target,
           files' = files, conn' = conn, request' = request,
           l \in {"static", "static_body"} => request[w] \in {"static", "refused"},
           l \in {"cgi", "fork", "waitpid"} => request[w] = "cgi"
    PROVE  Serving' /\ ServerRuns'
  <1>1. \A v \in Workers : pc'[v] = IF v = w THEN l ELSE pc[v]
    BY DEF ServeInv, TypeInv, TypeOK
  <1>2. Serving'
    BY <1>1 DEF ServeInv, Serving
  <1>. QED  BY <1>2, CauseStays DEF ServeInv

(* A step that ends it, with its cause.                                    *)
LEMMA ServeExit ==
    ASSUME ServeInv, NEW w \in Workers, pc[w] # "idle", server = "running",
           ExitServer, pc' = pc, client' = client, target' = target,
           files' = files, conn' = conn, request' = request,
           \/ client[conn[w]] = "closed"
           \/ target[conn[w]] \in {"refused", "overlong"}
           \/ target[conn[w]] = "static" /\ "static" \notin files
    PROVE  Serving' /\ ServerRuns'
  <1>1. Serving'
    BY DEF ServeInv, Serving, ExitServer
  <1>2. conn[w] \in Conns
    BY DEF ServeInv, TypeInv, TypeOK
  <1>3. /\ client[conn[w]] # "new"
        /\ client[conn[w]] = "closed" => conn[w] \in Leaving
    BY <1>2, ConnsAssumption DEF ServeInv, Serving
  <1>. QED  BY <1>1, <1>2, <1>3 DEF ServerRuns

(* A worker takes a connection that is open and no other worker's.         *)
LEMMA ServeTake ==
    ASSUME ServeInv, NEW w \in Workers, Take(w)
    PROVE  Serving' /\ ServerRuns'
  <1>1. PICK c \in open \ {conn[v] : v \in Workers} :
           conn' = [conn EXCEPT ![w] = c]
    BY DEF Take
  <1>2. /\ server' = server /\ open' = open /\ client' = client
        /\ target' = target /\ files' = files /\ request' = request
        /\ pc' = [pc EXCEPT ![w] = "line"]
    BY DEF Take, Goto, envVars
  <1>3. \A v \in Workers : /\ pc'[v] = IF v = w THEN "line" ELSE pc[v]
                           /\ conn'[v] = IF v = w THEN c ELSE conn[v]
    BY <1>1, <1>2 DEF ServeInv, TypeInv, TypeOK
  <1>4. \A v \in Workers : conn[v] # c
    BY <1>1
  <1>5. Serving'
    BY <1>1, <1>2, <1>3, <1>4 DEF ServeInv, Serving
  <1>. QED  BY <1>2, <1>5, CauseStays DEF ServeInv

(* It serves the request it read, or anything if the client has closed.    *)
LEMMA ServeReadLine ==
    ASSUME ServeInv, NEW w \in Workers, ReadLine(w)
    PROVE  Serving' /\ ServerRuns'
  <1>1. /\ server' = server /\ open' = open /\ client' = client
        /\ target' = target /\ files' = files /\ conn' = conn
        /\ pc[w] = "line"
    BY DEF ReadLine, envVars, At
  <1>2. PICK l \in {"error", "hdrs"} : pc' = [pc EXCEPT ![w] = l]
    BY DEF ReadLine, Goto
  <1>3. PICK r : /\ request' = [request EXCEPT ![w] = r]
                 /\ r = target[conn[w]] \/ client[conn[w]] = "closed"
    BY DEF ReadLine, EOF
  <1>4. \A v \in Workers : /\ pc'[v] = IF v = w THEN l ELSE pc[v]
                           /\ request'[v] = IF v = w THEN r ELSE request[v]
    BY <1>2, <1>3 DEF ServeInv, TypeInv, TypeOK
  <1>5. Serving'
    BY <1>1, <1>3, <1>4 DEF ServeInv, Serving
  <1>. QED  BY <1>1, <1>5, CauseStays DEF ServeInv

(* The other steps that a worker takes before it responds.                 *)
LEMMA ServeBefore ==
    ASSUME ServeInv, NEW w \in Workers,
           ReadHeader(w) \/ ReadHeaderEOF(w) \/ Stat(w)
    PROVE  Serving' /\ ServerRuns'
  <1>1. /\ server' = server /\ open' = open /\ client' = client
        /\ target' = target /\ files' = files /\ conn' = conn
        /\ request' = request /\ pc[w] \in {"hdrs", "stat"}
    BY DEF ReadHeader, ReadHeaderEOF, Stat, envVars, At
  <1>2. CASE pc' = pc
    BY <1>1, <1>2, CauseStays DEF ServeInv, Serving
  <1>3. CASE \E l \in {"stat", "hdrs", "error"} : pc' = [pc EXCEPT ![w] = l]
    BY <1>1, <1>3, ServeGoto DEF WorkerPCs
  <1>4. CASE /\ pc' = [pc EXCEPT ![w] = IF request[w] = "cgi" THEN "cgi" ELSE "static"]
             /\ request[w] \in files /\ request[w] # "forbidden"
    <2>1. request[w] \in {"static", "refused", "cgi"}
      BY <1>4 DEF ServeInv, Serving
    <2>. QED  BY <1>1, <1>4, <2>1, ServeGoto DEF WorkerPCs
  <1>5. \/ pc' = pc
        \/ \E l \in {"stat", "hdrs", "error"} : pc' = [pc EXCEPT ![w] = l]
        \/ /\ pc' = [pc EXCEPT ![w] = IF request[w] = "cgi" THEN "cgi" ELSE "static"]
           /\ request[w] \in files /\ request[w] # "forbidden"
    BY DEF ReadHeader, ReadHeaderEOF, Stat, MayServe, Goto
  <1>. QED  BY <1>2, <1>3, <1>4, <1>5

(* The response: its writes fail when the client has closed, and Open and  *)
(* Mmap when the file was removed or is one they refuse.                   *)
LEMMA ServeReply ==
    ASSUME ServeInv, NEW w \in Workers,
           \/ ErrorHead(w) \/ ErrorRest(w) \/ StaticHead(w) \/ StaticBody(w)
           \/ CgiHead(w) \/ ForkChild(w) \/ WaitPid(w)
    PROVE  Serving' /\ ServerRuns'
  <1>1. /\ client' = client /\ target' = target /\ files' = files
        /\ conn' = conn /\ request' = request /\ server = "running"
        /\ pc[w] \in {"error", "error_rest", "static", "static_body", "cgi",
                      "fork", "waitpid"}
    BY DEF ErrorHead, ErrorRest, StaticHead, StaticBody, CgiHead, ForkChild,
           WaitPid, envVars, At
  <1>2. CASE /\ server' = server /\ open' = open
             /\ \/ \E l \in {"error_rest", "close"} : pc' = [pc EXCEPT ![w] = l]
                \/ pc[w] = "static" /\ pc' = [pc EXCEPT ![w] = "static_body"]
                \/ pc[w] = "cgi" /\ pc' = [pc EXCEPT ![w] = "fork"]
                \/ pc[w] = "fork" /\ pc' = [pc EXCEPT ![w] = "waitpid"]
    <2>1. PICK l \in {"error_rest", "close", "static_body", "fork", "waitpid"} :
             /\ pc' = [pc EXCEPT ![w] = l]
             /\ l = "static_body" => pc[w] = "static"
             /\ l \in {"fork", "waitpid"} => pc[w] \in {"cgi", "fork"}
      BY <1>2
    <2>2. /\ l = "static_body" => request[w] \in {"static", "refused"}
          /\ l \in {"fork", "waitpid"} => request[w] = "cgi"
      BY <2>1 DEF ServeInv, Serving
    <2>. QED  BY <1>1, <1>2, <2>1, <2>2, ServeGoto DEF WorkerPCs
  <1>3. CASE ExitServer /\ pc' = pc /\ client[conn[w]] = "closed"
    BY <1>1, <1>3, ServeExit
  <1>4. CASE /\ ExitServer /\ pc' = pc /\ pc[w] \in {"static", "static_body"}
             /\ ~Opens(request[w])
    <2>1. /\ request[w] \in {"static", "refused"}
          /\ request[w] = target[conn[w]] \/ client[conn[w]] = "closed"
      BY <1>4 DEF ServeInv, Serving
    <2>2. request[w] = "refused" \/ (request[w] = "static" /\ "static" \notin files)
      BY <1>4, <2>1 DEF Opens
    <2>. QED  BY <1>1, <1>4, <2>1, <2>2, ServeExit
  <1>5. \/ /\ server' = server /\ open' = open
           /\ \/ \E l \in {"error_rest", "close"} : pc' = [pc EXCEPT ![w] = l]
              \/ pc[w] = "static" /\ pc' = [pc EXCEPT ![w] = "static_body"]
              \/ pc[w] = "cgi" /\ pc' = [pc EXCEPT ![w] = "fork"]
              \/ pc[w] = "fork" /\ pc' = [pc EXCEPT ![w] = "waitpid"]
        \/ ExitServer /\ pc' = pc /\ client[conn[w]] = "closed"
        \/ /\ ExitServer /\ pc' = pc /\ pc[w] \in {"static", "static_body"}
           /\ ~Opens(request[w])
    BY DEF Opens, ErrorHead, ErrorRest, StaticHead, StaticBody, CgiHead, ForkChild,
           WaitPid, WriteRest, Goto, At
  <1>. QED  BY <1>2, <1>3, <1>4, <1>5

(* The end of a request, the CGI children and the files.                   *)
LEMMA ServeOthers ==
    ASSUME ServeInv,
           \/ \E w \in Workers : CloseConn(w) \/ ChildRuns(w) \/ Overrun(w)
           \/ \E f \in Removable : RemoveFile(f)
           \/ UNCHANGED vars
    PROVE  Serving' /\ ServerRuns'
  <1>1. ASSUME NEW w \in Workers, CloseConn(w)
        PROVE  Serving' /\ ServerRuns'
    <2>1. /\ server' = server /\ open' = open \ {conn[w]} /\ client' = client
          /\ target' = target /\ files' = files /\ request' = request
          /\ pc[w] = "close" /\ pc' = [pc EXCEPT ![w] = "idle"]
          /\ conn' = [conn EXCEPT ![w] = NoConn]
      BY <1>1 DEF CloseConn, Goto, At, envVars
    <2>2. \A v \in Workers : /\ pc'[v] = IF v = w THEN "idle" ELSE pc[v]
                             /\ conn'[v] = IF v = w THEN NoConn ELSE conn[v]
      BY <2>1 DEF ServeInv, TypeInv, TypeOK
    <2>3. \A v \in Workers : v # w /\ conn[v] # NoConn => conn[v] # conn[w]
      BY DEF ServeInv, Serving
    <2>4. Serving'
      BY <2>1, <2>2, <2>3 DEF ServeInv, Serving
    <2>. QED  BY <2>1, <2>4, CauseStays DEF ServeInv
  <1>2. ASSUME /\ server' = server /\ open' = open /\ client' = client
               /\ target' = target /\ files' \subseteq files /\ pc' = pc
               /\ conn' = conn /\ request' = request
        PROVE  Serving' /\ ServerRuns'
    BY <1>2, CauseStays DEF ServeInv, Serving
  <1>3. ASSUME NEW w \in Workers, ChildRuns(w)
        PROVE  Serving' /\ ServerRuns'
    BY <1>2, <1>3 DEF ChildRuns, envVars
  <1>4. ASSUME NEW f \in Removable, RemoveFile(f)
        PROVE  Serving' /\ ServerRuns'
    BY <1>2, <1>4 DEF RemoveFile
  <1>5. CASE UNCHANGED vars
    BY <1>2, <1>5 DEF vars
  <1>6. ASSUME NEW w \in Workers, Overrun(w)
        PROVE  Serving' /\ ServerRuns'
    <2>1. /\ server = "running" /\ ExitServer /\ pc' = pc /\ client' = client
          /\ target' = target /\ files' = files /\ conn' = conn
          /\ request' = request /\ request[w] = "overlong"
          /\ pc[w] \notin {"idle", "line"}
      BY <1>6 DEF Overrun, envVars
    <2>2. target[conn[w]] = "overlong" \/ client[conn[w]] = "closed"
      BY <2>1 DEF ServeInv, Serving
    <2>. QED  BY <2>1, <2>2, ServeExit
  <1>. QED  BY <1>1, <1>3, <1>4, <1>5, <1>6

(* All steps.                                                              *)
LEMMA ServeStep == ServeInv /\ [Next]_vars => ServeInv'
  <1>. SUFFICES ASSUME ServeInv, [Next]_vars PROVE ServeInv'
    OBVIOUS
  <1>1. TypeInv'
    BY TypeStep DEF ServeInv
  <1>2. ASSUME NEW w \in Workers, WorkerStep(w)
        PROVE  Serving' /\ ServerRuns'
    BY <1>2, ServeTake, ServeReadLine, ServeBefore, ServeReply, ServeOthers
       DEF WorkerStep
  <1>3. Serving' /\ ServerRuns'
    BY <1>2, ServeClient, ServeOthers DEF Next
  <1>. QED  BY <1>1, <1>3 DEF ServeInv

(* The whole server ends only when a client went away early, for a file    *)
(* that Open or Mmap refuses or that was removed, or for an overlong       *)
(* request, whatever the workers do meanwhile.                             *)
THEOREM ServerEndsOnlyBy == Spec => []ServerRuns
  <1>1. ServeInv => ServerRuns
    BY DEF ServeInv
  <1>. QED  BY ServeInit, ServeStep, <1>1, PTL DEF Spec

-----------------------------------------------------------------------------
(* The responses.                                                          *)

(* The initial state.                                                      *)
LEMMA ResponseInit == Init => ResponseInv
  <1>. SUFFICES ASSUME Init PROVE ResponseInv
    OBVIOUS
  <1>1. Responses
    BY DEF Init, Responses, HeadsOn, Before, After
  <1>. QED  BY <1>1, ServeInit DEF ResponseInv

(* A worker stays on its side of the first write.                          *)
LEMMA ResponseKept ==
    ASSUME ResponseInv, NEW w \in Workers, NEW l \in WorkerPCs,
           pc' = [pc EXCEPT ![w] = l],
           (pc[w] \in Before /\ l \in Before) \/ (pc[w] \in After /\ l \in After),
           heads' = heads, server' = server, open' = open, client' = client,
           target' = target, conn' = conn, files' = files,
           bodies \subseteq bodies',
           l = "close" => Done(conn[w]) \/ conn[w] \in bodies',
           \A v \in Workers : child'[v] = "zombie" => child[v] = "zombie"
    PROVE  Responses'
  <1>1. \A v \in Workers : pc'[v] = IF v = w THEN l ELSE pc[v]
    BY DEF ResponseInv, ServeInv, TypeInv, TypeOK
  <1>2. \A c : Done(c) => Done(c)'
    BY DEF Done
  <1>3. \A c : c \in bodies' => Done(c)'
    BY DEF Done
  <1>4. \A c : HeadsOn(c)' = HeadsOn(c) /\ (OneHead(c)' <=> OneHead(c))
    BY DEF HeadsOn, OneHead
  <1>. QED  BY <1>1, <1>2, <1>3, <1>4 DEF ResponseInv, Responses, Before, After

(* The first write of a response.                                          *)
LEMMA ResponseHead ==
    ASSUME ResponseInv, NEW w \in Workers, NEW l \in After \ {"close"},
           server = "running", pc[w] \in Before, pc' = [pc EXCEPT ![w] = l],
           WriteHead(w), server' = server, open' = open, client' = client,
           target' = target, conn' = conn, files' = files, bodies' = bodies,
           child' = child
    PROVE  Responses'
  <1>. DEFINE b == conn[w]
              h == [conn |-> conn[w], worker |-> w, request |-> request[w],
                    status |-> status[w], stats |-> stats[w]]
  <1>1. \A v \in Workers : pc'[v] = IF v = w THEN l ELSE pc[v]
    BY DEF ResponseInv, ServeInv, TypeInv, TypeOK
  <1>2. b \in Conns /\ b \in open /\ client[b] # "new"
    BY ConnsAssumption
       DEF ResponseInv, ServeInv, TypeInv, TypeOK, Serving, Before
  <1>3. \A v \in Workers : v # w => conn[v] # b
    BY <1>2, ConnsAssumption DEF ResponseInv, ServeInv, Serving
  <1>4. heads' = heads \cup {h} /\ h.conn = b
    BY DEF WriteHead
  <1>. HIDE DEF h
  <1>5. HeadsOn(b) = {}
    BY <1>2 DEF ResponseInv, Responses
  <1>6. HeadsOn(b)' = {h}
    BY <1>4, <1>5 DEF HeadsOn
  <1>7. OneHead(b)'
    BY <1>6 DEF OneHead
  <1>8. \A c : c # b => HeadsOn(c)' = HeadsOn(c) /\ (OneHead(c)' <=> OneHead(c))
    BY <1>4 DEF HeadsOn, OneHead
  <1>9. \A c : Done(c)' <=> Done(c)
    BY DEF Done
  <1>10. child[w] # "zombie"
    BY DEF ResponseInv, ServeInv, TypeInv, Wire, Before
  <1>. HIDE DEF b
  <1>11. ASSUME NEW v \in Workers, NEW c \in Conns, conn[v] = c
         PROVE  /\ pc'[v] \in Before => HeadsOn(c)' = {}
                /\ pc'[v] \in After => OneHead(c)'
                /\ pc'[v] = "close" \/ child[v] = "zombie" => Done(c)'
    <2>1. CASE v = w
      BY <1>1, <1>7, <1>10, <1>11, <2>1 DEF b, Before, After
    <2>2. CASE v # w
      BY <1>1, <1>3, <1>8, <1>9, <1>11, <2>2 DEF ResponseInv, Responses
    <2>. QED  BY <2>1, <2>2
  <1>12. \A c \in Conns : client[c] = "new" => HeadsOn(c)' = {}
    BY <1>2, <1>8 DEF ResponseInv, Responses
  <1>13. \A c \in open : c \notin {conn[v] : v \in Workers} => HeadsOn(c)' = {}
    BY <1>2, <1>8 DEF ResponseInv, Responses, b
  <1>14. \A c \in Conns \ open : client[c] # "new" => OneHead(c)' /\ Done(c)'
    BY <1>2, <1>8, <1>9 DEF ResponseInv, Responses
  <1>. QED  BY <1>11, <1>12, <1>13, <1>14 DEF Responses

(* The end of the server closes everything.                                *)
LEMMA ResponseExit ==
    ASSUME ResponseInv, ExitServer, pc' = pc, heads' = heads,
           client' = client, target' = target, conn' = conn, files' = files,
           bodies' = bodies, child' = child
    PROVE  Responses'
  <1>1. \A c : HeadsOn(c)' = HeadsOn(c) /\ (OneHead(c)' <=> OneHead(c))
               /\ (Done(c)' <=> Done(c))
    BY DEF HeadsOn, OneHead, Done
  <1>. QED  BY <1>1 DEF ResponseInv, Responses, ExitServer

(* The clients.                                                            *)
LEMMA ResponseClient ==
    ASSUME ResponseInv, NEW c \in Conns, ClientStep(c)
    PROVE  Responses'
  <1>1. /\ server' = server /\ target' = target /\ files' = files /\ pc' = pc
        /\ conn' = conn /\ child' = child /\ heads' = heads /\ bodies' = bodies
    BY DEF ClientStep, Connect, SendRequest, SendHeader, SendBlank, ClientClose,
           SendLine, childVars, replyVars
  <1>2. \/ open' = open \cup {c} /\ client' = [client EXCEPT ![c] = "connected"]
           /\ client[c] = "new"
        \/ open' = open /\ client[c] # "new" /\ client[c] # "closed"
           /\ \E n \in {"headers", "reading", "closed"} :
                 client' = [client EXCEPT ![c] = n]
    BY DEF ClientStep, Connect, SendRequest, SendHeader, SendBlank, ClientClose,
           SendLine
  <1>3. client \in [Conns -> {"new", "connected", "headers", "reading", "closed"}]
    BY DEF ResponseInv, ServeInv, TypeInv, TypeOK
  <1>4. /\ \A d \in Conns : d # c => client'[d] = client[d]
        /\ client[c] # "closed" /\ client'[c] # "new"
        /\ open \subseteq open' /\ open' \subseteq open \cup {c}
        /\ open' = open \/ HeadsOn(c) = {}
        /\ client[c] = "new" => c \in open'
    BY <1>2, <1>3 DEF ResponseInv, Responses
  <1>5. \A d \in Conns : Done(d) => Done(d)'
    BY <1>1, <1>4 DEF Done
  <1>6. \A d : HeadsOn(d)' = HeadsOn(d) /\ (OneHead(d)' <=> OneHead(d))
    BY <1>1 DEF HeadsOn, OneHead
  <1>. QED  BY <1>1, <1>4, <1>5, <1>6 DEF ResponseInv, Responses

(* A connection that is taken has no response yet.                         *)
LEMMA ResponseTake ==
    ASSUME ResponseInv, NEW w \in Workers, Take(w)
    PROVE  Responses'
  <1>1. PICK b \in open \ {conn[v] : v \in Workers} :
           conn' = [conn EXCEPT ![w] = b]
    BY DEF Take
  <1>2. /\ server' = server /\ open' = open /\ client' = client
        /\ target' = target /\ files' = files /\ child' = child
        /\ heads' = heads /\ bodies' = bodies
        /\ pc[w] = "idle" /\ pc' = [pc EXCEPT ![w] = "line"]
    BY DEF Take, Goto, At, envVars, childVars, replyVars
  <1>3. \A v \in Workers : /\ pc'[v] = IF v = w THEN "line" ELSE pc[v]
                           /\ conn'[v] = IF v = w THEN b ELSE conn[v]
    BY <1>1, <1>2 DEF ResponseInv, ServeInv, TypeInv, TypeOK
  <1>4. HeadsOn(b) = {} /\ child[w] = "none"
    BY <1>1, <1>2 DEF ResponseInv, Responses, ServeInv, TypeInv, Wire
  <1>5. \A d : HeadsOn(d)' = HeadsOn(d) /\ (OneHead(d)' <=> OneHead(d))
               /\ (Done(d)' <=> Done(d))
    BY <1>2 DEF HeadsOn, OneHead, Done
  <1>6. ASSUME NEW v \in Workers, NEW c \in Conns, conn'[v] = c
        PROVE  /\ pc'[v] \in Before => HeadsOn(c) = {}
               /\ pc'[v] \in After => OneHead(c)
               /\ pc'[v] = "close" \/ child[v] = "zombie" => Done(c)
    <2>1. CASE v = w
      BY <1>3, <1>4, <1>6, <2>1 DEF After
    <2>2. CASE v # w
      BY <1>3, <1>6, <2>2 DEF ResponseInv, Responses
    <2>. QED  BY <2>1, <2>2
  <1>7. ASSUME NEW d \in open, d \notin {conn'[v] : v \in Workers}
        PROVE  HeadsOn(d) = {}
    <2>1. CASE d \in {conn[v] : v \in Workers}
      <3>1. PICK v \in Workers : d = conn[v]
        BY <2>1
      <3>2. v = w
        BY <1>3, <1>7, <3>1
      <3>3. d = NoConn /\ open \subseteq Conns
        BY <1>2, <3>1, <3>2 DEF ResponseInv, ServeInv, TypeInv, TypeOK
      <3>. QED  BY <3>3, ConnsAssumption
    <2>2. CASE d \notin {conn[v] : v \in Workers}
      BY <2>2 DEF ResponseInv, Responses
    <2>. QED  BY <2>1, <2>2
  <1>. QED  BY <1>2, <1>5, <1>6, <1>7 DEF ResponseInv, Responses

(* The other steps before the response.                                    *)
LEMMA ResponseBefore ==
    ASSUME ResponseInv, NEW w \in Workers,
           ReadLine(w) \/ ReadHeader(w) \/ ReadHeaderEOF(w) \/ Stat(w)
    PROVE  Responses'
  <1>1. /\ server' = server /\ open' = open /\ client' = client
        /\ target' = target /\ files' = files /\ conn' = conn
        /\ child' = child /\ heads' = heads /\ bodies' = bodies
        /\ pc[w] \in {"line", "hdrs", "stat"}
    BY DEF ReadLine, ReadHeader, ReadHeaderEOF, Stat, envVars, childVars,
           replyVars, At
  <1>2. \/ pc' = pc
        \/ \E l \in {"hdrs", "stat", "error", "static", "cgi"} :
              pc' = [pc EXCEPT ![w] = l]
    BY DEF ReadLine, ReadHeader, ReadHeaderEOF, Stat, Goto
  <1>3. pc \in [Workers -> WorkerPCs]
    BY DEF ResponseInv, ServeInv, TypeInv, TypeOK
  <1>4. \E l \in Before : pc' = [pc EXCEPT ![w] = l]
    <2>1. pc = [pc EXCEPT ![w] = pc[w]]
      BY <1>3
    <2>. QED  BY <1>1, <1>2, <2>1 DEF Before
  <1>. QED  BY <1>1, <1>4, ResponseKept DEF Before, WorkerPCs

(* The steps of the response.                                              *)
LEMMA ResponseReply ==
    ASSUME ResponseInv, NEW w \in Workers,
           \/ ErrorHead(w) \/ ErrorRest(w) \/ StaticHead(w) \/ StaticBody(w)
           \/ CgiHead(w) \/ ForkChild(w) \/ WaitPid(w)
    PROVE  Responses'
  <1>1. /\ client' = client /\ target' = target /\ files' = files
        /\ conn' = conn /\ server = "running"
    BY DEF ErrorHead, ErrorRest, StaticHead, StaticBody, CgiHead, ForkChild,
           WaitPid, envVars, At
  <1>2. CASE /\ server' = server /\ open' = open /\ bodies' = bodies
             /\ child' = child /\ WriteHead(w)
             /\ pc[w] \in {"error", "static", "cgi"}
             /\ \E l \in {"error_rest", "static_body", "fork"} :
                   pc' = [pc EXCEPT ![w] = l]
    BY <1>1, <1>2, ResponseHead DEF Before, After
  <1>3. CASE /\ ExitServer /\ pc' = pc /\ heads' = heads /\ bodies' = bodies
             /\ child' = child
    BY <1>1, <1>3, ResponseExit
  <1>4. CASE /\ server' = server /\ open' = open /\ heads' = heads
             /\ bodies' = bodies \cup {conn[w]} /\ child' = child
             /\ pc[w] \in {"error_rest", "static_body"}
             /\ pc' = [pc EXCEPT ![w] = "close"]
    BY <1>1, <1>4, ResponseKept DEF After, WorkerPCs
  <1>5. CASE ForkChild(w)
    <2>1. /\ server' = server /\ open' = open /\ heads' = heads
          /\ bodies' = bodies /\ pc[w] = "fork"
          /\ child' = [child EXCEPT ![w] = "running"]
          /\ pc' = [pc EXCEPT ![w] = "waitpid"]
      BY <1>5 DEF ForkChild, At, Goto, replyVars
    <2>2. \A v \in Workers : child'[v] = "zombie" => child[v] = "zombie"
      BY <2>1 DEF ResponseInv, ServeInv, TypeInv, TypeOK
    <2>. QED  BY <1>1, <2>1, <2>2, ResponseKept DEF After, WorkerPCs
  <1>6. CASE WaitPid(w)
    <2>1. /\ server' = server /\ open' = open /\ heads' = heads
          /\ bodies' = bodies /\ pc[w] = "waitpid" /\ child[w] = "zombie"
          /\ child' = [child EXCEPT ![w] = "none"]
          /\ pc' = [pc EXCEPT ![w] = "close"]
      BY <1>6 DEF WaitPid, At, Goto, replyVars
    <2>2. \A v \in Workers : child'[v] = "zombie" => child[v] = "zombie"
      BY <2>1 DEF ResponseInv, ServeInv, TypeInv, TypeOK
    <2>3. conn[w] \in Conns
      BY <2>1 DEF ResponseInv, ServeInv, TypeInv, TypeOK
    <2>4. Done(conn[w])
      BY <2>1, <2>3 DEF ResponseInv, Responses
    <2>. QED  BY <1>1, <2>1, <2>2, <2>4, ResponseKept DEF After, WorkerPCs
  <1>7. CASE ErrorHead(w) \/ StaticHead(w) \/ CgiHead(w)
    BY <1>2, <1>3, <1>7 DEF ErrorHead, StaticHead, CgiHead, At, Goto, childVars
  <1>8. CASE ErrorRest(w) \/ StaticBody(w)
    BY <1>3, <1>4, <1>8 DEF ErrorRest, StaticBody, WriteRest, At, Goto, childVars
  <1>. QED  BY <1>5, <1>6, <1>7, <1>8

(* The child of a worker writes the body unless its program is gone.       *)
LEMMA ResponseChild ==
    ASSUME ResponseInv, NEW w \in Workers, ChildRuns(w)
    PROVE  Responses'
  <1>1. /\ server' = server /\ open' = open /\ client' = client
        /\ target' = target /\ files' = files /\ pc' = pc /\ conn' = conn
        /\ heads' = heads /\ child' = [child EXCEPT ![w] = "zombie"]
        /\ bodies' = IF "cgi" \in files THEN bodies \cup {conn[w]} ELSE bodies
    BY DEF ChildRuns, envVars
  <1>2. pc[w] = "waitpid"
    BY DEF ChildRuns, ResponseInv, ServeInv, TypeInv, Wire
  <1>3. target[conn[w]] = "cgi" \/ client[conn[w]] = "closed"
    BY <1>2 DEF ResponseInv, ServeInv, Serving
  <1>4. \A c : c = conn[w] => Done(c)'
    BY <1>1, <1>3 DEF Done
  <1>5. \A c : Done(c) => Done(c)'
    BY <1>1 DEF Done
  <1>6. \A d : HeadsOn(d)' = HeadsOn(d) /\ (OneHead(d)' <=> OneHead(d))
    BY <1>1 DEF HeadsOn, OneHead
  <1>7. \A v \in Workers : v # w => child'[v] = child[v]
    BY <1>1 DEF ResponseInv, ServeInv, TypeInv, TypeOK
  <1>. QED  BY <1>1, <1>4, <1>5, <1>6, <1>7 DEF ResponseInv, Responses

(* A connection is closed with its response.                               *)
LEMMA ResponseClose ==
    ASSUME ResponseInv, NEW w \in Workers, CloseConn(w)
    PROVE  Responses'
  <1>. DEFINE b == conn[w]
  <1>1. /\ server' = server /\ open' = open \ {b} /\ client' = client
        /\ target' = target /\ files' = files /\ child' = child
        /\ heads' = heads /\ bodies' = bodies
        /\ pc[w] = "close" /\ pc' = [pc EXCEPT ![w] = "idle"]
        /\ conn' = [conn EXCEPT ![w] = NoConn]
    BY DEF CloseConn, Goto, At, envVars, childVars, replyVars
  <1>2. \A v \in Workers : /\ pc'[v] = IF v = w THEN "idle" ELSE pc[v]
                           /\ conn'[v] = IF v = w THEN NoConn ELSE conn[v]
    BY <1>1 DEF ResponseInv, ServeInv, TypeInv, TypeOK
  <1>3. b \in Conns
    BY <1>1 DEF ResponseInv, ServeInv, TypeInv, TypeOK
  <1>4. OneHead(b) /\ Done(b)
    BY <1>1, <1>3 DEF ResponseInv, Responses, After
  <1>5. \A d : HeadsOn(d)' = HeadsOn(d) /\ (OneHead(d)' <=> OneHead(d))
               /\ (Done(d)' <=> Done(d))
    BY <1>1 DEF HeadsOn, OneHead, Done
  <1>6. ASSUME NEW v \in Workers, NEW c \in Conns, conn'[v] = c
        PROVE  /\ pc'[v] \in Before => HeadsOn(c) = {}
               /\ pc'[v] \in After => OneHead(c)
               /\ pc'[v] = "close" \/ child[v] = "zombie" => Done(c)
    <2>1. v # w
      BY <1>2, <1>6, ConnsAssumption
    <2>. QED  BY <1>2, <1>6, <2>1 DEF ResponseInv, Responses
  <1>7. ASSUME NEW d \in open, d # b, d \notin {conn'[v] : v \in Workers}
        PROVE  HeadsOn(d) = {}
    <2>1. d \notin {conn[v] : v \in Workers}
      BY <1>2, <1>7
    <2>. QED  BY <2>1 DEF ResponseInv, Responses
  <1>. HIDE DEF b
  <1>8. ASSUME server = "running", NEW d \in Conns, d \notin open \/ d = b,
               client[d] # "new"
        PROVE  OneHead(d) /\ Done(d)
    BY <1>4, <1>8 DEF ResponseInv, Responses
  <1>. QED  BY <1>1, <1>5, <1>6, <1>7, <1>8 DEF ResponseInv, Responses

(* The files, and steps that change nothing.                               *)
LEMMA ResponseOthers ==
    ASSUME ResponseInv,
           (\E f \in Removable : RemoveFile(f)) \/ UNCHANGED vars
    PROVE  Responses'
  <1>1. /\ server' = server /\ open' = open /\ client' = client
        /\ target' = target /\ files' \subseteq files /\ pc' = pc
        /\ conn' = conn /\ child' = child /\ heads' = heads /\ bodies' = bodies
    BY DEF RemoveFile, vars, childVars, replyVars
  <1>2. \A d : HeadsOn(d)' = HeadsOn(d) /\ (OneHead(d)' <=> OneHead(d))
               /\ (Done(d) => Done(d)')
    BY <1>1 DEF HeadsOn, OneHead, Done
  <1>. QED  BY <1>1, <1>2 DEF ResponseInv, Responses

(* All steps.                                                              *)
LEMMA ResponseStep == ResponseInv /\ [Next]_vars => ResponseInv'
  <1>. SUFFICES ASSUME ResponseInv, [Next]_vars PROVE ResponseInv'
    OBVIOUS
  <1>1. ServeInv'
    BY ServeStep DEF ResponseInv
  <1>2. ASSUME NEW w \in Workers, WorkerStep(w)
        PROVE  Responses'
    <2>1. CASE Overrun(w)
      BY <2>1, ResponseExit DEF Overrun, envVars, childVars, replyVars
    <2>. QED  BY <1>2, <2>1, ResponseTake, ResponseBefore, ResponseReply,
                 ResponseClose DEF WorkerStep
  <1>3. Responses'
    BY <1>2, ResponseClient, ResponseChild, ResponseOthers DEF Next
  <1>. QED  BY <1>1, <1>3 DEF ResponseInv

(* A client that waits until its connection is closed has one header and   *)
(* the whole body, however many workers and CGI children write and wait at *)
(* the same time.                                                          *)
THEOREM ResponsesComplete == Spec => []ResponseComplete
  <1>1. ASSUME ResponseInv PROVE ResponseComplete
    <2>. SUFFICES ASSUME server = "running", NEW c \in Conns,
                         client[c] = "reading", c \notin open,
                         target[c] = "cgi" => "cgi" \in files
                  PROVE  /\ c \in bodies
                         /\ Cardinality({h \in heads : h.conn = c}) = 1
      BY DEF ResponseComplete
    <2>1. OneHead(c) /\ Done(c)
      BY <1>1 DEF ResponseInv, Responses
    <2>2. c \in bodies
      BY <2>1 DEF Done
    <2>3. PICK h : HeadsOn(c) = {h}
      BY <2>1 DEF OneHead
    <2>4. Cardinality({h}) = 1
      BY FS_Singleton
    <2>. QED  BY <2>2, <2>3, <2>4 DEF HeadsOn
  <1>. QED  BY ResponseInit, ResponseStep, <1>1, PTL DEF Spec

-----------------------------------------------------------------------------
(* The counters of the workers: what a response reports is what the worker *)
(* has done.                                                               *)

(* The programs, the files, and what was sent no later than h, among the   *)
(* response headers H.                                                     *)
CgiIn(H) == {g \in H : g.status = "200" /\ g.request = "cgi"}
FilesIn(H) == {g \in H : g.status = "200" /\ g.request # "cgi"}
UpTo(H, h) == {g \in H : g.stats.req <= h.stats.req}

(* The headers H are numbered 1 to n, and each reports those up to it.     *)
Numbered(H, n) ==
    /\ IsFiniteSet(H) /\ n \in Nat /\ Cardinality(H) = n
    /\ \A h \in H : h.stats.req \in 1..n
    /\ \A i \in 1..n : \E h \in H : h.stats.req = i

Told(H) ==
    \A h \in H : /\ h.stats.dynamic = Cardinality(CgiIn(UpTo(H, h)))
                 /\ h.stats.static = Cardinality(FilesIn(UpTo(H, h)))

One(b) == IF b THEN 1 ELSE 0

(* The counters s of a worker at p, with the status st it has found: they  *)
(* are ahead of its headers H while a request is counted and not answered. *)
Tallied(H, s, p, st) ==
    /\ Numbered(H, s.req - One(p \in Before)) /\ Told(H)
    /\ s.dynamic = Cardinality(CgiIn(H)) + One(p = "cgi")
    /\ s.static = Cardinality(FilesIn(H)) + One(p = "static")
    /\ p = "error" => st # "200"
    /\ p \in {"static", "cgi"} => st = "200"

Tally == \A w \in Workers : Tallied(HeadsOf(w), stats[w], pc[w], status[w])

CountInv == ServeInv /\ Tally

-----------------------------------------------------------------------------
(* Finite sets of headers.                                                 *)
LEMMA PartsFinite ==
    ASSUME NEW H, IsFiniteSet(H)
    PROVE  /\ IsFiniteSet(CgiIn(H)) /\ IsFiniteSet(FilesIn(H))
           /\ Cardinality(CgiIn(H)) \in Nat /\ Cardinality(FilesIn(H)) \in Nat
  <1>1. CgiIn(H) \subseteq H /\ FilesIn(H) \subseteq H
    BY DEF CgiIn, FilesIn
  <1>2. IsFiniteSet(CgiIn(H)) /\ IsFiniteSet(FilesIn(H))
    BY <1>1, FS_Subset
  <1>. QED  BY <1>2, FS_CardinalityType

(* The first header after the n that were sent.                            *)
LEMMA NextHead ==
    ASSUME NEW H, NEW n \in Nat, Numbered(H, n), Told(H),
           NEW h, h.stats.req = n + 1,
           h.stats.dynamic = Cardinality(CgiIn(H))
                                + One(h.status = "200" /\ h.request = "cgi"),
           h.stats.static = Cardinality(FilesIn(H))
                                + One(h.status = "200" /\ h.request # "cgi")
    PROVE  /\ Numbered(H \cup {h}, n + 1) /\ Told(H \cup {h})
           /\ h.stats.dynamic = Cardinality(CgiIn(H \cup {h}))
           /\ h.stats.static = Cardinality(FilesIn(H \cup {h}))
  <1>. DEFINE K == H \cup {h}
  <1>1. h \notin H
    BY DEF Numbered
  <1>2. IsFiniteSet(H) /\ IsFiniteSet(CgiIn(H)) /\ IsFiniteSet(FilesIn(H))
    BY PartsFinite DEF Numbered
  <1>3. IsFiniteSet(K) /\ Cardinality(K) = n + 1
    BY <1>1, <1>2, FS_AddElement DEF Numbered
  <1>4. Numbered(K, n + 1)
    <2>1. \A g \in K : g.stats.req \in 1..(n + 1)
      BY DEF Numbered
    <2>2. ASSUME NEW i \in 1..(n + 1)
          PROVE  \E g \in K : g.stats.req = i
      <3>1. CASE i = n + 1
        BY <3>1
      <3>2. CASE i # n + 1
        BY <3>2 DEF Numbered
      <3>. QED  BY <3>1, <3>2
    <2>. QED  BY <1>3, <2>1, <2>2 DEF Numbered
  <1>5. Cardinality(CgiIn(K)) = h.stats.dynamic
    <2>1. CASE h.status = "200" /\ h.request = "cgi"
      <3>1. CgiIn(K) = CgiIn(H) \cup {h} /\ h \notin CgiIn(H)
        BY <1>1, <2>1 DEF CgiIn
      <3>2. Cardinality(CgiIn(K)) = Cardinality(CgiIn(H)) + 1
        BY <1>2, <3>1, FS_AddElement
      <3>. QED  BY <2>1, <3>2 DEF One
    <2>2. CASE ~(h.status = "200" /\ h.request = "cgi")
      <3>1. CgiIn(K) = CgiIn(H)
        BY <2>2 DEF CgiIn
      <3>. QED  BY <2>2, <3>1, <1>2, PartsFinite DEF One
    <2>. QED  BY <2>1, <2>2
  <1>6. Cardinality(FilesIn(K)) = h.stats.static
    <2>1. CASE h.status = "200" /\ h.request # "cgi"
      <3>1. FilesIn(K) = FilesIn(H) \cup {h} /\ h \notin FilesIn(H)
        BY <1>1, <2>1 DEF FilesIn
      <3>2. Cardinality(FilesIn(K)) = Cardinality(FilesIn(H)) + 1
        BY <1>2, <3>1, FS_AddElement
      <3>. QED  BY <2>1, <3>2 DEF One
    <2>2. CASE ~(h.status = "200" /\ h.request # "cgi")
      <3>1. FilesIn(K) = FilesIn(H)
        BY <2>2 DEF FilesIn
      <3>. QED  BY <2>2, <3>1, <1>2, PartsFinite DEF One
    <2>. QED  BY <2>1, <2>2
  <1>7. UpTo(K, h) = K
    BY DEF UpTo, Numbered
  <1>8. \A g \in H : UpTo(K, g) = UpTo(H, g)
    BY DEF UpTo, Numbered
  <1>9. Told(K)
    BY <1>5, <1>6, <1>7, <1>8 DEF Told
  <1>. QED  BY <1>4, <1>5, <1>6, <1>9

-----------------------------------------------------------------------------
(* The points of requestHandle, one lemma for each kind of step.           *)

(* thread_func has no request and no header.                               *)
LEMMA TalliedInit ==
    Tallied({}, [req |-> 0, static |-> 0, dynamic |-> 0], "idle", "none")
  <1>1. IsFiniteSet({}) /\ Cardinality({}) = 0
    BY FS_EmptySet
  <1>2. CgiIn({}) = {} /\ FilesIn({}) = {}
    BY DEF CgiIn, FilesIn
  <1>. QED  BY <1>1, <1>2 DEF Tallied, Numbered, Told, One, Before

(* requestHandle counts the request.                                       *)
LEMMA TalliedTake ==
    ASSUME NEW H, NEW s \in Counters, NEW st, Tallied(H, s, "idle", st)
    PROVE  Tallied(H, CountRequest(s), "line", st)
  <1>. DEFINE t == CountRequest(s)
  <1>1. t.req = s.req + 1 /\ t.dynamic = s.dynamic /\ t.static = s.static
    BY DEF CountRequest, Counters
  <1>2. s.req \in Nat
    BY DEF Counters
  <1>. HIDE DEF t
  <1>3. t.req - One("line" \in Before) = s.req - One("idle" \in Before)
    BY <1>1, <1>2 DEF One, Before
  <1>. QED  BY <1>1, <1>3 DEF Tallied, One, t

(* Steps that neither count nor send.                                      *)
LEMMA TalliedKept ==
    ASSUME NEW H, NEW s, NEW p, NEW q, NEW st, NEW sr, Tallied(H, s, p, st),
           p \in Before <=> q \in Before,
           p \notin {"static", "cgi"} /\ q \notin {"static", "cgi"},
           q = "error" => sr # "200"
    PROVE  Tallied(H, s, q, sr)
  BY DEF Tallied, One

(* The file may be served, and is counted.                                 *)
LEMMA TalliedServed ==
    ASSUME NEW H, NEW s \in Counters, NEW st, NEW r, Tallied(H, s, "stat", st)
    PROVE  Tallied(H, CountServed(s, r), IF r = "cgi" THEN "cgi" ELSE "static", "200")
  <1>. DEFINE t == CountServed(s, r)
  <1>1. /\ s.static \in Nat /\ s.dynamic \in Nat
        /\ Cardinality(CgiIn(H)) = s.dynamic /\ Cardinality(FilesIn(H)) = s.static
    <2>1. /\ Cardinality(CgiIn(H)) \in Nat /\ Cardinality(FilesIn(H)) \in Nat
      BY PartsFinite DEF Tallied, Numbered
    <2>. QED  BY <2>1 DEF Tallied, One, Counters
  <1>2. CASE r = "cgi"
    <2>1. t.req = s.req /\ t.dynamic = s.dynamic + 1 /\ t.static = s.static
      BY <1>2 DEF CountServed, Counters
    <2>. HIDE DEF t
    <2>2. Tallied(H, t, "cgi", "200")
      BY <1>1, <2>1 DEF Tallied, One, Before
    <2>. QED  BY <1>2, <2>2 DEF t
  <1>3. CASE r # "cgi"
    <2>1. t.req = s.req /\ t.dynamic = s.dynamic /\ t.static = s.static + 1
      BY <1>3 DEF CountServed, Counters
    <2>. HIDE DEF t
    <2>2. Tallied(H, t, "static", "200")
      BY <1>1, <2>1 DEF Tallied, One, Before
    <2>. QED  BY <1>3, <2>2 DEF t
  <1>. QED  BY <1>2, <1>3

(* The first write of the response reports the counters.                   *)
LEMMA TalliedHead ==
    ASSUME NEW H, NEW s \in Counters, NEW p \in {"error", "static", "cgi"},
           NEW st, Tallied(H, s, p, st), NEW h,
           h.stats = s, h.status = st,
           p = "cgi" => h.request = "cgi", p = "static" => h.request # "cgi",
           NEW q, q \notin Before
    PROVE  Tallied(H \cup {h}, s, q, st)
  <1>. DEFINE n == s.req - One(p \in Before)
  <1>1. n \in Nat /\ Numbered(H, n) /\ Told(H)
    BY DEF Tallied, Numbered
  <1>2. s.req \in Nat /\ s.req = n + 1
    BY DEF Counters, One, Before
  <1>3. /\ h.stats.dynamic = Cardinality(CgiIn(H))
              + One(h.status = "200" /\ h.request = "cgi")
        /\ h.stats.static = Cardinality(FilesIn(H))
              + One(h.status = "200" /\ h.request # "cgi")
    BY DEF Tallied, One
  <1>. HIDE DEF n
  <1>4. /\ Numbered(H \cup {h}, n + 1) /\ Told(H \cup {h})
        /\ s.dynamic = Cardinality(CgiIn(H \cup {h}))
        /\ s.static = Cardinality(FilesIn(H \cup {h}))
    BY <1>1, <1>2, <1>3, NextHead
  <1>5. s.req - One(q \in Before) = n + 1
    BY <1>2 DEF One
  <1>6. One(q = "cgi") = 0 /\ One(q = "static") = 0 /\ q # "error"
    BY DEF One, Before
  <1>7. s.dynamic \in Nat /\ s.static \in Nat
    BY DEF Counters
  <1>. QED  BY <1>4, <1>5, <1>6, <1>7 DEF Tallied, Before

-----------------------------------------------------------------------------
(* The steps of the server.                                                *)

(* A step that leaves every header and counter alone.                      *)
LEMMA TallyUntouched ==
    ASSUME Tally, heads' = heads, stats' = stats, pc' = pc, status' = status
    PROVE  Tally'
  <1>1. \A w : HeadsOf(w)' = HeadsOf(w)
    BY DEF HeadsOf
  <1>. QED  BY <1>1 DEF Tally

(* A step of one worker that sends no header.                              *)
LEMMA TallyGoto ==
    ASSUME CountInv, NEW w \in Workers, NEW l, NEW s, NEW st, heads' = heads,
           pc' = [pc EXCEPT ![w] = l], stats' = [stats EXCEPT ![w] = s],
           status' = [status EXCEPT ![w] = st], Tallied(HeadsOf(w), s, l, st)
    PROVE  Tally'
  <1>1. \A v : HeadsOf(v)' = HeadsOf(v)
    BY DEF HeadsOf
  <1>2. \A v \in Workers : /\ pc'[v] = IF v = w THEN l ELSE pc[v]
                           /\ stats'[v] = IF v = w THEN s ELSE stats[v]
                           /\ status'[v] = IF v = w THEN st ELSE status[v]
    BY DEF CountInv, ServeInv, TypeInv, TypeOK
  <1>3. ASSUME NEW v \in Workers
        PROVE  Tallied(HeadsOf(v), stats'[v], pc'[v], status'[v])
    <2>1. CASE v = w
      BY <1>2, <2>1
    <2>2. CASE v # w
      BY <1>2, <2>2 DEF CountInv, Tally
    <2>. QED  BY <2>1, <2>2
  <1>. QED  BY <1>1, <1>3 DEF Tally

(* The step that sends it.                                                 *)
LEMMA TallyHead ==
    ASSUME CountInv, NEW w \in Workers, NEW l, l \notin Before,
           pc[w] \in {"error", "static", "cgi"}, WriteHead(w),
           pc' = [pc EXCEPT ![w] = l], stats' = stats, status' = status
    PROVE  Tally'
  <1>. DEFINE h == [conn |-> conn[w], worker |-> w, request |-> request[w],
                    status |-> status[w], stats |-> stats[w]]
  <1>1. /\ heads' = heads \cup {h} /\ h.worker = w /\ h.stats = stats[w]
        /\ h.status = status[w] /\ h.request = request[w]
    BY DEF WriteHead
  <1>. HIDE DEF h
  <1>2. /\ pc[w] = "cgi" => request[w] = "cgi"
        /\ pc[w] = "static" => request[w] # "cgi"
    BY DEF CountInv, ServeInv, Serving
  <1>3. stats[w] \in Counters
    BY DEF CountInv, ServeInv, TypeInv, TypeOK, Counters
  <1>4. Tallied(HeadsOf(w), stats[w], pc[w], status[w])
    BY DEF CountInv, Tally
  <1>5. Tallied(HeadsOf(w) \cup {h}, stats[w], l, status[w])
    BY <1>1, <1>2, <1>3, <1>4, TalliedHead
  <1>6. HeadsOf(w)' = HeadsOf(w) \cup {h}
    BY <1>1 DEF HeadsOf
  <1>7. \A v : v # w => HeadsOf(v)' = HeadsOf(v)
    BY <1>1 DEF HeadsOf
  <1>8. \A v \in Workers : pc'[v] = IF v = w THEN l ELSE pc[v]
    BY DEF CountInv, ServeInv, TypeInv, TypeOK
  <1>9. ASSUME NEW v \in Workers
        PROVE  Tallied(HeadsOf(v)', stats'[v], pc'[v], status'[v])
    <2>1. CASE v = w
      BY <1>5, <1>6, <1>8, <2>1
    <2>2. CASE v # w
      BY <1>7, <1>8, <2>2 DEF CountInv, Tally
    <2>. QED  BY <2>1, <2>2
  <1>. QED  BY <1>9 DEF Tally

(* The steps that read the request and look for its file.                  *)
LEMMA TallyBefore ==
    ASSUME CountInv, NEW w \in Workers,
           \/ Take(w) \/ ReadLine(w) \/ ReadHeader(w) \/ ReadHeaderEOF(w)
           \/ Stat(w)
    PROVE  Tally'
  <1>. DEFINE H == HeadsOf(w)
              s == stats[w]
              st == status[w]
  <1>1. /\ s \in Counters /\ stats = [stats EXCEPT ![w] = s]
        /\ status = [status EXCEPT ![w] = st] /\ pc = [pc EXCEPT ![w] = pc[w]]
    BY DEF CountInv, ServeInv, TypeInv, TypeOK, Counters
  <1>2. Tallied(H, s, pc[w], st)
    BY DEF CountInv, Tally
  <1>3. heads' = heads
    BY DEF Take, ReadLine, ReadHeader, ReadHeaderEOF, Stat, replyVars
  <1>4. CASE Take(w)
    <2>1. /\ pc[w] = "idle" /\ pc' = [pc EXCEPT ![w] = "line"]
          /\ stats' = [stats EXCEPT ![w] = CountRequest(s)] /\ status' = status
      BY <1>4 DEF Take, At, Goto
    <2>2. Tallied(H, CountRequest(s), "line", st)
      BY <1>1, <1>2, <2>1, TalliedTake
    <2>. QED  BY <1>1, <1>3, <2>1, <2>2, TallyGoto
  <1>. HIDE DEF s, st, H
  <1>5. CASE ReadLine(w)
    <2>1. PICK l, sr : /\ pc' = [pc EXCEPT ![w] = l]
                       /\ status' = [status EXCEPT ![w] = sr]
                       /\ l \in {"error", "hdrs"} /\ (l = "error" => sr # "200")
      BY <1>1, <1>5 DEF ReadLine, Goto
    <2>2. pc[w] = "line" /\ stats' = stats
      BY <1>5 DEF ReadLine, At
    <2>3. Tallied(H, s, l, sr)
      BY <1>2, <2>1, <2>2, TalliedKept DEF Before
    <2>. QED  BY <1>1, <1>3, <2>1, <2>2, <2>3, TallyGoto DEF H
  <1>6. CASE ReadHeader(w) \/ ReadHeaderEOF(w)
    <2>1. PICK l \in {"hdrs", "stat"} : pc' = [pc EXCEPT ![w] = l]
      BY <1>1, <1>6 DEF ReadHeader, ReadHeaderEOF, Goto, At
    <2>2. pc[w] = "hdrs" /\ stats' = stats /\ status' = status
      BY <1>6 DEF ReadHeader, ReadHeaderEOF, At
    <2>3. Tallied(H, s, l, st)
      BY <1>2, <2>1, <2>2, TalliedKept DEF Before
    <2>. QED  BY <1>1, <1>3, <2>1, <2>2, <2>3, TallyGoto DEF H
  <1>7. CASE Stat(w)
    <2>1. pc[w] = "stat"
      BY <1>7 DEF Stat, At
    <2>2. CASE /\ stats' = [stats EXCEPT ![w] = CountServed(stats[w], request[w])]
               /\ status' = [status EXCEPT ![w] = "200"]
               /\ pc' = [pc EXCEPT ![w] = IF request[w] = "cgi" THEN "cgi" ELSE "static"]
      <3>1. Tallied(H, CountServed(s, request[w]),
                    IF request[w] = "cgi" THEN "cgi" ELSE "static", "200")
        BY <1>1, <1>2, <2>1, TalliedServed
      <3>. QED  BY <1>3, <2>2, <3>1, TallyGoto DEF H, s
    <2>3. CASE /\ stats' = stats /\ pc' = [pc EXCEPT ![w] = "error"]
               /\ \E sr \in {"404", "403"} : status' = [status EXCEPT ![w] = sr]
      <3>1. PICK sr \in {"404", "403"} : status' = [status EXCEPT ![w] = sr]
        BY <2>3
      <3>2. Tallied(H, s, "error", sr)
        BY <1>2, <2>1, TalliedKept DEF Before
      <3>. QED  BY <1>1, <1>3, <2>3, <3>1, <3>2, TallyGoto DEF H
    <2>. QED  BY <1>7, <2>2, <2>3 DEF Stat, Goto
  <1>. QED  BY <1>4, <1>5, <1>6, <1>7

(* The response, and the end of the request.                               *)
LEMMA TallyReply ==
    ASSUME CountInv, NEW w \in Workers,
           \/ ErrorHead(w) \/ ErrorRest(w) \/ StaticHead(w) \/ StaticBody(w)
           \/ CgiHead(w) \/ ForkChild(w) \/ WaitPid(w) \/ CloseConn(w)
    PROVE  Tally'
  <1>1. stats' = stats /\ status' = status
    BY DEF ErrorHead, ErrorRest, StaticHead, StaticBody, CgiHead, ForkChild,
           WaitPid, CloseConn
  <1>2. \/ /\ WriteHead(w) /\ pc[w] \in {"error", "static", "cgi"}
           /\ \E l \in {"error_rest", "static_body", "fork"} :
                 pc' = [pc EXCEPT ![w] = l]
        \/ heads' = heads /\ pc' = pc
        \/ /\ heads' = heads
           /\ pc[w] \in {"error_rest", "static_body", "fork", "waitpid", "close"}
           /\ \E l \in {"close", "waitpid", "idle"} : pc' = [pc EXCEPT ![w] = l]
    BY DEF ErrorHead, ErrorRest, StaticHead, StaticBody, CgiHead, ForkChild,
           WaitPid, CloseConn, WriteRest, replyVars, At, Goto
  <1>3. CASE /\ WriteHead(w) /\ pc[w] \in {"error", "static", "cgi"}
             /\ \E l \in {"error_rest", "static_body", "fork"} :
                   pc' = [pc EXCEPT ![w] = l]
    BY <1>1, <1>3, TallyHead DEF Before
  <1>4. CASE heads' = heads /\ pc' = pc
    BY <1>1, <1>4, TallyUntouched DEF CountInv
  <1>5. CASE /\ heads' = heads
             /\ pc[w] \in {"error_rest", "static_body", "fork", "waitpid", "close"}
             /\ \E l \in {"close", "waitpid", "idle"} : pc' = [pc EXCEPT ![w] = l]
    <2>1. PICK l \in {"close", "waitpid", "idle"} : pc' = [pc EXCEPT ![w] = l]
      BY <1>5
    <2>2. Tallied(HeadsOf(w), stats[w], pc[w], status[w])
      BY DEF CountInv, Tally
    <2>3. Tallied(HeadsOf(w), stats[w], l, status[w])
      BY <1>5, <2>2, TalliedKept DEF Before
    <2>4. /\ stats' = [stats EXCEPT ![w] = stats[w]]
          /\ status' = [status EXCEPT ![w] = status[w]]
      BY <1>1 DEF CountInv, ServeInv, TypeInv, TypeOK
    <2>. QED  BY <1>5, <2>1, <2>3, <2>4, TallyGoto
  <1>. QED  BY <1>2, <1>3, <1>4, <1>5

(* The steps of the environment.                                           *)
LEMMA TallyOthers ==
    ASSUME CountInv,
           \/ \E c \in Conns : ClientStep(c)
           \/ \E w \in Workers : ChildRuns(w) \/ Overrun(w)
           \/ \E f \in Removable : RemoveFile(f)
           \/ UNCHANGED vars
    PROVE  Tally'
  <1>1. heads' = heads /\ stats' = stats /\ pc' = pc /\ status' = status
    BY DEF ClientStep, Connect, SendRequest, SendHeader, SendBlank, SendLine,
           ClientClose, ChildRuns, Overrun, RemoveFile, vars, replyVars
  <1>. QED  BY <1>1, TallyUntouched DEF CountInv

(* All steps.                                                              *)
LEMMA CountStep == CountInv /\ [Next]_vars => CountInv'
  <1>. SUFFICES ASSUME CountInv, [Next]_vars PROVE CountInv'
    OBVIOUS
  <1>1. ServeInv'
    BY ServeStep DEF CountInv
  <1>2. ASSUME NEW w \in Workers, WorkerStep(w)
        PROVE  Tally'
    BY <1>2, TallyBefore, TallyReply, TallyOthers DEF WorkerStep
  <1>3. Tally'
    BY <1>2, TallyOthers DEF Next
  <1>. QED  BY <1>1, <1>3 DEF CountInv

(* Every worker without a request has reported the numbers 1 to its count  *)
(* of requests once each, and each response tells how many programs and    *)
(* files were among the worker's responses up to it.                       *)
THEOREM CountsReported == Spec => []ReportedCounts
  <1>1. Init => CountInv
    <2>. SUFFICES ASSUME Init PROVE Tally
      BY ServeInit DEF CountInv
    <2>1. \A w \in Workers : HeadsOf(w) = {}
      BY DEF Init, HeadsOf
    <2>. QED  BY <2>1, TalliedInit DEF Tally, Init
  <1>2. ASSUME CountInv PROVE ReportedCounts
    <2>. SUFFICES ASSUME NEW w \in Workers, pc[w] = "idle"
                  PROVE  /\ {h.stats.req : h \in HeadsOf(w)} = 1..stats[w].req
                         /\ Cardinality(HeadsOf(w)) = stats[w].req
                         /\ \A h \in HeadsOf(w) :
                               LET cgi == {g \in OkUpTo(h) : g.request = "cgi"}
                               IN  /\ h.stats.dynamic = Cardinality(cgi)
                                   /\ h.stats.static = Cardinality(OkUpTo(h) \ cgi)
      BY DEF ReportedCounts
    <2>1. stats[w].req \in Nat
      BY <1>2 DEF CountInv, ServeInv, TypeInv, TypeOK
    <2>2. /\ Numbered(HeadsOf(w), stats[w].req - One("idle" \in Before))
          /\ Told(HeadsOf(w))
      BY <1>2 DEF CountInv, Tally, Tallied
    <2>3. stats[w].req - One("idle" \in Before) = stats[w].req
      BY <2>1 DEF One, Before
    <2>4. Numbered(HeadsOf(w), stats[w].req)
      BY <2>2, <2>3
    <2>5. {h.stats.req : h \in HeadsOf(w)} = 1..stats[w].req
      BY <2>4 DEF Numbered
    <2>6. Cardinality(HeadsOf(w)) = stats[w].req
      BY <2>4 DEF Numbered
    <2>7. ASSUME NEW h \in HeadsOf(w)
          PROVE  LET cgi == {g \in OkUpTo(h) : g.request = "cgi"}
                 IN  /\ h.stats.dynamic = Cardinality(cgi)
                     /\ h.stats.static = Cardinality(OkUpTo(h) \ cgi)
      <3>1. h.worker = w
        BY DEF HeadsOf
      <3>2. /\ {g \in OkUpTo(h) : g.request = "cgi"} = CgiIn(UpTo(HeadsOf(w), h))
            /\ OkUpTo(h) \ {g \in OkUpTo(h) : g.request = "cgi"}
                  = FilesIn(UpTo(HeadsOf(w), h))
        BY <3>1 DEF OkUpTo, CgiIn, FilesIn, UpTo
      <3>. QED  BY <2>2, <3>2 DEF Told
    <2>. QED  BY <2>5, <2>6, <2>7
  <1>. QED  BY <1>1, <1>2, CountStep, PTL DEF Spec
=============================================================================
